---------------------------- MODULE Lists_proofs ----------------------------
(***************************************************************************)
(* Proofs about the lists and the stacks, for every set of values and      *)
(* every size.  In the growing array no slot below length is ever          *)
(* unwritten, and the quicksort stays within the array and leaves the      *)
(* values in order.  The links of a linked list are those of one order of  *)
(* all its entries, each call is one operation on the sequence of its      *)
(* values, the iterators return every entry once and in order, and the     *)
(* stacks are stacks.                                                      *)
(*                                                                         *)
(* A name that ends in D is about the doubly linked list, its counterpart  *)
(* that ends in S about the singly linked one.                             *)
(***************************************************************************)
EXTENDS MC_Lists, FiniteSetTheorems, SequenceTheorems, WellFoundedInduction, TLAPS

-----------------------------------------------------------------------------
(* The growing array. *)
Bounded == alloced <= MaxAlloced

(* There is an array while it is being sorted. *)
SortingExists == Sorting => alloced # 0

IInv == TypeOK /\ Bounded /\ SortingExists /\ WellFormed

-----------------------------------------------------------------------------
(* Two ranges go in front of a sequence of ranges. *)
LEMMA PushTwo ==
  ASSUME NEW S, NEW r \in S, NEW t \in S, NEW s \in Seq(S)
  PROVE  /\ <<r, t>> \o s \in Seq(S)
         /\ Len(<<r, t>> \o s) = Len(s) + 2
         /\ (<<r, t>> \o s)[1] = r
         /\ (<<r, t>> \o s)[2] = t
         /\ \A k \in 3 .. Len(s) + 2 : (<<r, t>> \o s)[k] = s[k - 2]
<1>1. <<r, t>> \in Seq(S) /\ Len(<<r, t>>) = 2
  OBVIOUS
<1>2. <<r, t>>[1] = r /\ <<r, t>>[2] = t
  OBVIOUS
<1>3. Len(s) \in Nat
  BY LenProperties
<1> DEFINE q == <<r, t>>
<1>4. q \in Seq(S) /\ Len(q) = 2 /\ q[1] = r /\ q[2] = t
  BY <1>1, <1>2
<1> HIDE DEF q
<1>5. /\ q \o s \in Seq(S)
      /\ Len(q \o s) = 2 + Len(s)
      /\ \A k \in 1 .. 2 + Len(s) :
           (q \o s)[k] = IF k <= 2 THEN q[k] ELSE s[k - 2]
  <2>1. /\ q \o s \in Seq(S)
        /\ Len(q \o s) = Len(q) + Len(s)
        /\ \A k \in 1 .. Len(q) + Len(s) :
             (q \o s)[k] = IF k <= Len(q) THEN q[k] ELSE s[k - Len(q)]
    BY <1>4, ConcatProperties
  <2> QED BY <1>4, <2>1
<1>6. 1 \in 1 .. 2 + Len(s) /\ 2 \in 1 .. 2 + Len(s)
  BY <1>3
<1>7. /\ q \o s \in Seq(S)
      /\ Len(q \o s) = Len(s) + 2
      /\ (q \o s)[1] = r
      /\ (q \o s)[2] = t
      /\ \A k \in 3 .. Len(s) + 2 : (q \o s)[k] = s[k - 2]
  BY <1>3, <1>4, <1>5, <1>6
<1> QED BY <1>7 DEF q

(* What is left of a sequence of ranges without its first. *)
LEMMA PopOne ==
  ASSUME NEW S, NEW s \in Seq(S), s # <<>>
  PROVE  /\ Tail(s) \in Seq(S)
         /\ Len(s) \in Nat \ {0}
         /\ Len(Tail(s)) = Len(s) - 1
         /\ Head(s) = s[1]
         /\ s[1] \in S
         /\ \A k \in 1 .. Len(s) - 1 : Tail(s)[k] = s[k + 1]
<1>1. Len(s) \in Nat \ {0}
  BY EmptySeq, LenProperties
<1>2. 1 \in 1 .. Len(s)
  BY <1>1
<1>3. s[1] \in S
  BY <1>2, ElementOfSeq
<1> QED BY <1>1, <1>3, HeadTailProperties

-----------------------------------------------------------------------------
(* The block an insertion writes to: large enough, and like data as far as *)
(* data goes.                                                              *)
LEMMA PlaceKeeps ==
  ASSUME NEW block, NEW size \in Nat, NEW index \in Nat, NEW v \in Value,
         TypeOK, Initialised,
         block \in [0 .. size - 1 -> Value \cup {UNDEF}],
         \A n \in 0 .. length - 1 : block[n] = data[n],
         length < size, index <= length,
         Place(block, index, v)
  PROVE  /\ data' \in [0 .. size - 1 -> Value \cup {UNDEF}]
         /\ length' = length + 1
         /\ \A n \in 0 .. length' - 1 : data'[n] \in Value
         /\ result' = 1
<1> DEFINE moved == MemMove(block, index + 1, index, Moved(index))
<1>1. length \in Nat /\ \A n \in 0 .. length - 1 : block[n] \in Value
  BY DEF TypeOK, Initialised
<1>2. ASSUME NEW n \in 0 .. size - 1
      PROVE  moved[n] = IF index + 1 <= n /\ n < length + 1
                        THEN block[n - 1] ELSE block[n]
  <2>1. n - (index + 1) + index = n - 1 /\ (index + 1) + (length - index) = length + 1
    BY <1>1
  <2> QED BY <2>1 DEF MemMove, Moved
<1>3. moved \in [0 .. size - 1 -> Value \cup {UNDEF}]
  <2>1. moved = [n \in 0 .. size - 1 |-> moved[n]]
    BY DEF MemMove
  <2>2. ASSUME NEW n \in 0 .. size - 1 PROVE moved[n] \in Value \cup {UNDEF}
    BY <1>1, <1>2
  <2> HIDE DEF moved
  <2> QED BY <2>1, <2>2
<1>4. data' = [moved EXCEPT ![index] = v] /\ length' = length + 1 /\ result' = 1
  BY DEF Place
<1>5. ASSUME NEW n \in 0 .. length PROVE data'[n] \in Value
  <2>1. n \in 0 .. size - 1
    BY <1>1
  <2>2. CASE n = index
    BY <1>3, <1>4, <2>1, <2>2
  <2>3. CASE n # index
    <3>1. data'[n] = moved[n]
      BY <1>3, <1>4, <2>1, <2>3
    <3>2. moved[n] \in Value
      BY <1>1, <1>2, <2>1, <2>3
    <3> QED BY <3>1, <3>2
  <2> QED BY <2>2, <2>3
<1>6. data' \in [0 .. size - 1 -> Value \cup {UNDEF}]
  BY <1>3, <1>4
<1>7. length' - 1 = length
  BY <1>1, <1>4
<1> QED BY <1>4, <1>5, <1>6, <1>7

(* Between two calls nothing is being sorted. *)
LEMMA NotSorting ==
  ASSUME Idle, UNCHANGED sorting
  PROVE  ~Sorting /\ ~Sorting' /\ ~Parting' /\ pending' = <<>>
BY DEF Idle, sorting, Sorting, Parting

(* When nothing is being sorted, what an invariant says of the sort is     *)
(* vacuous.                                                                *)
LEMMA QuietSort ==
  ASSUME ~Sorting'
  PROVE  SortingExists' /\ RangesInOrder' /\ Parted' /\ OrderedOutside'
<1>1. pending' = <<>> /\ ~Parting'
  BY DEF Sorting
<1>2. DOMAIN pending' = {}
  BY <1>1
<1> QED BY <1>1, <1>2
        DEF SortingExists, RangesInOrder, Parted, OrderedOutside, Sorting

-----------------------------------------------------------------------------
LEMMA InitIInv == ASSUME Parameters, Init PROVE IInv
<1>1. TypeOK /\ Bounded
  BY DEF Parameters, Init, TypeOK, Undefined, NotParting, Bounded
<1>2. Initialised
  BY DEF Init, Initialised
<1>3. pending = <<>> /\ part = NotParting
  BY DEF Init
<1>4. SortingExists /\ RangesInOrder /\ Parted /\ OrderedOutside
  BY <1>3 DEF SortingExists, RangesInOrder, Parted, OrderedOutside, Sorting, Parting
<1> QED BY <1>1, <1>2, <1>4 DEF IInv, WellFormed

LEMMA NewKeeps ==
  ASSUME Parameters, IInv, NEW hint \in 0 .. MaxAlloced, New(hint), ~Sorting
  PROVE  IInv'
<1>1. SizeFor(hint) \in 1 .. MaxAlloced
  BY DEF Parameters, SizeFor
<1>2. TypeOK' /\ Bounded' /\ Initialised'
  BY <1>1 DEF Parameters, IInv, TypeOK, Bounded, Initialised, New, Undefined,
              sorting
<1>3. ~Sorting'
  BY DEF New, Sorting, Parting, sorting
<1> QED BY <1>2, <1>3, QuietSort DEF IInv, WellFormed

LEMMA FreeKeeps == ASSUME Parameters, IInv, Free PROVE IInv'
<1>1. TypeOK' /\ Bounded' /\ Initialised'
  BY DEF Parameters, IInv, TypeOK, Bounded, Initialised, Free, Undefined, sorting
<1> QED BY <1>1, NotSorting, QuietSort DEF Free, IInv, WellFormed

LEMMA InsertKeeps ==
  ASSUME Parameters, IInv, NEW index \in 0 .. MaxAlloced, NEW v \in Value,
         Insert(index, v)
  PROVE  IInv'
<1>1. /\ alloced \in Nat /\ length \in Nat /\ alloced <= MaxAlloced
      /\ length <= alloced /\ alloced # 0 /\ index \in Nat /\ index <= length
      /\ TypeOK /\ Initialised
  BY DEF Parameters, IInv, TypeOK, Bounded, WellFormed, Initialised, Insert, Idle
<1>2. ~Sorting'
  BY NotSorting DEF Insert
<1>3. CASE ~Full /\ Place(data, index, v) /\ UNCHANGED alloced
  <2>1. length < alloced
    BY <1>1, <1>3 DEF Full
  <2>2. data \in [0 .. alloced - 1 -> Value \cup {UNDEF}]
    BY <1>1 DEF TypeOK
  <2>3. /\ data' \in [0 .. alloced - 1 -> Value \cup {UNDEF}]
        /\ length' = length + 1
        /\ \A n \in 0 .. length' - 1 : data'[n] \in Value
        /\ result' = 1
    BY <1>1, <1>3, <2>1, <2>2, PlaceKeeps
  <2>4. TypeOK' /\ Bounded' /\ Initialised'
    BY <1>1, <1>3, <2>1, <2>3 DEF TypeOK, Bounded, Initialised, Insert, sorting
  <2> QED BY <1>2, <2>4, QuietSort DEF IInv, WellFormed
<1>4. CASE /\ Full
           /\ Doubled <= MaxAlloced
           /\ Place(Grown(Doubled), index, v)
           /\ alloced' = Doubled
  <2>1. Doubled = 2 * alloced
    BY <1>1 DEF Doubled, Parameters
  <2>2. Doubled \in Nat /\ length < Doubled /\ alloced < Doubled
    BY <1>1, <2>1
  <2>3. Grown(Doubled) \in [0 .. Doubled - 1 -> Value \cup {UNDEF}]
    BY <1>1, <2>2 DEF TypeOK, Grown
  <2>4. \A n \in 0 .. length - 1 : Grown(Doubled)[n] = data[n]
    BY <1>1, <2>2 DEF Grown
  <2>5. /\ data' \in [0 .. Doubled - 1 -> Value \cup {UNDEF}]
        /\ length' = length + 1
        /\ \A n \in 0 .. length' - 1 : data'[n] \in Value
        /\ result' = 1
    BY <1>1, <1>4, <2>2, <2>3, <2>4, PlaceKeeps
  <2>6. TypeOK' /\ Bounded' /\ Initialised'
    BY <1>1, <1>4, <2>2, <2>5 DEF TypeOK, Bounded, Initialised, Insert, sorting
  <2> QED BY <1>2, <2>6, QuietSort DEF IInv, WellFormed
<1> QED BY <1>3, <1>4 DEF Insert

LEMMA RemoveRangeKeeps ==
  ASSUME Parameters, IInv, NEW index \in Nat, NEW count \in Nat,
         RemoveRange(index, count)
  PROVE  IInv'
<1>1. /\ alloced \in Nat /\ length \in Nat /\ length <= alloced /\ Word \in Nat
      /\ data \in [0 .. alloced - 1 -> Value \cup {UNDEF}]
      /\ \A n \in 0 .. length - 1 : data[n] \in Value
  BY DEF Parameters, IInv, TypeOK, WellFormed, Initialised
<1>2. ~Sorting' /\ UNCHANGED <<sorting, result>>
  BY NotSorting DEF RemoveRange
<1>3. CASE Outside(index, count)
  <2>1. UNCHANGED memory
    BY <1>3 DEF RemoveRange
  <2>2. TypeOK' /\ Bounded' /\ Initialised'
    BY <1>2, <2>1 DEF IInv, WellFormed, TypeOK, Bounded, Initialised, memory,
                      sorting
  <2> QED BY <1>2, <2>2, QuietSort DEF IInv, WellFormed
<1>4. CASE ~Outside(index, count)
  <2>1. index + count < Word /\ index <= length
    BY <1>1, <1>4 DEF RemoveRange, Outside
  <2>2. After(index, count) = index + count
    BY <1>1, <2>1 DEF After
  <2>3. index + count <= length
    BY <1>1, <1>4, <2>2 DEF Outside
  <2>4. /\ data' = MemMove(data, index, index + count, length - (index + count))
        /\ length' = length - count
        /\ alloced' = alloced
    BY <1>4, <2>2 DEF RemoveRange
  <2>5. ASSUME NEW n \in 0 .. alloced - 1
        PROVE  data'[n] = IF index <= n /\ n < length - count
                          THEN data[n + count] ELSE data[n]
    <3>1. /\ n - index + (index + count) = n + count
          /\ index + (length - (index + count)) = length - count
      BY <1>1
    <3> QED BY <1>1, <2>4, <3>1 DEF MemMove
  <2>6. length' \in Nat /\ length' <= alloced
    BY <1>1, <2>3, <2>4
  <2>7. ASSUME NEW n \in 0 .. length' - 1 PROVE data'[n] \in Value
    <3>1. n \in 0 .. alloced - 1 /\ n \in 0 .. length - 1 /\ n + count \in 0 .. length - 1
      BY <1>1, <2>4, <2>6
    <3> QED BY <1>1, <2>5, <3>1
  <2>8. data' \in [0 .. alloced - 1 -> Value \cup {UNDEF}]
    <3>1. data' = [n \in 0 .. alloced - 1 |-> data'[n]]
      BY <1>1, <2>4 DEF MemMove
    <3>2. ASSUME NEW n \in 0 .. alloced - 1 PROVE data'[n] \in Value \cup {UNDEF}
      <4>1. CASE index <= n /\ n < length - count
        <5>1. n + count \in 0 .. alloced - 1
          BY <1>1, <4>1
        <5> QED BY <1>1, <2>5, <4>1, <5>1
      <4>2. CASE ~(index <= n /\ n < length - count)
        BY <1>1, <2>5, <4>2
      <4> QED BY <4>1, <4>2
    <3> QED BY <3>1, <3>2
  <2>9. TypeOK' /\ Bounded' /\ Initialised'
    BY <1>2, <2>4, <2>6, <2>7, <2>8
       DEF IInv, TypeOK, Bounded, Initialised, sorting
  <2> QED BY <1>2, <2>9, QuietSort DEF IInv, WellFormed
<1> QED BY <1>3, <1>4

-----------------------------------------------------------------------------
LEMMA ClearKeeps == ASSUME Parameters, IInv, Clear PROVE IInv'
<1>1. TypeOK' /\ Bounded' /\ Initialised'
  BY DEF Parameters, IInv, WellFormed, TypeOK, Bounded, Initialised, Clear, sorting
<1> QED BY <1>1, NotSorting, QuietSort DEF Clear, IInv, WellFormed

LEMMA InsertFailsKeeps ==
  ASSUME IInv, NEW index \in Nat, InsertFails(index) PROVE IInv'
<1>1. TypeOK' /\ Bounded' /\ Initialised'
  BY DEF IInv, WellFormed, TypeOK, Bounded, Initialised, InsertFails, memory,
         sorting
<1> QED BY <1>1, NotSorting, QuietSort DEF InsertFails, IInv, WellFormed

LEMMA SortKeeps == ASSUME IInv, Sort PROVE IInv'
<1> DEFINE whole == [lo |-> 0, size |-> length]
<1>1. /\ length \in Nat /\ length <= alloced
      /\ \A n \in 0 .. length - 1 : data[n] \in Value
      /\ UNCHANGED <<data, alloced, length, part, result>>
      /\ pending' = <<whole>> /\ unsorted' = Stored
  BY DEF IInv, TypeOK, WellFormed, Initialised, Sort, memory
<1>2. ~Parting'
  BY DEF Sort, Idle, Sorting, Parting, NotParting
<1>3. whole \in SubArray /\ whole.lo = 0 /\ EndOf(whole) = length
  BY <1>1 DEF SubArray, EndOf
<1>4. Stored \in Seq(Value)
  <2>1. \A n \in 1 .. length : data[n - 1] \in Value
    BY <1>1
  <2> QED BY <1>1, <2>1 DEF Stored
<1>5. TypeOK' /\ Bounded' /\ Initialised'
  BY <1>1, <1>3, <1>4 DEF IInv, WellFormed, TypeOK, Bounded, Initialised
<1> HIDE DEF whole
<1>6. DOMAIN pending' = {1} /\ pending'[1] = whole
  BY <1>1
<1>7. RangesInOrder' /\ Parted'
  BY <1>1, <1>2, <1>3, <1>6 DEF RangesInOrder, Parted, EndOf
<1>8. OrderedOutside'
  <2>1. \A m \in 0 .. length' - 1 : Covers(pending'[1], m)
    BY <1>1, <1>3, <1>6 DEF Covers
  <2> QED BY <1>6, <2>1 DEF OrderedOutside, InOneRange, Covers, EndOf
<1>9. SortingExists'
  BY <1>1 DEF SortingExists, Sort, Idle
<1> QED BY <1>5, <1>7, <1>8, <1>9 DEF IInv, WellFormed

(* A call of arraylist_sort_internal takes the first range that waits.     *)
LEMMA CallKeeps == ASSUME IInv, Call PROVE IInv'
<1> DEFINE range == pending[1]
<1>1. /\ pending \in Seq(SubArray) /\ pending # <<>> /\ length \in Nat
      /\ ~Parting /\ Sorting /\ pending' = Tail(pending)
      /\ UNCHANGED <<data, alloced, length, result>>
  BY DEF IInv, TypeOK, Call, Sorting, memory
<1>2. /\ pending' \in Seq(SubArray)
      /\ Len(pending) \in Nat \ {0}
      /\ Len(pending') = Len(pending) - 1
      /\ Head(pending) = range /\ range \in SubArray
      /\ \A k \in 1 .. Len(pending) - 1 : pending'[k] = pending[k + 1]
  BY <1>1, PopOne
<1>3. /\ range.lo \in Nat /\ range.size \in Nat
      /\ DOMAIN pending = 1 .. Len(pending)
      /\ DOMAIN pending' = 1 .. Len(pending')
  BY <1>1, <1>2, LenProperties DEF SubArray
<1> HIDE DEF range
<1>4. ASSUME NEW k \in 1 .. Len(pending)
      PROVE  pending[k].lo \in Nat /\ pending[k].size \in Nat
  <2>1. pending[k] \in SubArray
    BY <1>1, ElementOfSeq
  <2> QED BY <2>1 DEF SubArray
<1>5. /\ \A k \in DOMAIN pending : EndOf(pending[k]) <= length
      /\ \A j, k \in DOMAIN pending : j < k => EndOf(pending[j]) <= pending[k].lo
  BY DEF IInv, WellFormed, RangesInOrder
<1>6. \A k \in DOMAIN pending' : k + 1 \in DOMAIN pending /\ pending'[k] = pending[k + 1]
  BY <1>2, <1>3
<1>7. /\ \A k \in DOMAIN pending' : EndOf(pending'[k]) <= length'
      /\ \A j, k \in DOMAIN pending' : j < k => EndOf(pending'[j]) <= pending'[k].lo
  <2>1. \A k \in DOMAIN pending' : EndOf(pending[k + 1]) <= length
    BY <1>5, <1>6
  <2>2. ASSUME NEW j \in DOMAIN pending', NEW k \in DOMAIN pending', j < k
        PROVE  EndOf(pending[j + 1]) <= pending[k + 1].lo
    <3>1. j + 1 < k + 1 /\ j + 1 \in DOMAIN pending /\ k + 1 \in DOMAIN pending
      BY <1>3, <1>6, <2>2
    <3> QED BY <1>5, <3>1
  <2> QED BY <1>1, <1>6, <2>1, <2>2 DEF EndOf
<1>8. ASSUME NEW m \in 0 .. length - 1, NEW n \in 0 .. length - 1,
             m < n, Less(data[n], data[m])
      PROVE  \/ Covers(range, m) /\ Covers(range, n)
             \/ \E k \in DOMAIN pending' :
                  Covers(pending'[k], m) /\ Covers(pending'[k], n)
  <2>1. PICK k \in DOMAIN pending : Covers(pending[k], m) /\ Covers(pending[k], n)
    BY <1>1, <1>8 DEF IInv, WellFormed, OrderedOutside, InOneRange
  <2>2. CASE k = 1
    BY <2>1, <2>2 DEF range
  <2>3. CASE k # 1
    <3>1. k - 1 \in DOMAIN pending' /\ (k - 1) + 1 = k
      BY <1>2, <1>3, <2>3
    <3>2. pending'[k - 1] = pending[k]
      BY <1>6, <3>1
    <3> QED BY <2>1, <3>1, <3>2
  <2> QED BY <2>2, <2>3
<1>9. SortingExists'
  BY <1>1 DEF IInv, SortingExists
<1>10. CASE range.size <= 1
  <2>1. part' = part /\ unsorted' \in {unsorted, <<>>} /\ ~Parting'
    BY <1>1, <1>2, <1>10 DEF Call, Return, Parting, NotParting
  <2>2. TypeOK' /\ Bounded' /\ Initialised'
    <3>1. unsorted' \in Seq(Value)
      <4>1. <<>> \in Seq(Value) /\ unsorted \in Seq(Value)
        BY EmptySeq DEF IInv, TypeOK
      <4> QED BY <2>1, <4>1
    <3>2. part' \in [lo : Nat, size : Nat, i : Nat, less : Nat]
      BY <2>1 DEF IInv, TypeOK
    <3>3. pending' \in Seq(SubArray)
      BY <1>2
    <3>4. data' = data /\ alloced' = alloced /\ length' = length /\ result' = result
      BY <1>1
    <3>5. TypeOK'
      BY <3>1, <3>2, <3>3, <3>4 DEF IInv, TypeOK
    <3> QED BY <3>4, <3>5 DEF IInv, WellFormed, Bounded, Initialised
  <2>3. RangesInOrder' /\ Parted'
    BY <1>7, <2>1 DEF RangesInOrder, Parted
  <2>4. ASSUME NEW m \in 0 .. length - 1, NEW n \in 0 .. length - 1, m < n
        PROVE  ~(Covers(range, m) /\ Covers(range, n))
    BY <1>1, <1>3, <1>10, <2>4 DEF Covers, EndOf
  <2>5. OrderedOutside'
    <3> SUFFICES ASSUME NEW m \in 0 .. length - 1, NEW n \in 0 .. length - 1,
                        m < n, Less(data[n], data[m])
                 PROVE  \E k \in DOMAIN pending' :
                          Covers(pending'[k], m) /\ Covers(pending'[k], n)
      BY <1>1 DEF OrderedOutside, InOneRange, Less, Covers, EndOf
    <3> QED BY <1>8, <2>4
  <2> QED BY <1>9, <2>2, <2>3, <2>5 DEF IInv, WellFormed
<1>11. CASE ~(range.size <= 1)
  <2>1. /\ part' = [lo |-> range.lo, size |-> range.size, i |-> 0, less |-> 0]
        /\ unsorted' = unsorted
    BY <1>2, <1>11 DEF Call, Enter
  <2>2. /\ part'.lo = range.lo /\ part'.size = range.size
        /\ part'.i = 0 /\ part'.less = 0
        /\ part' \in [lo : Nat, size : Nat, i : Nat, less : Nat]
    BY <1>3, <2>1
  <2>3. Parting'
    BY <1>3, <1>11, <2>1 DEF Parting, NotParting
  <2>4. TypeOK' /\ Bounded' /\ Initialised'
    BY <1>1, <1>2, <2>1, <2>2 DEF IInv, WellFormed, TypeOK, Bounded, Initialised
  <2>5. EndOf(range) <= length
    BY <1>2, <1>3, <1>5 DEF range
  <2>6. \A k \in DOMAIN pending' : EndOf(range) <= pending'[k].lo
    <3> SUFFICES ASSUME NEW k \in DOMAIN pending'
                 PROVE  EndOf(range) <= pending[k + 1].lo
      BY <1>6
    <3>1. 1 \in DOMAIN pending /\ k + 1 \in DOMAIN pending /\ 1 < k + 1
      BY <1>2, <1>3, <1>6
    <3> QED BY <1>5, <3>1 DEF range
  <2>7. RangesInOrder'
    BY <1>1, <1>3, <1>7, <1>11, <2>2, <2>5, <2>6 DEF RangesInOrder, EndOf
  <2>8. Parted'
    BY <2>2 DEF Parted
  <2>9. OrderedOutside'
    <3> SUFFICES ASSUME NEW m \in 0 .. length - 1, NEW n \in 0 .. length - 1,
                        m < n, Less(data[n], data[m])
                 PROVE  InOneRange(m, n)'
      BY <1>1 DEF OrderedOutside, Less, InOneRange, Covers, EndOf
    <3>1. CASE Covers(range, m) /\ Covers(range, n)
      BY <2>2, <2>3, <3>1 DEF InOneRange, Covers, EndOf
    <3>2. CASE \E k \in DOMAIN pending' :
                 Covers(pending'[k], m) /\ Covers(pending'[k], n)
      BY <3>2 DEF InOneRange, Covers, EndOf
    <3> QED BY <1>8, <3>1, <3>2
  <2> QED BY <1>9, <2>4, <2>7, <2>8, <2>9 DEF IInv, WellFormed
<1> QED BY <1>10, <1>11

-----------------------------------------------------------------------------
(* Positions in and around a range. *)
LEMMA Positions ==
  ASSUME NEW lo \in Nat, NEW size \in Nat, NEW m \in Nat, NEW n \in Nat,
         NEW x \in Nat, m < n, lo <= x, x < lo + size
  PROVE  /\ ~(lo <= m /\ m < lo + size) /\ lo <= n /\ n < lo + size => m < x
         /\ lo <= m /\ m < lo + size /\ ~(lo <= n /\ n < lo + size) => x < n
OBVIOUS

(* When a step only rearranges the slots of the range being parted, two    *)
(* values it leaves out of order are both in that range, or both in one    *)
(* that waits.                                                             *)
LEMMA ConfinedToPart ==
  ASSUME IInv, Parting, UNCHANGED length,
         \A n \in 0 .. length - 1 : Covers(part, n) =>
           \E x \in 0 .. length - 1 : Covers(part, x) /\ data'[n] = data[x],
         \A n \in 0 .. length - 1 : ~Covers(part, n) => data'[n] = data[n],
         NEW m \in 0 .. length - 1, NEW n \in 0 .. length - 1,
         m < n, Less(data'[n], data'[m]),
         ~(Covers(part, m) /\ Covers(part, n))
  PROVE  \E k \in DOMAIN pending : Covers(pending[k], m) /\ Covers(pending[k], n)
<1>1. /\ length \in Nat /\ part.lo \in Nat /\ part.size \in Nat
      /\ pending \in Seq(SubArray)
  BY DEF IInv, TypeOK
<1>2. /\ \A k \in DOMAIN pending : EndOf(part) <= pending[k].lo
      /\ \A x, y \in 0 .. length - 1 :
           x < y /\ Less(data[y], data[x]) => InOneRange(x, y)
  BY DEF IInv, WellFormed, RangesInOrder, OrderedOutside, Sorting
<1>3. \A k \in DOMAIN pending : pending[k].lo \in Nat /\ pending[k].size \in Nat
  <2> SUFFICES ASSUME NEW k \in DOMAIN pending PROVE pending[k] \in SubArray
    BY DEF SubArray
  <2>1. k \in 1 .. Len(pending)
    BY <1>1, LenProperties
  <2> QED BY <1>1, <2>1, ElementOfSeq
<1>4. \A k \in DOMAIN pending, x \in 0 .. length - 1 :
        Covers(part, x) => ~Covers(pending[k], x)
  <2> SUFFICES ASSUME NEW k \in DOMAIN pending, NEW x \in 0 .. length - 1,
                      Covers(part, x), Covers(pending[k], x)
               PROVE  FALSE
    OBVIOUS
  <2>1. part.lo + part.size <= pending[k].lo
    BY <1>2 DEF EndOf
  <2>2. x < part.lo + part.size /\ pending[k].lo <= x
    BY DEF Covers, EndOf
  <2>3. pending[k].lo \in Nat
    BY <1>3
  <2>4. x \in Nat
    BY <1>1
  <2>5. part.lo \in Nat /\ part.size \in Nat
    BY <1>1
  <2> QED BY <2>1, <2>2, <2>3, <2>4, <2>5
<1>5. CASE ~Covers(part, m) /\ ~Covers(part, n)
  <2>1. Less(data[n], data[m])
    BY <1>5
  <2>2. InOneRange(m, n)
    BY <1>2, <2>1
  <2> QED BY <1>5, <2>2 DEF InOneRange
<1>6. CASE ~Covers(part, m) /\ Covers(part, n)
  <2>1. PICK x \in 0 .. length - 1 : Covers(part, x) /\ data'[n] = data[x]
    BY <1>6
  <2>2. m < x
    <3>1. m \in Nat /\ n \in Nat /\ x \in Nat
      BY <1>1
    <3>2. part.lo <= x /\ x < part.lo + part.size
      BY <2>1 DEF Covers, EndOf
    <3>3. ~(part.lo <= m /\ m < part.lo + part.size) /\ part.lo <= n /\ n < part.lo + part.size
      BY <1>6 DEF Covers, EndOf
    <3> QED BY <1>1, <3>1, <3>2, <3>3, Positions
  <2>3. data'[m] = data[m]
    BY <1>6
  <2>4. Less(data[x], data[m])
    BY <2>1, <2>3 DEF Less
  <2>5. InOneRange(m, x)
    BY <1>2, <2>2, <2>4
  <2> QED BY <1>4, <1>6, <2>1, <2>5 DEF InOneRange
<1>7. CASE Covers(part, m) /\ ~Covers(part, n)
  <2>1. PICK x \in 0 .. length - 1 : Covers(part, x) /\ data'[m] = data[x]
    BY <1>7
  <2>2. x < n
    <3>1. m \in Nat /\ n \in Nat /\ x \in Nat
      BY <1>1
    <3>2. part.lo <= x /\ x < part.lo + part.size
      BY <2>1 DEF Covers, EndOf
    <3>3. part.lo <= m /\ m < part.lo + part.size /\ ~(part.lo <= n /\ n < part.lo + part.size)
      BY <1>7 DEF Covers, EndOf
    <3> QED BY <1>1, <3>1, <3>2, <3>3, Positions
  <2>3. data'[n] = data[n]
    BY <1>7
  <2>4. Less(data[n], data[x])
    BY <2>1, <2>3 DEF Less
  <2>5. InOneRange(x, n)
    BY <1>2, <2>2, <2>4
  <2> QED BY <1>4, <1>7, <2>1, <2>5 DEF InOneRange
<1> QED BY <1>5, <1>6, <1>7

(* What both steps that move values know, and what a swap within the range *)
(* being parted keeps.                                                     *)
LEMMA PartFacts ==
  ASSUME IInv, Parting
  PROVE  /\ alloced \in Nat /\ length \in Nat /\ length <= alloced
         /\ data \in [0 .. alloced - 1 -> Value \cup {UNDEF}]
         /\ \A n \in 0 .. length - 1 : data[n] \in Value
         /\ part.lo \in Nat /\ part.size \in Nat
         /\ part.i \in Nat /\ part.less \in Nat
         /\ EndOf(part) = part.lo + part.size
         /\ EndOf(part) <= length
         /\ part.less <= part.i /\ part.i < part.size
BY DEF IInv, TypeOK, WellFormed, Initialised, RangesInOrder, EndOf

LEMMA SwapKeeps ==
  ASSUME IInv, Parting, NEW x \in 0 .. length - 1, NEW y \in 0 .. length - 1,
         Covers(part, x), Covers(part, y), data' = Swap(data, x, y),
         UNCHANGED <<alloced, length>>
  PROVE  /\ data' \in [0 .. alloced - 1 -> Value \cup {UNDEF}]
         /\ Bounded' /\ Initialised'
         /\ data'[x] = data[y] /\ data'[y] = data[x]
         /\ \A n \in 0 .. length - 1 : n # x /\ n # y => data'[n] = data[n]
         /\ \A n \in 0 .. length - 1 : Covers(part, n) =>
              \E z \in 0 .. length - 1 : Covers(part, z) /\ data'[n] = data[z]
         /\ \A n \in 0 .. length - 1 : ~Covers(part, n) => data'[n] = data[n]
<1>1. /\ alloced \in Nat /\ length \in Nat /\ length <= alloced
      /\ data \in [0 .. alloced - 1 -> Value \cup {UNDEF}]
      /\ \A n \in 0 .. length - 1 : data[n] \in Value
  BY PartFacts
<1>2. \A n \in 0 .. length - 1 : n \in 0 .. alloced - 1
  BY <1>1
<1>3. x \in 0 .. alloced - 1 /\ y \in 0 .. alloced - 1
  BY <1>2
<1>4. data' \in [0 .. alloced - 1 -> Value \cup {UNDEF}]
  BY <1>1, <1>3 DEF Swap
<1>5. data'[x] = data[y] /\ data'[y] = data[x]
  BY <1>1, <1>3 DEF Swap
<1>6. \A n \in 0 .. length - 1 : n # x /\ n # y => data'[n] = data[n]
  BY <1>1, <1>2, <1>3 DEF Swap
<1>7. \A n \in 0 .. length - 1 : data'[n] \in Value
  BY <1>1, <1>5, <1>6
<1>8. Bounded' /\ Initialised'
  BY <1>1, <1>7 DEF IInv, Bounded, Initialised
<1>9. ASSUME NEW n \in 0 .. length - 1, Covers(part, n)
      PROVE  \E z \in 0 .. length - 1 : Covers(part, z) /\ data'[n] = data[z]
  <2>1. CASE n = x
    BY <1>5, <2>1
  <2>2. CASE n = y
    BY <1>5, <2>2
  <2>3. CASE n # x /\ n # y
    BY <1>6, <1>9, <2>3
  <2> QED BY <2>1, <2>2, <2>3
<1>10. \A n \in 0 .. length - 1 : ~Covers(part, n) => data'[n] = data[n]
  BY <1>6
<1> QED BY <1>4, <1>5, <1>6, <1>8, <1>9, <1>10

(* The slots that a turn compares and swaps. *)
LEMMA TurnSlots ==
  ASSUME NEW lo \in Nat, NEW size \in Nat, NEW i \in Nat, NEW less \in Nat,
         NEW len \in Nat, lo + size <= len, less <= i, i + 1 < size
  PROVE  /\ lo + i \in 0 .. len - 1
         /\ lo + less \in 0 .. len - 1
         /\ lo + size - 1 \in 0 .. len - 1
         /\ lo + less <= lo + i /\ lo + i < lo + size - 1
         /\ \A n \in 0 .. i : lo + n \in 0 .. len - 1
         /\ \A n \in 0 .. i : n # i => lo + n # lo + i
         /\ \A n \in 0 .. i : n # less => lo + n # lo + less
OBVIOUS

(* What part' and Pivot' are after a turn. *)
LEMMA TurnPart ==
  ASSUME IInv, Turn
  PROVE  /\ Parting /\ Parting'
         /\ part.i + 1 < part.size
         /\ part'.lo = part.lo /\ part'.size = part.size
         /\ part'.i = part.i + 1
         /\ part' \in [lo : Nat, size : Nat, i : Nat, less : Nat]
         /\ UNCHANGED <<alloced, length, pending, unsorted, result>>
<1>1. part \in [lo : Nat, size : Nat, i : Nat, less : Nat]
  BY DEF IInv, TypeOK
<1>2. part.i + 1 < part.size
  BY <1>1 DEF Turn
<1>3. \/ part' = [part EXCEPT !.i = @ + 1, !.less = @ + 1]
      \/ part' = [part EXCEPT !.i = @ + 1]
  BY DEF Turn
<1>4. /\ part'.lo = part.lo /\ part'.size = part.size /\ part'.i = part.i + 1
      /\ part' \in [lo : Nat, size : Nat, i : Nat, less : Nat]
  <2>1. CASE part' = [part EXCEPT !.i = @ + 1, !.less = @ + 1]
    <3>1. part' = [lo |-> part.lo, size |-> part.size, i |-> part.i + 1,
                   less |-> part.less + 1]
      BY <1>1, <2>1
    <3> QED BY <1>1, <3>1
  <2>2. CASE part' = [part EXCEPT !.i = @ + 1]
    BY <1>1, <2>2
  <2> QED BY <1>3, <2>1, <2>2
<1>5. part'.size # 0
  BY <1>1, <1>2, <1>4
<1>6. Parting'
  BY <1>5 DEF Parting, NotParting
<1> QED BY <1>2, <1>4, <1>6 DEF Turn

LEMMA TurnKeeps == ASSUME IInv, Turn PROVE IInv'
<1> DEFINE x == part.lo + part.i
           y == part.lo + part.less
           e == part.lo + part.size - 1
<1>1. /\ alloced \in Nat /\ length \in Nat /\ length <= alloced
      /\ data \in [0 .. alloced - 1 -> Value \cup {UNDEF}]
      /\ part.lo \in Nat /\ part.size \in Nat
      /\ part.i \in Nat /\ part.less \in Nat
      /\ EndOf(part) = part.lo + part.size
      /\ EndOf(part) <= length
      /\ part.less <= part.i /\ part.i < part.size
  BY PartFacts, TurnPart
<1>2. /\ Parting /\ Parting'
      /\ part.i + 1 < part.size
      /\ part'.lo = part.lo /\ part'.size = part.size
      /\ part'.i = part.i + 1
      /\ part' \in [lo : Nat, size : Nat, i : Nat, less : Nat]
      /\ UNCHANGED <<alloced, length, pending, unsorted, result>>
  BY TurnPart
<1>3. /\ x \in 0 .. length - 1 /\ y \in 0 .. length - 1 /\ e \in 0 .. length - 1
      /\ y <= x /\ x < e
      /\ \A n \in 0 .. part.i : part.lo + n \in 0 .. length - 1
      /\ \A n \in 0 .. part.i : n # part.i => part.lo + n # x
      /\ \A n \in 0 .. part.i : n # part.less => part.lo + n # y
  <2>1. part.lo + part.size <= length
    BY <1>1
  <2> DEFINE lo == part.lo
             size == part.size
             i == part.i
             less == part.less
  <2>2. /\ lo \in Nat /\ size \in Nat /\ i \in Nat /\ less \in Nat
        /\ length \in Nat /\ lo + size <= length /\ less <= i /\ i + 1 < size
    BY <1>1, <1>2, <2>1
  <2> HIDE DEF lo, size, i, less
  <2>3. /\ lo + i \in 0 .. length - 1
        /\ lo + less \in 0 .. length - 1
        /\ lo + size - 1 \in 0 .. length - 1
        /\ lo + less <= lo + i /\ lo + i < lo + size - 1
        /\ \A n \in 0 .. i : lo + n \in 0 .. length - 1
        /\ \A n \in 0 .. i : n # i => lo + n # lo + i
        /\ \A n \in 0 .. i : n # less => lo + n # lo + less
    BY <2>2, TurnSlots
  <2> QED BY <2>3 DEF lo, size, i, less
<1>4. Covers(part, x) /\ Covers(part, y)
  BY <1>1, <1>2, SMTT(20) DEF Covers
<1>5. Pivot = data[e] /\ Pivot' = data'[e]
  BY <1>1, <1>2 DEF Pivot, EndOf
<1>6. /\ \A n \in 0 .. part.less - 1 : Less(data[part.lo + n], data[e])
      /\ \A n \in part.less .. part.i - 1 : ~Less(data[part.lo + n], data[e])
  BY <1>2, <1>5 DEF IInv, WellFormed, Parted
<1>7. SortingExists'
  BY <1>2 DEF IInv, SortingExists, Sorting
<1>8. CASE Less(data[x], Pivot)
  <2>1. /\ data' = Swap(data, x, y)
        /\ part' = [part EXCEPT !.i = @ + 1, !.less = @ + 1]
    BY <1>8 DEF Turn
  <2>2. part'.less = part.less + 1
    BY <1>2, <2>1 DEF IInv, TypeOK
  <2>3. UNCHANGED <<alloced, length>>
    BY <1>2
  <2>4. /\ data' \in [0 .. alloced - 1 -> Value \cup {UNDEF}]
        /\ Bounded' /\ Initialised'
        /\ data'[x] = data[y] /\ data'[y] = data[x]
        /\ \A n \in 0 .. length - 1 : n # x /\ n # y => data'[n] = data[n]
        /\ \A n \in 0 .. length - 1 : Covers(part, n) =>
             \E z \in 0 .. length - 1 : Covers(part, z) /\ data'[n] = data[z]
        /\ \A n \in 0 .. length - 1 : ~Covers(part, n) => data'[n] = data[n]
    <3> HIDE DEF x, y
    <3> QED BY <1>2, <1>3, <1>4, <2>1, <2>3, SwapKeeps
  <2>5. TypeOK'
    BY <1>2, <2>4 DEF IInv, TypeOK
  <2>6. RangesInOrder'
    BY <1>1, <1>2, <2>2 DEF IInv, WellFormed, RangesInOrder, EndOf
  <2>7. data'[e] = data[e]
    BY <1>3, <2>4, SMTT(20)
  <2>8. Parted'
    <3>1. ASSUME NEW n \in 0 .. part.less
          PROVE  Less(data'[part.lo + n], data[e])
      <4>1. CASE n = part.less
        BY <1>5, <1>8, <2>4, <4>1
      <4>2. CASE n # part.less
        <5>0. n \in 0 .. part.less - 1 /\ n \in 0 .. part.i /\ n # part.i
          BY <1>1, <4>2
        <5>1. /\ n \in 0 .. part.less - 1 /\ part.lo + n \in 0 .. length - 1
              /\ part.lo + n # x /\ part.lo + n # y
          BY <1>3, <4>2, <5>0
        <5>2. data'[part.lo + n] = data[part.lo + n]
          BY <2>4, <5>1
        <5> QED BY <1>6, <5>1, <5>2
      <4> QED BY <4>1, <4>2
    <3>2. ASSUME NEW n \in part.less + 1 .. part.i
          PROVE  ~Less(data'[part.lo + n], data[e])
      <4>1. CASE n = part.i
        <5>1. part.less \in part.less .. part.i - 1
          BY <1>1, <4>1
        <5>2. ~Less(data[y], data[e])
          BY <1>6, <5>1
        <5> QED BY <2>4, <4>1, <5>2
      <4>2. CASE n # part.i
        <5>0. n \in part.less .. part.i - 1 /\ n \in 0 .. part.i /\ n # part.less
          BY <1>1, <4>2
        <5>1. /\ n \in part.less .. part.i - 1 /\ part.lo + n \in 0 .. length - 1
              /\ part.lo + n # x /\ part.lo + n # y
          BY <1>3, <4>2, <5>0
        <5>2. data'[part.lo + n] = data[part.lo + n]
          BY <2>4, <5>1
        <5> QED BY <1>6, <5>1, <5>2
      <4> QED BY <4>1, <4>2
    <3>3. (part.less + 1) - 1 = part.less /\ (part.i + 1) - 1 = part.i
      BY <1>1
    <3> HIDE DEF e
    <3>4. Pivot' = data[e]
      BY <1>5, <2>7
    <3> QED BY <1>2, <2>2, <3>1, <3>2, <3>3, <3>4 DEF Parted, Less
  <2>9. OrderedOutside'
    <3> SUFFICES ASSUME NEW m \in 0 .. length - 1, NEW n \in 0 .. length - 1,
                        m < n, Less(data'[n], data'[m])
                 PROVE  InOneRange(m, n)'
      BY <1>2 DEF OrderedOutside, Less, InOneRange, Covers, EndOf
    <3>1. CASE Covers(part, m) /\ Covers(part, n)
      BY <1>2, <3>1 DEF InOneRange, Covers, EndOf
    <3>2. CASE ~(Covers(part, m) /\ Covers(part, n))
      <4>1. \E k \in DOMAIN pending : Covers(pending[k], m) /\ Covers(pending[k], n)
        BY <1>2, <2>3, <2>4, <3>2, ConfinedToPart
      <4> QED BY <1>2, <4>1 DEF InOneRange, Covers, EndOf
    <3> QED BY <3>1, <3>2
  <2> QED BY <1>7, <2>4, <2>5, <2>6, <2>8, <2>9 DEF IInv, WellFormed
<1>9. CASE ~Less(data[x], Pivot)
  <2>1. data' = data /\ part' = [part EXCEPT !.i = @ + 1]
    BY <1>9 DEF Turn
  <2>2. part'.less = part.less
    BY <2>1 DEF IInv, TypeOK
  <2>3. TypeOK' /\ Bounded' /\ Initialised'
    BY <1>2, <2>1 DEF IInv, WellFormed, TypeOK, Bounded, Initialised
  <2>4. RangesInOrder'
    BY <1>1, <1>2, <2>2 DEF IInv, WellFormed, RangesInOrder, EndOf
  <2>5. Parted'
    <3>1. ASSUME NEW n \in part.less .. part.i
          PROVE  ~Less(data[part.lo + n], data[e])
      <4>1. CASE n = part.i
        BY <1>5, <1>9, <4>1
      <4>2. CASE n # part.i
        <5>1. n \in part.less .. part.i - 1
          BY <1>1, <4>2
        <5> QED BY <1>6, <5>1
      <4> QED BY <4>1, <4>2
    <3>2. (part.i + 1) - 1 = part.i
      BY <1>1
    <3> HIDE DEF e
    <3>3. Pivot' = data[e]
      BY <1>5, <2>1
    <3> QED BY <1>2, <1>6, <2>1, <2>2, <3>1, <3>2, <3>3 DEF Parted, Less
  <2>6. OrderedOutside'
    <3> SUFFICES ASSUME NEW m \in 0 .. length - 1, NEW n \in 0 .. length - 1,
                        m < n, Less(data[n], data[m])
                 PROVE  InOneRange(m, n)'
      BY <1>2, <2>1 DEF OrderedOutside, Less, InOneRange, Covers, EndOf
    <3>1. InOneRange(m, n)
      BY <1>2 DEF IInv, WellFormed, OrderedOutside, Sorting
    <3> QED BY <1>2, <3>1 DEF InOneRange, Covers, EndOf
  <2> QED BY <1>7, <2>3, <2>4, <2>5, <2>6 DEF IInv, WellFormed
<1> QED BY <1>8, <1>9

-----------------------------------------------------------------------------
(* A position of a parted range is before, at or after its pivot's place.  *)
LEMMA DivideSlots ==
  ASSUME NEW lo \in Nat, NEW size \in Nat, NEW less \in Nat, NEW len \in Nat,
         lo + size <= len, less < size
  PROVE  /\ lo + less \in 0 .. len - 1
         /\ lo + size - 1 \in 0 .. len - 1
         /\ lo <= lo + less /\ lo + less < lo + size
         /\ lo <= lo + size - 1 /\ lo + size - 1 < lo + size
         /\ (lo + less + 1) + (size - less - 1) = lo + size
         /\ lo + less + 1 \in Nat /\ size - less - 1 \in Nat
         /\ \A n \in 0 .. len - 1 : lo <= n /\ n < lo + less =>
              n - lo \in 0 .. less - 1 /\ lo + (n - lo) = n
         /\ \A n \in 0 .. len - 1 : lo + less <= n /\ n < lo + size - 1 =>
              n - lo \in less .. size - 2 /\ lo + (n - lo) = n
OBVIOUS

(* Once the pivot is in its place, the values before it are less than it,  *)
(* the others are not.                                                     *)
LEMMA DivideOrder ==
  ASSUME Parameters, IInv, Divide
  PROVE  LET e == part.lo + part.size - 1
             y == part.lo + part.less
         IN  /\ Parting
             /\ e \in 0 .. length - 1 /\ y \in 0 .. length - 1
             /\ Covers(part, e) /\ Covers(part, y)
             /\ data' = Swap(data, e, y)
             /\ \A n \in 0 .. length - 1 :
                  Covers(part, n) /\ n < y => Less(data'[n], data[e])
             /\ \A n \in 0 .. length - 1 :
                  Covers(part, n) /\ y <= n => ~Less(data'[n], data[e])
<1> DEFINE lo == part.lo
           size == part.size
           less == part.less
           e == lo + size - 1
           y == lo + less
<1>1. /\ Parting /\ part.i = size - 1
      /\ data' = Swap(data, EndOf(part) - 1, y)
      /\ UNCHANGED <<alloced, length>>
  BY DEF Divide
<1>2. /\ length \in Nat /\ lo \in Nat /\ size \in Nat /\ less \in Nat
      /\ EndOf(part) = lo + size /\ EndOf(part) <= length
      /\ less <= part.i /\ part.i \in Nat
  BY <1>1, PartFacts
<1>3. lo + size <= length /\ less < size
  BY <1>1, <1>2
<1>4. /\ \A n \in 0 .. less - 1 : Less(data[lo + n], data[e])
      /\ \A n \in less .. size - 2 : ~Less(data[lo + n], data[e])
  <2>1. Pivot = data[e] /\ part.i - 1 = size - 2
    BY <1>1, <1>2 DEF Pivot
  <2>2. /\ \A n \in 0 .. part.less - 1 : Less(data[part.lo + n], Pivot)
        /\ \A n \in part.less .. part.i - 1 : ~Less(data[part.lo + n], Pivot)
    BY <1>1 DEF IInv, WellFormed, Parted
  <2> QED BY <2>1, <2>2
<1>5. \A n \in 0 .. length - 1 : Covers(part, n) <=> lo <= n /\ n < lo + size
  BY <1>2 DEF Covers
<1>6. data' = Swap(data, e, y)
  BY <1>1, <1>2
<1>7. IInv /\ alloced' = alloced /\ length' = length
  BY <1>1
<1> HIDE DEF lo, size, less
<1>8. /\ y \in 0 .. length - 1 /\ e \in 0 .. length - 1
      /\ lo <= y /\ y < lo + size /\ lo <= e /\ e < lo + size
      /\ \A n \in 0 .. length - 1 : lo <= n /\ n < y =>
           n - lo \in 0 .. less - 1 /\ lo + (n - lo) = n
      /\ \A n \in 0 .. length - 1 : y <= n /\ n < e =>
           n - lo \in less .. size - 2 /\ lo + (n - lo) = n
  BY <1>2, <1>3, DivideSlots
<1>9. Covers(part, e) /\ Covers(part, y)
  BY <1>5, <1>8
<1>10. y <= e /\ y \in Nat /\ e \in Nat /\ lo + size = e + 1
  BY <1>2, <1>8
<1> HIDE DEF e, y
<1>11. /\ data'[e] = data[y] /\ data'[y] = data[e]
       /\ \A n \in 0 .. length - 1 : n # e /\ n # y => data'[n] = data[n]
  BY <1>1, <1>6, <1>7, <1>8, <1>9, SwapKeeps
<1>12. \A n \in 0 .. length - 1 : lo <= n /\ n < y => Less(data[n], data[e])
  BY <1>4, <1>8
<1>13. \A n \in 0 .. length - 1 : y <= n /\ n < e => ~Less(data[n], data[e])
  BY <1>4, <1>8
<1>14. ~Less(data[e], data[e])
  <2>1. Rank[data[e]] \in Int
    BY <1>8 DEF Parameters, IInv, WellFormed, Initialised
  <2> QED BY <2>1 DEF Less
<1>15. ASSUME NEW n \in 0 .. length - 1, Covers(part, n), n < y
       PROVE  Less(data'[n], data[e])
  <2>1. lo <= n /\ n # y /\ n # e
    BY <1>2, <1>5, <1>10, <1>15
  <2>2. data'[n] = data[n]
    BY <1>11, <2>1
  <2> QED BY <1>12, <1>15, <2>1, <2>2
<1>16. ASSUME NEW n \in 0 .. length - 1, Covers(part, n), y <= n
       PROVE  ~Less(data'[n], data[e])
  <2>1. n \in Nat /\ n < e + 1
    BY <1>2, <1>5, <1>10, <1>16
  <2>2. CASE n = y
    BY <1>11, <1>14, <2>2
  <2>3. CASE n # y /\ n = e
    <3>1. y < e
      BY <1>10, <2>3
    <3>2. ~Less(data[y], data[e])
      BY <1>8, <1>10, <1>13, <3>1
    <3> QED BY <1>11, <2>3, <3>2
  <2>4. CASE n # y /\ n # e
    <3>1. n < e
      BY <1>10, <2>1, <2>4
    <3>2. data'[n] = data[n]
      BY <1>11, <2>4
    <3> QED BY <1>13, <1>16, <3>1, <3>2
  <2> QED BY <2>2, <2>3, <2>4
<1>17. /\ Parting
       /\ e \in 0 .. length - 1 /\ y \in 0 .. length - 1
       /\ Covers(part, e) /\ Covers(part, y)
       /\ data' = Swap(data, e, y)
       /\ \A n \in 0 .. length - 1 :
            Covers(part, n) /\ n < y => Less(data'[n], data[e])
       /\ \A n \in 0 .. length - 1 :
            Covers(part, n) /\ y <= n => ~Less(data'[n], data[e])
  BY <1>1, <1>6, <1>8, <1>9, <1>15, <1>16
<1> QED BY <1>17 DEF e, y, lo, size, less

LEMMA DivideKeeps == ASSUME Parameters, IInv, Divide PROVE IInv'
<1> DEFINE e == part.lo + part.size - 1
           y == part.lo + part.less
           left == [lo |-> part.lo, size |-> part.less]
           right == [lo |-> part.lo + part.less + 1,
                     size |-> part.size - part.less - 1]
<1>1. /\ Parting
      /\ e \in 0 .. length - 1 /\ y \in 0 .. length - 1
      /\ Covers(part, e) /\ Covers(part, y)
      /\ data' = Swap(data, e, y)
      /\ \A n \in 0 .. length - 1 :
           Covers(part, n) /\ n < y => Less(data'[n], data[e])
      /\ \A n \in 0 .. length - 1 :
           Covers(part, n) /\ y <= n => ~Less(data'[n], data[e])
  BY DivideOrder
<1>2. /\ pending' = <<left, right>> \o pending
      /\ part' = NotParting
      /\ alloced' = alloced /\ length' = length
      /\ unsorted' = unsorted /\ result' = result
  BY DEF Divide, List2
<1>3. /\ length \in Nat /\ part.lo \in Nat /\ part.size \in Nat
      /\ part.less \in Nat /\ part.i \in Nat
      /\ EndOf(part) = part.lo + part.size /\ EndOf(part) <= length
      /\ part.less <= part.i /\ part.i < part.size
  BY <1>1, PartFacts
<1>4. part.lo + part.size <= length /\ part.less < part.size
  BY <1>3
<1>5. /\ part.lo + part.less + 1 \in Nat /\ part.size - part.less - 1 \in Nat
      /\ (part.lo + part.less + 1) + (part.size - part.less - 1) = part.lo + part.size
  BY <1>3, <1>4
<1>6. /\ left \in SubArray /\ right \in SubArray
      /\ EndOf(left) = y /\ right.lo = y + 1 /\ EndOf(right) = EndOf(part)
      /\ left.lo = part.lo
  BY <1>3, <1>5 DEF SubArray, EndOf
<1>7. y < EndOf(part) /\ y \in Nat
  BY <1>3
<1>8. pending \in Seq(SubArray)
  BY DEF IInv, TypeOK
<1> HIDE DEF e, y, left, right
<1>9. /\ pending' \in Seq(SubArray)
      /\ Len(pending') = Len(pending) + 2
      /\ pending'[1] = left /\ pending'[2] = right
      /\ \A k \in 3 .. Len(pending) + 2 : pending'[k] = pending[k - 2]
  BY <1>2, <1>6, <1>8, PushTwo
<1>10. /\ DOMAIN pending = 1 .. Len(pending) /\ Len(pending) \in Nat
       /\ DOMAIN pending' = 1 .. Len(pending) + 2
  BY <1>8, <1>9, LenProperties
<1>11. ~Parting'
  BY <1>2 DEF Parting
<1>12. IInv /\ UNCHANGED <<alloced, length>>
  BY <1>2
<1>13. /\ data' \in [0 .. alloced - 1 -> Value \cup {UNDEF}]
       /\ Bounded' /\ Initialised'
       /\ \A n \in 0 .. length - 1 : Covers(part, n) =>
            \E z \in 0 .. length - 1 : Covers(part, z) /\ data'[n] = data[z]
       /\ \A n \in 0 .. length - 1 : ~Covers(part, n) => data'[n] = data[n]
  BY <1>1, <1>12, SwapKeeps
<1>14. TypeOK'
  <2>1. part' \in [lo : Nat, size : Nat, i : Nat, less : Nat]
    BY <1>2 DEF NotParting
  <2> QED BY <1>2, <1>9, <1>13, <2>1 DEF IInv, TypeOK
<1>15. ASSUME NEW k \in DOMAIN pending'
       PROVE  \/ k = 1 /\ pending'[k] = left
              \/ k = 2 /\ pending'[k] = right
              \/ /\ k - 2 \in DOMAIN pending /\ k > 2
                 /\ pending'[k] = pending[k - 2]
  <2>1. k = 1 \/ k = 2 \/ k \in 3 .. Len(pending) + 2
    BY <1>10
  <2>2. ASSUME k \in 3 .. Len(pending) + 2 PROVE k - 2 \in DOMAIN pending /\ k > 2
    BY <1>10, <2>2
  <2> QED BY <1>9, <2>1, <2>2
<1>16. /\ \A k \in DOMAIN pending : EndOf(pending[k]) <= length
       /\ \A j, k \in DOMAIN pending : j < k => EndOf(pending[j]) <= pending[k].lo
       /\ \A k \in DOMAIN pending : EndOf(part) <= pending[k].lo
  BY <1>1 DEF IInv, WellFormed, RangesInOrder
<1>17. \A k \in DOMAIN pending : pending[k].lo \in Nat
  <2> SUFFICES ASSUME NEW k \in DOMAIN pending PROVE pending[k] \in SubArray
    BY DEF SubArray
  <2>1. k \in 1 .. Len(pending)
    BY <1>10
  <2> QED BY <1>8, <2>1, ElementOfSeq
<1>18. EndOf(part) \in Nat /\ length \in Nat /\ EndOf(part) <= length
  BY <1>3
<1>19. \A k \in DOMAIN pending' : EndOf(pending'[k]) <= length
  <2> TAKE k \in DOMAIN pending'
  <2>1. CASE pending'[k] = left
    BY <1>6, <1>7, <1>18, <2>1
  <2>2. CASE pending'[k] = right
    BY <1>6, <1>18, <2>2
  <2>3. CASE k - 2 \in DOMAIN pending /\ pending'[k] = pending[k - 2]
    BY <1>16, <2>3
  <2> QED BY <1>15, <2>1, <2>2, <2>3
<1>20. ASSUME NEW j \in DOMAIN pending', NEW k \in DOMAIN pending', j < k
       PROVE  EndOf(pending'[j]) <= pending'[k].lo
  <2>1. j \in Nat /\ k \in Nat /\ 1 <= j
    BY <1>10
  <2>2. CASE j = 1 /\ k = 2
    BY <1>6, <1>7, <1>9, <2>2
  <2>3. CASE /\ j \in {1, 2} /\ k > 2
    <3>1. k - 2 \in DOMAIN pending /\ pending'[k] = pending[k - 2]
      BY <1>15, <2>1, <2>3
    <3>2. EndOf(pending'[j]) \in {y, EndOf(part)}
      BY <1>6, <1>9, <2>3
    <3>3. EndOf(part) <= pending[k - 2].lo /\ pending[k - 2].lo \in Nat
      BY <1>16, <1>17, <3>1
    <3>4. y <= pending[k - 2].lo
      BY <1>7, <1>18, <3>3
    <3> QED BY <3>1, <3>2, <3>3, <3>4
  <2>4. CASE j > 2
    <3>1. k > 2 /\ j - 2 < k - 2
      BY <1>20, <2>1, <2>4
    <3>2. /\ k - 2 \in DOMAIN pending /\ pending'[k] = pending[k - 2]
          /\ j - 2 \in DOMAIN pending /\ pending'[j] = pending[j - 2]
      BY <1>15, <2>1, <2>4, <3>1
    <3> QED BY <1>16, <3>1, <3>2
  <2>5. \/ j = 1 /\ k = 2
        \/ j \in {1, 2} /\ k > 2
        \/ j > 2
    BY <1>20, <2>1
  <2> QED BY <2>2, <2>3, <2>4, <2>5
<1>21. RangesInOrder'
  BY <1>2, <1>11, <1>19, <1>20 DEF RangesInOrder, EndOf
<1>22. Parted'
  BY <1>11 DEF Parted
<1>23. OrderedOutside'
  <2> SUFFICES ASSUME NEW m \in 0 .. length - 1, NEW n \in 0 .. length - 1,
                      m < n, Less(data'[n], data'[m])
               PROVE  \E k \in DOMAIN pending' :
                        Covers(pending'[k], m) /\ Covers(pending'[k], n)
    BY <1>2 DEF OrderedOutside, InOneRange, Less, Covers, EndOf
  <2>0. m \in Nat /\ n \in Nat /\ 1 \in DOMAIN pending' /\ 2 \in DOMAIN pending'
    BY <1>3, <1>10
  <2>1. CASE Covers(part, m) /\ Covers(part, n)
    <3>1. /\ part.lo <= m /\ part.lo <= n /\ m < EndOf(part) /\ n < EndOf(part)
      BY <2>1 DEF Covers
    <3>2. CASE n < y
      <4>1. m < y
        BY <1>7, <2>0, <3>2
      <4>2. Covers(left, m) /\ Covers(left, n)
        BY <1>6, <3>1, <3>2, <4>1 DEF Covers
      <4> QED BY <1>9, <2>0, <4>2
    <3>3. CASE y < m
      <4>1. y + 1 <= m /\ y + 1 <= n
        BY <1>7, <2>0, <3>3
      <4>2. Covers(right, m) /\ Covers(right, n)
        BY <1>6, <3>1, <4>1 DEF Covers
      <4> QED BY <1>9, <2>0, <4>2
    <3>4. CASE m <= y /\ y <= n
      <4>1. ~Less(data'[n], data[e])
        BY <1>1, <2>1, <3>4
      <4>2. ~Less(data[e], data'[m])
        <5>1. CASE m = y
          <6>1. data'[m] = data[e]
            BY <1>1, <1>12, <5>1, SwapKeeps
          <6>2. Rank[data[e]] \in Int
            BY <1>1 DEF Parameters, IInv, WellFormed, Initialised
          <6> QED BY <6>1, <6>2 DEF Less
        <5>2. CASE m # y
          <6>1. m < y
            BY <1>7, <2>0, <3>4, <5>2
          <6>2. Less(data'[m], data[e])
            BY <1>1, <2>1, <6>1
          <6>3. data'[m] \in Value /\ data[e] \in Value
            BY <1>1, <1>2, <1>13 DEF IInv, WellFormed, Initialised
          <6>4. Rank[data'[m]] \in Int /\ Rank[data[e]] \in Int
            BY <6>3 DEF Parameters
          <6> QED BY <6>2, <6>4 DEF Less
        <5> QED BY <5>1, <5>2
      <4>3. /\ data'[m] \in Value /\ data'[n] \in Value /\ data[e] \in Value
        BY <1>1, <1>2, <1>13 DEF IInv, WellFormed, Initialised
      <4>4. /\ Rank[data'[m]] \in Int /\ Rank[data'[n]] \in Int
            /\ Rank[data[e]] \in Int
        BY <4>3 DEF Parameters
      <4>5. ~Less(data'[n], data'[m])
        BY <4>1, <4>2, <4>4 DEF Less
      <4> QED BY <4>5
    <3>5. n < y \/ y < m \/ (m <= y /\ y <= n)
      <4>1. y \in Nat
        BY <1>7
      <4> QED BY <2>0, <4>1
    <3> QED BY <3>2, <3>3, <3>4, <3>5
  <2>2. CASE ~(Covers(part, m) /\ Covers(part, n))
    <3>1. PICK k \in DOMAIN pending : Covers(pending[k], m) /\ Covers(pending[k], n)
      BY <1>1, <1>12, <1>13, <2>2, ConfinedToPart
    <3>2. k + 2 \in 3 .. Len(pending) + 2 /\ (k + 2) - 2 = k
      BY <1>10
    <3>3. k + 2 \in DOMAIN pending' /\ pending'[k + 2] = pending[k]
      BY <1>9, <1>10, <3>2
    <3> QED BY <3>1, <3>3
  <2> QED BY <2>1, <2>2
<1>24. SortingExists'
  BY <1>1, <1>2 DEF IInv, SortingExists, Sorting
<1> QED BY <1>13, <1>14, <1>21, <1>22, <1>23, <1>24 DEF IInv, WellFormed

-----------------------------------------------------------------------------
LEMMA NextKeeps ==
  ASSUME Parameters, IInv, [Next]_vars PROVE IInv'
<1>1. CASE UNCHANGED vars
  BY <1>1 DEF IInv, TypeOK, Bounded, SortingExists, WellFormed, Initialised, RangesInOrder,
              Parted, OrderedOutside, InOneRange, Covers, EndOf, Less, Pivot,
              Parting, Sorting, vars, memory, sorting
<1>2. ASSUME NEW hint \in 0 .. MaxAlloced, New(hint) PROVE IInv'
  <2>1. ~Sorting
    BY <1>2 DEF IInv, SortingExists, New
  <2> QED BY <1>2, <2>1, NewKeeps
<1>3. CASE Free
  BY <1>3, FreeKeeps
<1>4. ASSUME NEW index \in 0 .. MaxAlloced, NEW v \in Value, Insert(index, v)
      PROVE  IInv'
  BY <1>4, InsertKeeps
<1>5. ASSUME NEW index \in 0 .. MaxAlloced + 1, InsertFails(index) PROVE IInv'
  BY <1>5, InsertFailsKeeps DEF Parameters
<1>6. ASSUME NEW index \in 0 .. MaxAlloced + 1, NEW count \in 0 .. MaxAlloced + 1,
             RemoveRange(index, count)
      PROVE  IInv'
  BY <1>6, RemoveRangeKeeps DEF Parameters
<1>7. ASSUME NEW index \in 0 .. MaxAlloced + 1, RemoveIndex(index) PROVE IInv'
  BY <1>7, RemoveRangeKeeps DEF Parameters, RemoveIndex
<1>8. CASE Clear
  BY <1>8, ClearKeeps
<1>9. CASE Sort
  BY <1>9, SortKeeps
<1>10. CASE SortSteps
  BY <1>10, CallKeeps, TurnKeeps, DivideKeeps DEF SortSteps
<1> QED BY <1>1, <1>2, <1>3, <1>4, <1>5, <1>6, <1>7, <1>8, <1>9, <1>10 DEF Next

(* The invariant of the growing array: no slot below length is unwritten,  *)
(* the ranges of a sort lie in the array one after the other, and two      *)
(* values out of order are always in one of them.                          *)
THEOREM ArrayCorrect ==
  ASSUME Parameters PROVE Spec => [](TypeOK /\ WellFormed)
<1>1. Init => IInv
  BY InitIInv
<1>2. IInv /\ [Next]_vars => IInv'
  BY NextKeeps
<1>3. IInv => TypeOK /\ WellFormed
  BY DEF IInv
<1> QED BY <1>1, <1>2, <1>3, PTL DEF Spec

LEMMA DividePending == ASSUME IInv, Divide PROVE pending' # <<>>
<1> DEFINE left == [lo |-> part.lo, size |-> part.less]
<1>1. left \in SubArray /\ List2 \in SubArray
  <2>1. /\ Parting /\ part.i = part.size - 1
    BY DEF Divide
  <2>2. /\ part.lo \in Nat /\ part.size \in Nat /\ part.less \in Nat
        /\ part.i \in Nat /\ part.less <= part.i /\ part.i < part.size
    BY <2>1, PartFacts
  <2>3. part.lo + part.less + 1 \in Nat /\ part.size - part.less - 1 \in Nat
    BY <2>2
  <2> QED BY <2>2, <2>3 DEF SubArray, List2
<1>2. pending' = <<left, List2>> \o pending /\ pending \in Seq(SubArray)
  BY DEF Divide, IInv, TypeOK
<1> HIDE DEF left
<1>3. Len(pending') = Len(pending) + 2 /\ Len(pending) \in Nat
  BY <1>1, <1>2, PushTwo, LenProperties
<1>4. Len(pending') # 0
  BY <1>3
<1> QED BY <1>4

(* The step that ends arraylist_sort leaves the array in ascending order.  *)
LEMMA LastCallSorted ==
  ASSUME Parameters, IInv, Next PROVE SortEnds
<1> SUFFICES ASSUME Sorting, ~Sorting' PROVE SortEnds
  BY DEF SortEnds
<1>1. /\ pending' = <<>> /\ ~Parting' /\ pending \in Seq(SubArray)
      /\ alloced # 0 /\ length \in Nat
  BY DEF Sorting, IInv, TypeOK, SortingExists
<1>2. CASE Call
  <2>1. /\ pending # <<>> /\ ~Parting /\ pending' = Tail(pending)
        /\ UNCHANGED <<data, length>>
    BY <1>2 DEF Call, memory
  <2>2. /\ Len(pending) \in Nat \ {0} /\ Len(Tail(pending)) = Len(pending) - 1
        /\ Head(pending) = pending[1] /\ pending[1] \in SubArray
    BY <1>1, <2>1, PopOne
  <2>3. Len(pending) = 1
    <3>1. Tail(pending) = <<>> /\ Len(<<>>) = 0
      BY <1>1, <2>1, EmptySeq
    <3> DEFINE whole == Len(pending)
               rest == Len(Tail(pending))
    <3>2. whole \in Nat /\ rest = whole - 1 /\ rest = 0
      BY <2>2, <3>1
    <3> HIDE DEF whole, rest
    <3>3. whole = 1
      BY <3>2
    <3> QED BY <3>3 DEF whole
  <2>4. DOMAIN pending = {1}
    BY <1>1, <2>3, LenProperties
  <2>5. pending[1].size <= 1
    <3> SUFFICES ASSUME ~(pending[1].size <= 1) PROVE FALSE
      OBVIOUS
    <3>1. part' = [lo |-> pending[1].lo, size |-> pending[1].size, i |-> 0, less |-> 0]
      BY <1>2, <2>2 DEF Call, Enter
    <3>2. part'.size = pending[1].size /\ pending[1].size # 0
      BY <2>2, <3>1 DEF SubArray
    <3> QED BY <1>1, <3>2 DEF Parting, NotParting
  <2>6. ASSUME NEW m \in 0 .. length - 1, NEW n \in 0 .. length - 1, m < n
        PROVE  ~Less(data[n], data[m])
    <3> SUFFICES ASSUME Less(data[n], data[m]) PROVE FALSE
      OBVIOUS
    <3>1. InOneRange(m, n)
      BY <2>6 DEF IInv, WellFormed, OrderedOutside
    <3>2. Covers(pending[1], m) /\ Covers(pending[1], n)
      BY <2>1, <2>4, <3>1 DEF InOneRange
    <3>3. pending[1].lo \in Nat /\ pending[1].size \in Nat
      BY <2>2 DEF SubArray
    <3>4. m \in Nat /\ n \in Nat
      BY <1>1
    <3> QED BY <2>5, <2>6, <3>2, <3>3, <3>4 DEF Covers, EndOf
  <2> QED BY <2>1, <2>6 DEF SortEnds, Less
<1>3. CASE Turn
  BY <1>1, <1>3, TurnPart
<1>4. CASE Divide
  <2>1. pending' # <<>>
    BY <1>4, DividePending
  <2> QED BY <1>1, <2>1
<1>5. CASE ~SortSteps
  <2>1. ~Idle /\ alloced # 0
    BY <1>1 DEF Idle
  <2> QED BY <1>5, <2>1 DEF Next, New, Free, Insert, InsertFails, RemoveRange,
                            RemoveIndex, Clear, Sort
<1> QED BY <1>2, <1>3, <1>4, <1>5 DEF SortSteps

(* arraylist_sort leaves the array in ascending order, whatever the values *)
(* and however the partitions fall.                                        *)
THEOREM SortTheorem == ASSUME Parameters PROVE Spec => SortOrders
<1>1. Init => IInv
  BY InitIInv
<1>2. IInv /\ [Next]_vars => IInv'
  BY NextKeeps
<1>3. IInv /\ [Next]_vars => [SortEnds]_vars
  BY LastCallSorted
<1> QED BY <1>1, <1>2, <1>3, PTL DEF Spec, SortOrders

-----------------------------------------------------------------------------
(* When one sequence is another with a value inserted. *)
LEMMA InsertedSeq ==
  ASSUME NEW S, NEW s \in Seq(S), NEW t \in Seq(S), NEW i \in 1 .. Len(s) + 1,
         NEW e \in S, Len(t) = Len(s) + 1,
         \A k \in 1 .. Len(s) + 1 :
           t[k] = IF k < i THEN s[k] ELSE IF k = i THEN e ELSE s[k - 1]
  PROVE  t = InsertAt(s, i, e)
<1> DEFINE before == SubSeq(s, 1, i - 1)
           after == SubSeq(s, i, Len(s))
<1>1. Len(s) \in Nat /\ \A k \in 1 .. Len(s) : s[k] \in S
  BY LenProperties, ElementOfSeq
<1>2. /\ before \in Seq(S) /\ Len(before) = i - 1
      /\ \A k \in 1 .. i - 1 : before[k] = s[k]
  <2>1. \A k \in 1 .. i - 1 : s[k] \in S
    BY <1>1
  <2>2. /\ before \in Seq(S)
        /\ Len(before) = IF 1 <= i - 1 THEN (i - 1) - 1 + 1 ELSE 0
        /\ \A k \in 1 .. (i - 1) - 1 + 1 : before[k] = s[1 + k - 1]
    BY <1>1, <2>1, SubSeqProperties
  <2> QED BY <2>2
<1>3. /\ after \in Seq(S) /\ Len(after) = Len(s) + 1 - i
      /\ \A k \in 1 .. Len(s) + 1 - i : after[k] = s[k + i - 1]
  <2>1. \A k \in i .. Len(s) : s[k] \in S
    BY <1>1
  <2>2. /\ after \in Seq(S)
        /\ Len(after) = IF i <= Len(s) THEN Len(s) - i + 1 ELSE 0
        /\ \A k \in 1 .. Len(s) - i + 1 : after[k] = s[i + k - 1]
    BY <1>1, <2>1, SubSeqProperties
  <2> QED BY <1>1, <2>2
<1> HIDE DEF before, after
<1>4. <<e>> \in Seq(S) /\ Len(<<e>>) = 1 /\ <<e>>[1] = e
  OBVIOUS
<1> DEFINE one == <<e>>
<1> HIDE DEF one
<1>5. one \in Seq(S) /\ Len(one) = 1 /\ one[1] = e
  BY <1>4 DEF one
<1> DEFINE start == before \o one
<1>6. /\ start \in Seq(S) /\ Len(start) = i
      /\ \A k \in 1 .. i : start[k] = IF k < i THEN s[k] ELSE e
  <2>1. /\ start \in Seq(S) /\ Len(start) = Len(before) + Len(one)
        /\ \A k \in 1 .. Len(before) + Len(one) :
             start[k] = IF k <= Len(before) THEN before[k] ELSE one[k - Len(before)]
    BY <1>2, <1>5, ConcatProperties
  <2> QED BY <1>2, <1>5, <2>1
<1> HIDE DEF start
<1>7. /\ start \o after \in Seq(S) /\ Len(start \o after) = Len(s) + 1
      /\ \A k \in 1 .. Len(s) + 1 :
           (start \o after)[k] = IF k <= i THEN start[k] ELSE after[k - i]
  <2>1. /\ start \o after \in Seq(S) /\ Len(start \o after) = Len(start) + Len(after)
        /\ \A k \in 1 .. Len(start) + Len(after) :
             (start \o after)[k] = IF k <= Len(start) THEN start[k]
                                   ELSE after[k - Len(start)]
    BY <1>3, <1>6, ConcatProperties
  <2>2. Len(start) + Len(after) = Len(s) + 1
    BY <1>1, <1>3, <1>6
  <2> QED BY <1>6, <2>1, <2>2
<1>8. ASSUME NEW k \in 1 .. Len(s) + 1 PROVE t[k] = (start \o after)[k]
  <2>1. CASE k <= i
    BY <1>1, <1>6, <1>7, <2>1
  <2>2. CASE k > i
    <3>1. k - i \in 1 .. Len(s) + 1 - i /\ (k - i) + i - 1 = k - 1
      BY <1>1, <2>2
    <3>2. (start \o after)[k] = after[k - i] /\ after[k - i] = s[k - 1]
      BY <1>3, <1>7, <2>2, <3>1
    <3> QED BY <2>2, <3>2
  <2>3. k <= i \/ k > i
    BY <1>1
  <2> QED BY <2>1, <2>2, <2>3
<1>9. t = start \o after
  BY <1>7, <1>8, SeqEqual
<1> QED BY <1>9 DEF InsertAt, start, before, one, after

(* When one sequence is another without a range. *)
LEMMA RemovedSeq ==
  ASSUME NEW S, NEW s \in Seq(S), NEW t \in Seq(S), NEW i \in 1 .. Len(s),
         NEW j \in i .. Len(s), Len(t) = Len(s) - (j - i + 1),
         \A k \in 1 .. Len(s) - (j - i + 1) :
           t[k] = IF k < i THEN s[k] ELSE s[k + (j - i + 1)]
  PROVE  t = SubSeq(s, 1, i - 1) \o SubSeq(s, j + 1, Len(s))
<1> DEFINE before == SubSeq(s, 1, i - 1)
           after == SubSeq(s, j + 1, Len(s))
<1>1. Len(s) \in Nat /\ \A k \in 1 .. Len(s) : s[k] \in S
  BY LenProperties, ElementOfSeq
<1>2. /\ before \in Seq(S) /\ Len(before) = i - 1
      /\ \A k \in 1 .. i - 1 : before[k] = s[k]
  <2>1. \A k \in 1 .. i - 1 : s[k] \in S
    BY <1>1
  <2>2. /\ before \in Seq(S)
        /\ Len(before) = IF 1 <= i - 1 THEN (i - 1) - 1 + 1 ELSE 0
        /\ \A k \in 1 .. (i - 1) - 1 + 1 : before[k] = s[1 + k - 1]
    BY <1>1, <2>1, SubSeqProperties
  <2> QED BY <2>2
<1>3. /\ after \in Seq(S) /\ Len(after) = Len(s) - j
      /\ \A k \in 1 .. Len(s) - j : after[k] = s[k + j]
  <2>1. \A k \in j + 1 .. Len(s) : s[k] \in S
    BY <1>1
  <2>2. /\ after \in Seq(S)
        /\ Len(after) = IF j + 1 <= Len(s) THEN Len(s) - (j + 1) + 1 ELSE 0
        /\ \A k \in 1 .. Len(s) - (j + 1) + 1 : after[k] = s[j + 1 + k - 1]
    BY <1>1, <2>1, SubSeqProperties
  <2>3. ASSUME NEW k \in 1 .. Len(s) - j PROVE after[k] = s[k + j]
    <3>1. k \in 1 .. Len(s) - (j + 1) + 1 /\ j + 1 + k - 1 = k + j
      BY <1>1
    <3> QED BY <2>2, <3>1
  <2> QED BY <1>1, <2>2, <2>3
<1> HIDE DEF before, after
<1>4. Len(before) + Len(after) = Len(s) - (j - i + 1)
  BY <1>1, <1>2, <1>3
<1>5. /\ before \o after \in Seq(S)
      /\ Len(before \o after) = Len(s) - (j - i + 1)
      /\ \A k \in 1 .. Len(s) - (j - i + 1) :
           (before \o after)[k] = IF k <= i - 1 THEN before[k]
                                  ELSE after[k - (i - 1)]
  <2>1. /\ before \o after \in Seq(S)
        /\ Len(before \o after) = Len(before) + Len(after)
        /\ \A k \in 1 .. Len(before) + Len(after) :
             (before \o after)[k] = IF k <= Len(before) THEN before[k]
                                    ELSE after[k - Len(before)]
    BY <1>2, <1>3, ConcatProperties
  <2> QED BY <1>2, <1>4, <2>1
<1>6. ASSUME NEW k \in 1 .. Len(s) - (j - i + 1)
      PROVE  t[k] = (before \o after)[k]
  <2>1. CASE k < i
    <3>1. k <= i - 1 /\ k \in 1 .. i - 1
      BY <2>1
    <3> QED BY <1>2, <1>5, <2>1, <3>1
  <2>2. CASE k >= i
    <3>1. /\ k - (i - 1) \in 1 .. Len(s) - j
          /\ (k - (i - 1)) + j = k + (j - i + 1) /\ ~(k <= i - 1)
      BY <1>1, <2>2
    <3>2. (before \o after)[k] = after[k - (i - 1)]
      BY <1>5, <3>1
    <3>3. after[k - (i - 1)] = s[k + (j - i + 1)]
      BY <1>3, <3>1
    <3> QED BY <2>2, <3>2, <3>3
  <2>3. k < i \/ k >= i
    BY <1>1
  <2> QED BY <2>1, <2>2, <2>3
<1>7. t = before \o after
  BY <1>5, <1>6, SeqEqual
<1> QED BY <1>7 DEF before, after

(* Two sequences that differ by a swap hold the same values. *)
LEMMA SwapOccurs ==
  ASSUME NEW S, NEW s \in Seq(S), NEW t \in Seq(S), Len(t) = Len(s),
         NEW x \in 1 .. Len(s), NEW y \in 1 .. Len(s),
         t[x] = s[y], t[y] = s[x],
         \A k \in 1 .. Len(s) : k # x /\ k # y => t[k] = s[k],
         NEW v
  PROVE  List!Occurrences(t, v) = List!Occurrences(s, v)
<1> DEFINE A == {k \in 1 .. Len(s) : s[k] = v}
           B == {k \in 1 .. Len(s) : t[k] = v}
           other(k) == IF k = x THEN y ELSE IF k = y THEN x ELSE k
           f == [k \in A |-> other(k)]
<1>1. Len(s) \in Nat /\ DOMAIN s = 1 .. Len(s) /\ DOMAIN t = 1 .. Len(s)
  BY LenProperties
<1>2. \A k \in 1 .. Len(s) : t[other(k)] = s[k]
  OBVIOUS
<1>3. \A k \in 1 .. Len(s) : other(k) \in 1 .. Len(s) /\ other(other(k)) = k
  OBVIOUS
<1>4. \A k \in A : other(k) \in B
  BY <1>2, <1>3
<1>5. \A k \in B : other(k) \in A
  <2>1. ASSUME NEW k \in B PROVE other(k) \in A
    <3>1. other(k) \in 1 .. Len(s) /\ other(other(k)) = k
      BY <1>3
    <3>2. t[other(other(k))] = s[other(k)]
      BY <1>2, <3>1
    <3> QED BY <3>1, <3>2
  <2> QED BY <2>1
<1> HIDE DEF other
<1>6. f \in Bijection(A, B)
  <2>1. f \in [A -> B]
    BY <1>4
  <2>2. \A m, n \in A : f[m] = f[n] => m = n
    BY <1>3
  <2>3. \A k \in B : \E m \in A : f[m] = k
    <3>1. ASSUME NEW k \in B PROVE \E m \in A : f[m] = k
      <4>1. other(k) \in A /\ f[other(k)] = k
        BY <1>3, <1>5
      <4> QED BY <4>1
    <3> QED BY <3>1
  <2> QED BY <2>1, <2>2, <2>3 DEF Bijection, Injection, Surjection, IsInjective
<1>7. IsFiniteSet(A)
  <2>1. IsFiniteSet(1 .. Len(s)) /\ A \in SUBSET (1 .. Len(s))
    BY <1>1, FS_Interval
  <2> QED BY <2>1, FS_Subset
<1>8. Cardinality(B) = Cardinality(A)
  BY <1>6, <1>7, FS_Bijection DEF ExistsBijection
<1> QED BY <1>1, <1>8 DEF List!Occurrences, List!Cardinality, Cardinality

(* The sequence of the first slots of a block. *)
Listed(d, len) == [n \in 1 .. len |-> d[n - 1]]

LEMMA ListedSeq ==
  ASSUME NEW d, NEW len \in Nat, \A n \in 0 .. len - 1 : d[n] \in Value
  PROVE  /\ Listed(d, len) \in Seq(Value)
         /\ Len(Listed(d, len)) = len
         /\ \A k \in 1 .. len : Listed(d, len)[k] = d[k - 1]
<1>1. \A n \in 1 .. len : d[n - 1] \in Value
  OBVIOUS
<1> QED BY <1>1 DEF Listed

LEMMA StoredListed ==
  /\ Stored = Listed(data, length)
  /\ Stored' = Listed(data', length')
BY DEF Stored, Listed

LEMMA StoredSeq ==
  ASSUME IInv
  PROVE  /\ length \in Nat
         /\ Stored \in Seq(Value) /\ Len(Stored) = length
         /\ \A k \in 1 .. length : Stored[k] = data[k - 1]
<1>1. length \in Nat /\ \A n \in 0 .. length - 1 : data[n] \in Value
  BY DEF IInv, TypeOK, WellFormed, Initialised
<1>2. /\ Listed(data, length) \in Seq(Value)
      /\ Len(Listed(data, length)) = length
      /\ \A k \in 1 .. length : Listed(data, length)[k] = data[k - 1]
  BY <1>1, ListedSeq
<1> QED BY <1>1, <1>2, StoredListed

LEMMA StoredSeqNext ==
  ASSUME IInv'
  PROVE  /\ length' \in Nat
         /\ Stored' \in Seq(Value) /\ Len(Stored') = length'
         /\ \A k \in 1 .. length' : Stored'[k] = data'[k - 1]
<1>1. length' \in Nat /\ \A n \in 0 .. length' - 1 : data'[n] \in Value
  BY DEF IInv, TypeOK, WellFormed, Initialised
<1>2. /\ Listed(data', length') \in Seq(Value)
      /\ Len(Listed(data', length')) = length'
      /\ \A k \in 1 .. length' : Listed(data', length')[k] = data'[k - 1]
  BY <1>1, ListedSeq
<1> QED BY <1>1, <1>2, StoredListed

(* While the array is sorted it holds the values it held. *)
KeepsValues == Sorting => List!Permutes(Stored, unsorted)

LEMMA SwapPermutes ==
  ASSUME IInv, Parting, NEW x \in 0 .. length - 1, NEW y \in 0 .. length - 1,
         Covers(part, x), Covers(part, y), data' = Swap(data, x, y),
         UNCHANGED <<alloced, length>>
  PROVE  \A v : List!Occurrences(Stored', v) = List!Occurrences(Stored, v)
<1>1. /\ Initialised'
      /\ data'[x] = data[y] /\ data'[y] = data[x]
      /\ \A n \in 0 .. length - 1 : n # x /\ n # y => data'[n] = data[n]
  BY SwapKeeps
<1>2. /\ length \in Nat
      /\ Stored \in Seq(Value) /\ Len(Stored) = length
      /\ \A k \in 1 .. length : Stored[k] = data[k - 1]
  BY StoredSeq
<1>3. /\ Stored' \in Seq(Value) /\ Len(Stored') = length
      /\ \A k \in 1 .. length : Stored'[k] = data'[k - 1]
  <2>1. \A n \in 0 .. length - 1 : data'[n] \in Value
    BY <1>1 DEF Initialised
  <2>2. /\ Listed(data', length) \in Seq(Value)
        /\ Len(Listed(data', length)) = length
        /\ \A k \in 1 .. length : Listed(data', length)[k] = data'[k - 1]
    BY <1>2, <2>1, ListedSeq
  <2> QED BY <2>2, StoredListed
<1> DEFINE s == Stored
           t == Stored'
<1>4. /\ x + 1 \in 1 .. length /\ y + 1 \in 1 .. length
      /\ (x + 1) - 1 = x /\ (y + 1) - 1 = y
  BY <1>2
<1>5. t[x + 1] = s[y + 1] /\ t[y + 1] = s[x + 1]
  BY <1>1, <1>2, <1>3, <1>4
<1>6. ASSUME NEW k \in 1 .. length, k # x + 1, k # y + 1 PROVE t[k] = s[k]
  <2>1. k - 1 \in 0 .. length - 1 /\ k - 1 # x /\ k - 1 # y
    BY <1>2, <1>6
  <2> QED BY <1>1, <1>2, <1>3, <2>1
<1>7. s \in Seq(Value) /\ t \in Seq(Value) /\ Len(s) = length /\ Len(t) = length
  BY <1>2, <1>3
<1> DEFINE p == x + 1
           q == y + 1
<1> HIDE DEF s, t
<1>8. ASSUME NEW v PROVE List!Occurrences(t, v) = List!Occurrences(s, v)
  <2>1. /\ p \in 1 .. Len(s) /\ q \in 1 .. Len(s)
        /\ t[p] = s[q] /\ t[q] = s[p]
        /\ \A k \in 1 .. Len(s) : k # p /\ k # q => t[k] = s[k]
    BY <1>4, <1>5, <1>6, <1>7
  <2> HIDE DEF p, q
  <2> QED BY <1>7, <2>1, SwapOccurs
<1> QED BY <1>8 DEF s, t

LEMMA InitKeepsValues == ASSUME Init PROVE KeepsValues
BY DEF Init, KeepsValues, Sorting, Parting

LEMMA PermutesSame == ASSUME NEW s PROVE List!Permutes(s, s)
BY DEF List!Permutes

(* A call that is not the last leaves the record of the contents. *)
LEMMA CallLeaves == ASSUME IInv, Call, Sorting' PROVE unsorted' = unsorted
<1>1. CASE Head(pending).size <= 1
  <2>1. unsorted' = IF Len(pending) = 1 THEN <<>> ELSE unsorted
    BY <1>1 DEF Call, Return
  <2>2. pending' # <<>> /\ pending' = Tail(pending) /\ pending # <<>>
    BY <1>1 DEF Call, Return, Sorting, Parting
  <2>3. pending \in Seq(SubArray)
    BY DEF IInv, TypeOK
  <2>4. /\ Tail(pending) \in Seq(SubArray) /\ Len(pending) \in Nat
        /\ Len(Tail(pending)) = Len(pending) - 1
    BY <2>2, <2>3, PopOne
  <2>5. Len(Tail(pending)) \in Nat \ {0}
    BY <2>2, <2>4, EmptySeq
  <2>6. Len(pending) # 1
    BY <2>4, <2>5
  <2> QED BY <2>1, <2>6
<1>2. CASE ~(Head(pending).size <= 1)
  BY <1>2 DEF Call, Enter
<1> QED BY <1>1, <1>2

LEMMA NextKeepsValues ==
  ASSUME Parameters, IInv, KeepsValues, [Next]_vars PROVE KeepsValues'
<1>1. CASE UNCHANGED vars
  BY <1>1 DEF KeepsValues, vars, memory, sorting, Sorting, Parting, Stored
<1>2. CASE Sort
  <2>1. unsorted' = Stored /\ Stored' = Stored
    BY <1>2 DEF Sort, memory, Stored
  <2> QED BY <2>1, PermutesSame DEF KeepsValues
<1>3. CASE Call
  <2>1. Sorting /\ Stored' = Stored
    BY <1>3 DEF Call, memory, Stored, Sorting
  <2>2. ASSUME Sorting' PROVE unsorted' = unsorted
    BY <1>3, <2>2, CallLeaves
  <2> QED BY <2>1, <2>2 DEF KeepsValues
<1>4. CASE Turn
  <2>1. /\ Parting /\ part.i + 1 < part.size
        /\ UNCHANGED <<alloced, length, pending, unsorted, result>>
    BY <1>4, TurnPart
  <2>2. CASE data' = data
    BY <2>1, <2>2 DEF KeepsValues, Sorting, Stored
  <2>3. CASE data' = Swap(data, part.lo + part.i, part.lo + part.less)
    <3>1. /\ length \in Nat /\ part.lo \in Nat /\ part.size \in Nat
          /\ part.i \in Nat /\ part.less \in Nat
          /\ EndOf(part) = part.lo + part.size /\ EndOf(part) <= length
          /\ part.less <= part.i /\ part.i < part.size
      BY <2>1, PartFacts
    <3> DEFINE x == part.lo + part.i
               y == part.lo + part.less
    <3>2. x \in 0 .. length - 1 /\ y \in 0 .. length - 1
      BY <3>1
    <3>3. Covers(part, x) /\ Covers(part, y)
      BY <3>1 DEF Covers
    <3>4. data' = Swap(data, x, y)
      BY <2>3
    <3> HIDE DEF x, y
    <3>5. \A v : List!Occurrences(Stored', v) = List!Occurrences(Stored, v)
      BY <2>1, <3>2, <3>3, <3>4, SwapPermutes
    <3> QED BY <2>1, <3>5 DEF KeepsValues, List!Permutes, Sorting
  <2> QED BY <1>4, <2>2, <2>3 DEF Turn
<1>5. CASE Divide
  <2>1. /\ Parting /\ data' = Swap(data, EndOf(part) - 1, part.lo + part.less)
        /\ UNCHANGED <<alloced, length, unsorted>>
    BY <1>5 DEF Divide
  <2>2. /\ length \in Nat /\ part.lo \in Nat /\ part.size \in Nat
        /\ part.i \in Nat /\ part.less \in Nat
        /\ EndOf(part) = part.lo + part.size /\ EndOf(part) <= length
        /\ part.less <= part.i /\ part.i < part.size
    BY <2>1, PartFacts
  <2> DEFINE x == EndOf(part) - 1
             y == part.lo + part.less
  <2>3. x \in 0 .. length - 1 /\ y \in 0 .. length - 1
    BY <2>2
  <2>4. Covers(part, x) /\ Covers(part, y)
    BY <2>2 DEF Covers
  <2>5. data' = Swap(data, x, y)
    BY <2>1
  <2> HIDE DEF x, y
  <2>6. \A v : List!Occurrences(Stored', v) = List!Occurrences(Stored, v)
    BY <2>1, <2>3, <2>4, <2>5, SwapPermutes
  <2> QED BY <2>1, <2>6 DEF KeepsValues, List!Permutes, Sorting
<1>6. CASE UNCHANGED sorting /\ ~Sorting
  BY <1>6 DEF KeepsValues, sorting, Sorting, Parting
<1>7. CASE Next
  <2>1. ASSUME NEW hint \in 0 .. MaxAlloced, New(hint) PROVE UNCHANGED sorting /\ ~Sorting
    BY <2>1 DEF New, IInv, SortingExists
  <2>2. ASSUME \/ Free \/ Clear
               \/ \E index \in 0 .. MaxAlloced, v \in Value : Insert(index, v)
               \/ \E index \in 0 .. MaxAlloced + 1 : InsertFails(index)
               \/ \E index, count \in 0 .. MaxAlloced + 1 : RemoveRange(index, count)
               \/ \E index \in 0 .. MaxAlloced + 1 : RemoveIndex(index)
        PROVE  UNCHANGED sorting /\ ~Sorting
    BY <2>2 DEF Free, Clear, Insert, InsertFails, RemoveRange, RemoveIndex, Idle,
                sorting
  <2> QED BY <1>2, <1>3, <1>4, <1>5, <1>6, <1>7, <2>1, <2>2 DEF Next, SortSteps
<1> QED BY <1>1, <1>7

-----------------------------------------------------------------------------
(* The order that compare_func sees between neighbours. *)
LEMMA SortedAscends ==
  ASSUME Parameters, NEW s \in Seq(Value),
         \A k \in 1 .. Len(s) - 1 : ~Less(s[k + 1], s[k])
  PROVE  List!Ascending(s)
<1>1. Len(s) \in Nat /\ \A k \in 1 .. Len(s) : s[k] \in Value
  BY LenProperties, ElementOfSeq
<1>2. ASSUME NEW k \in 1 .. Len(s) - 1 PROVE Rank[s[k]] <= Rank[s[k + 1]]
  <2>1. s[k] \in Value /\ s[k + 1] \in Value
    BY <1>1
  <2>2. Rank[s[k]] \in Int /\ Rank[s[k + 1]] \in Int
    BY <2>1 DEF Parameters
  <2>3. ~(Rank[s[k + 1]] < Rank[s[k]])
    BY DEF Less
  <2> QED BY <2>2, <2>3
<1> QED BY <1>2 DEF List!Ascending

ListStep ==
  [List!Next \/ \E m, n \in DOMAIN Contents : List!DeleteRange(m, n)]_(List!vars)

LEMMA Quiet == ASSUME ~Sorting PROVE Contents = Stored
BY DEF Contents

LEMMA QuietNext == ASSUME ~Sorting' PROVE Contents' = Stored'
BY DEF Contents

(* A step that leaves the contents and the answer alone. *)
LEMMA StepStutters ==
  ASSUME Contents' = Contents, result' = result PROVE ListStep
BY DEF ListStep, List!vars

LEMMA EmptyStored == ASSUME length = 0 PROVE Stored = <<>>
BY DEF Stored

LEMMA EmptyStoredNext == ASSUME length' = 0 PROVE Stored' = <<>>
BY DEF Stored

LEMMA NewStutters ==
  ASSUME IInv, NEW hint, New(hint) PROVE ListStep
<1>1. /\ alloced = 0 /\ length' = 0 /\ ~Sorting /\ ~Sorting' /\ result' = result
  BY DEF New, IInv, SortingExists, sorting, Sorting, Parting
<1>2. length = 0
  BY <1>1 DEF IInv, TypeOK, WellFormed, Initialised
<1>3. Contents' = Contents
  BY <1>1, <1>2, EmptyStored, EmptyStoredNext, Quiet, QuietNext
<1> QED BY <1>1, <1>3, StepStutters

LEMMA DestroyStep ==
  ASSUME Free \/ Clear PROVE ListStep
<1>1. length' = 0 /\ ~Sorting' /\ result' = result
  BY NotSorting DEF Free, Clear
<1>2. Contents' = <<>>
  BY <1>1, EmptyStoredNext, QuietNext
<1> QED BY <1>1, <1>2 DEF ListStep, List!Next, List!Destroy

LEMMA RefusedStep ==
  ASSUME NEW index, InsertFails(index) PROVE ListStep
<1>1. /\ UNCHANGED <<memory, sorting>> /\ result' = 0 /\ ~Sorting /\ ~Sorting'
  BY NotSorting DEF InsertFails
<1>2. Stored' = Stored
  BY <1>1 DEF memory, Stored
<1>3. Contents' = Contents
  BY <1>1, <1>2, Quiet, QuietNext
<1> QED BY <1>1, <1>3 DEF ListStep, List!Next, List!Refused

(* The slots after an insertion. *)
LEMMA PlacedSlots ==
  ASSUME NEW block, NEW size \in Nat, NEW index \in Nat, NEW v,
         length \in Nat, DOMAIN block = 0 .. size - 1,
         \A n \in 0 .. length - 1 : block[n] = data[n],
         length < size, index <= length,
         Place(block, index, v)
  PROVE  \A n \in 0 .. length :
           data'[n] = IF n < index THEN data[n]
                      ELSE IF n = index THEN v ELSE data[n - 1]
<1> DEFINE moved == MemMove(block, index + 1, index, Moved(index))
<1>1. ASSUME NEW n \in 0 .. size - 1
      PROVE  moved[n] = IF index + 1 <= n /\ n < length + 1
                        THEN block[n - 1] ELSE block[n]
  <2>1. n - (index + 1) + index = n - 1 /\ (index + 1) + (length - index) = length + 1
    OBVIOUS
  <2> QED BY <2>1 DEF MemMove, Moved
<1>2. DOMAIN moved = 0 .. size - 1
  BY DEF MemMove
<1>3. data' = [moved EXCEPT ![index] = v]
  BY DEF Place
<1>4. moved = [n \in DOMAIN moved |-> moved[n]]
  BY DEF MemMove
<1> HIDE DEF moved
<1>5. ASSUME NEW n \in 0 .. length
      PROVE  data'[n] = IF n < index THEN data[n]
                        ELSE IF n = index THEN v ELSE data[n - 1]
  <2>1. n \in 0 .. size - 1 /\ index \in 0 .. size - 1
    OBVIOUS
  <2>2. data'[n] = IF n = index THEN v ELSE moved[n]
    BY <1>2, <1>3, <1>4, <2>1
  <2>3. CASE n < index
    <3>1. moved[n] = block[n] /\ n \in 0 .. length - 1
      BY <1>1, <2>1, <2>3
    <3> QED BY <2>2, <2>3, <3>1
  <2>4. CASE n = index
    BY <2>2, <2>4
  <2>5. CASE n > index
    <3>1. moved[n] = block[n - 1] /\ n - 1 \in 0 .. length - 1
      BY <1>1, <2>1, <2>5
    <3> QED BY <2>2, <2>5, <3>1
  <2>6. n < index \/ n = index \/ n > index
    OBVIOUS
  <2> QED BY <2>3, <2>4, <2>5, <2>6
<1> QED BY <1>5

LEMMA InsertSlots ==
  ASSUME Parameters, IInv, NEW index \in 0 .. MaxAlloced, NEW v \in Value,
         Insert(index, v)
  PROVE  /\ index <= length /\ length' = length + 1 /\ result' = 1
         /\ \A n \in 0 .. length :
              data'[n] = IF n < index THEN data[n]
                         ELSE IF n = index THEN v ELSE data[n - 1]
<1>1. /\ alloced \in Nat /\ length \in Nat /\ alloced <= MaxAlloced
      /\ length <= alloced /\ alloced # 0 /\ index \in Nat /\ index <= length
      /\ data \in [0 .. alloced - 1 -> Value \cup {UNDEF}]
  BY DEF Parameters, IInv, TypeOK, Bounded, WellFormed, Initialised, Insert, Idle
<1>2. CASE ~Full /\ Place(data, index, v)
  <2>1. length < alloced /\ DOMAIN data = 0 .. alloced - 1
    BY <1>1, <1>2 DEF Full
  <2>2. \A n \in 0 .. length :
          data'[n] = IF n < index THEN data[n]
                     ELSE IF n = index THEN v ELSE data[n - 1]
    BY <1>1, <1>2, <2>1, PlacedSlots
  <2> QED BY <1>1, <1>2, <2>2 DEF Place
<1>3. CASE Doubled <= MaxAlloced /\ Place(Grown(Doubled), index, v)
  <2>1. Doubled = 2 * alloced
    BY <1>1 DEF Doubled, Parameters
  <2>2. Doubled \in Nat /\ length < Doubled /\ alloced < Doubled
    BY <1>1, <2>1
  <2>3. /\ DOMAIN Grown(Doubled) = 0 .. Doubled - 1
        /\ \A n \in 0 .. length - 1 : Grown(Doubled)[n] = data[n]
    BY <1>1, <2>2 DEF Grown
  <2>4. \A n \in 0 .. length :
          data'[n] = IF n < index THEN data[n]
                     ELSE IF n = index THEN v ELSE data[n - 1]
    BY <1>1, <1>3, <2>2, <2>3, PlacedSlots
  <2> QED BY <1>1, <1>3, <2>4 DEF Place
<1> QED BY <1>2, <1>3 DEF Insert

LEMMA InsertStep ==
  ASSUME Parameters, IInv, IInv', NEW index \in 0 .. MaxAlloced, NEW v \in Value,
         Insert(index, v)
  PROVE  /\ index + 1 \in 1 .. Len(Contents) + 1
         /\ Contents' = InsertAt(Contents, index + 1, v)
         /\ ListStep
<1>1. ~Sorting /\ ~Sorting'
  BY NotSorting DEF Insert
<1> DEFINE s == Contents
           t == Contents'
           i == index + 1
<1>2. /\ length \in Nat /\ s \in Seq(Value) /\ Len(s) = length
      /\ \A k \in 1 .. length : s[k] = data[k - 1]
  BY <1>1, StoredSeq, Quiet
<1>3. /\ t \in Seq(Value) /\ Len(t) = length'
      /\ \A k \in 1 .. length' : t[k] = data'[k - 1]
  BY <1>1, StoredSeqNext, QuietNext
<1>4. /\ index <= length /\ length' = length + 1 /\ result' = 1 /\ index \in Nat
      /\ \A n \in 0 .. length :
           data'[n] = IF n < index THEN data[n]
                      ELSE IF n = index THEN v ELSE data[n - 1]
  BY InsertSlots DEF Parameters
<1> HIDE DEF s, t
<1>5. i \in 1 .. Len(s) + 1 /\ Len(t) = Len(s) + 1
  BY <1>2, <1>3, <1>4
<1>6. ASSUME NEW k \in 1 .. Len(s) + 1
      PROVE  t[k] = IF k < i THEN s[k] ELSE IF k = i THEN v ELSE s[k - 1]
  <2>1. k - 1 \in 0 .. length /\ k \in 1 .. length'
    BY <1>2, <1>4
  <2>2. t[k] = IF k - 1 < index THEN data[k - 1]
               ELSE IF k - 1 = index THEN v ELSE data[(k - 1) - 1]
    BY <1>3, <1>4, <2>1
  <2>3. CASE k < i
    <3>1. k \in 1 .. length /\ k - 1 < index
      BY <1>2, <1>4, <2>3
    <3> QED BY <1>2, <2>2, <2>3, <3>1
  <2>4. CASE k = i
    <3>1. k - 1 = index
      BY <1>2, <1>4, <2>4
    <3> QED BY <1>4, <2>2, <2>4, <3>1
  <2>5. CASE k > i
    <3>1. k - 1 \in 1 .. length /\ ~(k - 1 < index) /\ k - 1 # index
      BY <1>2, <1>4, <2>5
    <3>2. t[k] = s[k - 1]
      BY <1>2, <2>2, <3>1
    <3> QED BY <1>4, <2>5, <3>2
  <2>6. k < i \/ k = i \/ k > i
    BY <1>2, <1>4
  <2> QED BY <2>3, <2>4, <2>5, <2>6
<1>7. s \in Seq(Value) /\ t \in Seq(Value)
  BY <1>2, <1>3
<1> HIDE DEF i
<1>8. t = InsertAt(s, i, v)
  BY <1>5, <1>6, <1>7, InsertedSeq
<1>9. List!Insert(i, v)
  BY <1>4, <1>8 DEF List!Insert, InsertAt, s, t
<1>10. i \in 1 .. Len(Contents) + 1
  BY <1>5 DEF s
<1>11. ListStep
  BY <1>9, <1>10 DEF ListStep, List!Next
<1> QED BY <1>8, <1>10, <1>11 DEF s, t, i

LEMMA RemovedSlots ==
  ASSUME Parameters, IInv, NEW index \in Nat, NEW count \in Nat,
         RemoveRange(index, count), ~Outside(index, count)
  PROVE  /\ index + count <= length /\ length' = length - count
         /\ \A n \in 0 .. length - count - 1 :
              data'[n] = IF n < index THEN data[n] ELSE data[n + count]
<1>1. /\ alloced \in Nat /\ length \in Nat /\ length <= alloced /\ Word \in Nat
      /\ data \in [0 .. alloced - 1 -> Value \cup {UNDEF}]
  BY DEF Parameters, IInv, TypeOK, WellFormed, Initialised
<1>2. index + count < Word /\ index <= length
  BY <1>1 DEF RemoveRange, Outside
<1>3. After(index, count) = index + count
  BY <1>1, <1>2 DEF After
<1>4. index + count <= length
  BY <1>1, <1>3 DEF Outside
<1>5. /\ data' = MemMove(data, index, index + count, length - (index + count))
      /\ length' = length - count
  BY <1>3 DEF RemoveRange
<1>6. ASSUME NEW n \in 0 .. length - count - 1
      PROVE  data'[n] = IF n < index THEN data[n] ELSE data[n + count]
  <2>1. /\ n - index + (index + count) = n + count
        /\ index + (length - (index + count)) = length - count
        /\ n \in 0 .. alloced - 1 /\ n < length - count
    BY <1>1
  <2>2. data'[n] = IF index <= n /\ n < length - count
                   THEN data[n + count] ELSE data[n]
    BY <1>1, <1>5, <2>1 DEF MemMove
  <2>3. index <= n \/ n < index
    OBVIOUS
  <2>4. n < index => ~(index <= n)
    OBVIOUS
  <2> QED BY <2>1, <2>2, <2>3, <2>4
<1> QED BY <1>4, <1>5, <1>6

LEMMA RemoveStep ==
  ASSUME Parameters, IInv, IInv', NEW index \in Nat, NEW count \in Nat,
         RemoveRange(index, count)
  PROVE  ListStep
<1>1. ~Sorting /\ ~Sorting' /\ result' = result
  BY NotSorting DEF RemoveRange
<1>2. CASE Outside(index, count)
  <2>1. Stored' = Stored
    BY <1>2 DEF RemoveRange, memory, Stored
  <2> QED BY <1>1, <2>1, Quiet, QuietNext, StepStutters
<1>3. CASE ~Outside(index, count)
  <2> DEFINE s == Contents
             t == Contents'
  <2>1. /\ length \in Nat /\ s \in Seq(Value) /\ Len(s) = length
        /\ \A k \in 1 .. length : s[k] = data[k - 1]
    BY <1>1, StoredSeq, Quiet
  <2>2. /\ t \in Seq(Value) /\ Len(t) = length'
        /\ \A k \in 1 .. length' : t[k] = data'[k - 1]
    BY <1>1, StoredSeqNext, QuietNext
  <2>3. /\ index + count <= length /\ length' = length - count
        /\ \A n \in 0 .. length - count - 1 :
             data'[n] = IF n < index THEN data[n] ELSE data[n + count]
    BY <1>3, RemovedSlots
  <2> HIDE DEF s, t
  <2>4. ASSUME NEW k \in 1 .. length - count
        PROVE  t[k] = IF k < index + 1 THEN s[k] ELSE s[k + count]
    <3>1. /\ k - 1 \in 0 .. length - count - 1 /\ k \in 1 .. length'
          /\ k \in 1 .. length /\ k + count \in 1 .. length
          /\ (k - 1) + count = (k + count) - 1
      BY <2>1, <2>3
    <3>2. t[k] = IF k - 1 < index THEN data[k - 1] ELSE data[(k - 1) + count]
      BY <2>2, <2>3, <3>1
    <3>3. s[k] = data[k - 1] /\ s[k + count] = data[(k - 1) + count]
      BY <2>1, <3>1
    <3>4. (k - 1 < index) = (k < index + 1)
      BY <3>1
    <3> QED BY <3>2, <3>3, <3>4
  <2>5. CASE count = 0
    <3>1. Len(t) = Len(s)
      BY <2>1, <2>2, <2>3, <2>5
    <3>2. ASSUME NEW k \in 1 .. Len(t) PROVE t[k] = s[k]
      <4>1. k \in 1 .. length - count /\ k + count = k
        BY <2>1, <2>2, <2>3, <2>5
      <4>2. t[k] = IF k < index + 1 THEN s[k] ELSE s[k + count]
        BY <2>4, <4>1
      <4> QED BY <4>1, <4>2
    <3>3. t = s
      BY <2>1, <2>2, <3>1, <3>2, SeqEqual
    <3> QED BY <1>1, <3>3, StepStutters DEF s, t
  <2>6. CASE count # 0
    <3> DEFINE i == index + 1
               j == index + count
    <3>1. /\ i \in 1 .. Len(s) /\ j \in i .. Len(s) /\ j - i + 1 = count
          /\ j \in 1 .. Len(s) /\ Len(t) = Len(s) - (j - i + 1)
      BY <2>1, <2>2, <2>3, <2>6
    <3>2. ASSUME NEW k \in 1 .. Len(s) - (j - i + 1)
          PROVE  t[k] = IF k < i THEN s[k] ELSE s[k + (j - i + 1)]
      <4>1. k \in 1 .. length - count
        BY <2>1, <3>1
      <4>2. t[k] = IF k < index + 1 THEN s[k] ELSE s[k + count]
        BY <2>4, <4>1
      <4> QED BY <3>1, <4>2
    <3>3. DOMAIN s = 1 .. Len(s)
      BY <2>1, LenProperties
    <3> HIDE DEF i, j
    <3>4. t = SubSeq(s, 1, i - 1) \o SubSeq(s, j + 1, Len(s))
      BY <2>1, <2>2, <3>1, <3>2, RemovedSeq
    <3>5. List!DeleteRange(i, j)
      BY <1>1, <3>4 DEF List!DeleteRange, s, t
    <3>6. i \in DOMAIN Contents /\ j \in DOMAIN Contents
      BY <3>1, <3>3 DEF s
    <3> QED BY <3>5, <3>6 DEF ListStep
  <2> QED BY <2>5, <2>6
<1> QED BY <1>2, <1>3

(* A step of the sort but the last changes nothing; the last one sorts. *)
LEMMA SortStutters == ASSUME Sort PROVE ListStep
<1>1. /\ ~Sorting /\ Sorting' /\ unsorted' = Stored /\ result' = result
  BY DEF Sort, Idle, Sorting
<1>2. Contents' = Contents
  BY <1>1 DEF Contents
<1> QED BY <1>1, <1>2, StepStutters

LEMMA SortingStutters ==
  ASSUME Sorting, Sorting', unsorted' = unsorted, result' = result
  PROVE  ListStep
<1>1. Contents' = Contents
  BY DEF Contents
<1> QED BY <1>1, StepStutters

LEMMA LastCallSorts ==
  ASSUME Parameters, IInv, IInv', KeepsValues, Call, ~Sorting'
  PROVE  ListStep
<1>1. Sorting /\ Stored' = Stored /\ UNCHANGED <<data, length, result>>
  BY DEF Call, memory, Stored, Sorting
<1>2. Contents = unsorted /\ Contents' = Stored
  BY <1>1 DEF Contents
<1>3. List!Permutes(Stored, unsorted)
  BY <1>1 DEF KeepsValues
<1>4. SortEnds
  BY LastCallSorted DEF Next, SortSteps
<1> DEFINE s == Stored
<1>5. /\ length \in Nat /\ s \in Seq(Value) /\ Len(s) = length
      /\ \A k \in 1 .. length : s[k] = data[k - 1]
  BY StoredSeq
<1> HIDE DEF s
<1>6. ASSUME NEW k \in 1 .. Len(s) - 1 PROVE ~Less(s[k + 1], s[k])
  <2>1. /\ k - 1 \in 0 .. length' - 1 /\ k \in 0 .. length' - 1 /\ k - 1 < k
        /\ k \in 1 .. length /\ k + 1 \in 1 .. length /\ (k + 1) - 1 = k
    BY <1>1, <1>5
  <2>2. ~Less(data'[k], data'[k - 1])
    BY <1>1, <1>4, <2>1 DEF SortEnds
  <2>3. s[k] = data[k - 1] /\ s[k + 1] = data[k]
    BY <1>5, <2>1
  <2> QED BY <1>1, <2>2, <2>3 DEF Less
<1>7. List!Ascending(s)
  BY <1>5, <1>6, SortedAscends
<1>8. List!Sort
  BY <1>1, <1>2, <1>3, <1>7 DEF List!Sort, s
<1> QED BY <1>8 DEF ListStep, List!Next

LEMMA CallStep ==
  ASSUME Parameters, IInv, IInv', KeepsValues, Call PROVE ListStep
<1>1. Sorting /\ result' = result
  BY DEF Call, Sorting
<1>2. CASE ~Sorting'
  BY <1>2, LastCallSorts
<1>3. CASE Sorting'
  <2>1. unsorted' = unsorted
    BY <1>3, CallLeaves
  <2> QED BY <1>1, <1>3, <2>1, SortingStutters
<1> QED BY <1>2, <1>3

LEMMA TurnStep == ASSUME IInv, Turn PROVE ListStep
<1>1. Parting /\ Parting' /\ unsorted' = unsorted /\ result' = result
  BY TurnPart
<1> QED BY <1>1, SortingStutters DEF Sorting

LEMMA DivideStep == ASSUME IInv, Divide PROVE ListStep
<1>1. Parting /\ unsorted' = unsorted /\ result' = result
  BY DEF Divide
<1>2. pending' # <<>>
  BY DividePending
<1> QED BY <1>1, <1>2, SortingStutters DEF Sorting

LEMMA NextImplements ==
  ASSUME Parameters, IInv, IInv', KeepsValues, [Next]_vars PROVE ListStep
<1>1. CASE UNCHANGED vars
  <2>1. Contents' = Contents /\ result' = result
    BY <1>1 DEF vars, memory, sorting, Contents, Sorting, Parting, Stored
  <2> QED BY <2>1, StepStutters
<1>2. ASSUME NEW hint \in 0 .. MaxAlloced, New(hint) PROVE ListStep
  BY <1>2, NewStutters
<1>3. ASSUME NEW index \in 0 .. MaxAlloced, NEW v \in Value, Insert(index, v)
      PROVE  ListStep
  BY <1>3, InsertStep
<1>4. ASSUME NEW index \in 0 .. MaxAlloced + 1, InsertFails(index) PROVE ListStep
  BY <1>4, RefusedStep
<1>5. ASSUME NEW index \in 0 .. MaxAlloced + 1, NEW count \in 0 .. MaxAlloced + 1,
             RemoveRange(index, count)
      PROVE  ListStep
  BY <1>5, RemoveStep DEF Parameters
<1>6. ASSUME NEW index \in 0 .. MaxAlloced + 1, RemoveIndex(index) PROVE ListStep
  BY <1>6, RemoveStep DEF Parameters, RemoveIndex
<1> QED BY <1>1, <1>2, <1>3, <1>4, <1>5, <1>6, DestroyStep, SortStutters,
           CallStep, TurnStep, DivideStep
        DEF Next, SortSteps

(* Every call on the growing array is one operation on the sequence of its *)
(* values, and its quicksort, over all its steps, one that leaves the same *)
(* values in ascending order.                                              *)
THEOREM ArrayRefinesList == ASSUME Parameters PROVE Spec => ImplementsList
<1>1. Init => IInv /\ KeepsValues /\ List!Init
  <2>1. ASSUME Init PROVE List!Init
    BY <2>1, EmptyStored, Quiet DEF Init, List!Init, Sorting, Parting
  <2> QED BY <2>1, InitIInv, InitKeepsValues
<1>2. IInv /\ [Next]_vars => IInv'
  BY NextKeeps
<1>3. IInv /\ KeepsValues /\ [Next]_vars => KeepsValues'
  BY NextKeepsValues
<1>4. IInv /\ IInv' /\ KeepsValues /\ [Next]_vars => ListStep
  BY NextImplements
<1> QED BY <1>1, <1>2, <1>3, <1>4, PTL DEF Spec, ImplementsList, ListStep

-----------------------------------------------------------------------------
(* The stack: its steps are steps of the array. *)
LEMMA StackNextArray ==
  ASSUME Parameters, IInv, [StackNext]_stackVars PROVE [Next]_vars
<1>1. CASE UNCHANGED stackVars
  BY <1>1 DEF stackVars
<1>2. ASSUME NEW hint \in 0 .. MaxAlloced, New(hint) PROVE Next
  BY <1>2 DEF Next
<1>3. /\ length \in 0 .. MaxAlloced /\ length \in 0 .. MaxAlloced + 1
      /\ length = 0 \/ length - 1 \in 0 .. MaxAlloced + 1
  BY DEF IInv, TypeOK, Bounded, WellFormed, Initialised, Parameters
<1>4. ASSUME NEW v \in Value, Push(v) PROVE Next
  BY <1>3, <1>4 DEF Next, Push
<1>5. CASE Pop
  <2>1. PopIndex \in 0 .. Word - 1
    BY <1>3 DEF PopIndex, Parameters
  <2>2. CASE length # 0
    <3>1. PopIndex = length - 1
      BY <1>3, <2>2 DEF PopIndex, Parameters
    <3> QED BY <1>3, <1>5, <2>2, <3>1 DEF Pop, Next
  <2>3. CASE length = 0
    <3>1. PopIndex = Word - 1
      BY <2>3 DEF PopIndex, Parameters
    <3>2. RemoveRange(PopIndex, 1) /\ PopIndex > length /\ 1 \in Nat
      BY <1>5, <2>3, <3>1 DEF Pop, RemoveIndex, Parameters
    <3>3. Outside(PopIndex, 1)
      BY <3>2 DEF Outside
    <3> QED BY <3>2, <3>3 DEF RemoveRange, vars
  <2> QED BY <2>2, <2>3
<1> QED BY <1>1, <1>2, <1>4, <1>5 DEF StackNext, Peek, Next

SeqStackStep == [Stack!Next]_(Stack!vars) /\ (Pop => Stack!Pop)

LEMMA PushAppends ==
  ASSUME Parameters, IInv, IInv', NEW v \in Value, Insert(length, v)
  PROVE  Contents' = Append(Contents, v)
<1>1. ~Sorting /\ ~Sorting'
  BY NotSorting DEF Insert
<1> DEFINE s == Contents
           t == Contents'
<1>2. /\ length \in Nat /\ s \in Seq(Value) /\ Len(s) = length
      /\ \A k \in 1 .. length : s[k] = data[k - 1]
  BY <1>1, StoredSeq, Quiet
<1>3. /\ t \in Seq(Value) /\ Len(t) = length'
      /\ \A k \in 1 .. length' : t[k] = data'[k - 1]
  BY <1>1, StoredSeqNext, QuietNext
<1>4. length \in 0 .. MaxAlloced
  BY DEF IInv, TypeOK, Bounded, WellFormed, Initialised, Parameters
<1>5. /\ length' = length + 1
      /\ \A n \in 0 .. length :
           data'[n] = IF n < length THEN data[n]
                      ELSE IF n = length THEN v ELSE data[n - 1]
  BY <1>4, InsertSlots
<1> HIDE DEF s, t
<1> DEFINE u == Append(s, v)
<1>6. /\ u \in Seq(Value) /\ Len(u) = length + 1
      /\ \A k \in 1 .. length : u[k] = s[k]
      /\ u[length + 1] = v
  BY <1>2, AppendProperties
<1> HIDE DEF u
<1>7. ASSUME NEW k \in 1 .. Len(t) PROVE t[k] = u[k]
  <2>1. k - 1 \in 0 .. length /\ k \in 1 .. length' /\ k \in 1 .. length + 1
    BY <1>2, <1>3, <1>5
  <2>2. t[k] = IF k - 1 < length THEN data[k - 1]
               ELSE IF k - 1 = length THEN v ELSE data[(k - 1) - 1]
    BY <1>3, <1>5, <2>1
  <2>3. CASE k - 1 < length
    <3>1. k \in 1 .. length
      BY <1>2, <2>1, <2>3
    <3> QED BY <1>2, <1>6, <2>2, <2>3, <3>1
  <2>4. CASE k - 1 = length
    <3>1. k = length + 1
      BY <1>2, <2>1, <2>4
    <3>2. t[k] = v
      BY <1>2, <2>2, <2>4
    <3> QED BY <1>6, <3>1, <3>2
  <2>5. k - 1 < length \/ k - 1 = length
    BY <1>2, <2>1
  <2> QED BY <2>3, <2>4, <2>5
<1>8. t = u
  BY <1>3, <1>5, <1>6, <1>7, SeqEqual
<1> QED BY <1>8 DEF s, t, u

LEMMA PushStep ==
  ASSUME Parameters, IInv, IInv', NEW v \in Value, Push(v)
  PROVE  [Stack!Next]_(Stack!vars)
<1>1. CASE Insert(length, v)
  <2>1. Contents' = Append(Contents, v)
    BY <1>1, PushAppends
  <2> QED BY <2>1 DEF Push, Stack!Next, Stack!Push
<1>2. CASE InsertFails(length)
  <2>1. UNCHANGED <<memory, sorting>>
    BY <1>2 DEF InsertFails
  <2>2. Contents' = Contents
    BY <2>1 DEF memory, sorting, Contents, Sorting, Parting, Stored
  <2> QED BY <2>2 DEF Push, Stack!vars
<1> QED BY <1>1, <1>2 DEF Push

(* The top of a stack that is not empty. *)
LEMMA TopRead ==
  ASSUME IInv, ~Sorting, length # 0, NEW answer \in LastSlot
  PROVE  answer = Stack!TopOfItems
<1>1. /\ length \in Nat /\ Stored \in Seq(Value) /\ Len(Stored) = length
      /\ \A k \in 1 .. length : Stored[k] = data[k - 1]
  BY StoredSeq
<1>2. length \in 1 .. length
  BY <1>1
<1>3. Stored # <<>>
  BY <1>1, EmptySeq
<1>4. Stack!TopOfItems = Stored[length]
  BY <1>1, <1>3, Quiet DEF Stack!TopOfItems
<1>5. answer = data[length - 1]
  BY DEF LastSlot
<1> QED BY <1>1, <1>2, <1>4, <1>5

LEMMA PopStep ==
  ASSUME Parameters, ReadsEmpty = FALSE, IInv, IInv', Pop PROVE Stack!Pop
<1>1. /\ ~Sorting /\ ~Sorting' /\ length # 0 /\ top' \in LastSlot
      /\ RemoveRange(PopIndex, 1)
  <2>1. RemoveRange(PopIndex, 1)
    BY DEF Pop, RemoveIndex
  <2> QED BY <2>1, NotSorting DEF RemoveRange, Pop
<1>2. top' = Stack!TopOfItems
  BY <1>1, TopRead
<1>3. PopIndex = length - 1 /\ length \in Nat /\ length - 1 \in Nat
  <2>1. /\ length \in Nat /\ MaxAlloced \in Nat /\ length <= MaxAlloced
        /\ Word \in Nat /\ Word > 2 * MaxAlloced
    BY DEF IInv, TypeOK, Bounded, WellFormed, Initialised, Parameters
  <2>2. length - 1 \in 0 .. Word - 1 /\ length - 1 \in Nat
    BY <1>1, <2>1
  <2>3. (length - 1) % Word = length - 1
    BY <2>1, <2>2
  <2> QED BY <2>1, <2>2, <2>3 DEF PopIndex
<1>4. ~Outside(length - 1, 1)
  <2>1. After(length - 1, 1) = length
    <3>1. /\ MaxAlloced \in Nat /\ length <= MaxAlloced
          /\ Word \in Nat /\ Word > 2 * MaxAlloced
      BY DEF IInv, TypeOK, Bounded, WellFormed, Initialised, Parameters
    <3>2. (length - 1) + 1 = length /\ length \in 0 .. Word - 1
      BY <1>1, <1>3, <3>1
    <3>3. length % Word = length
      BY <3>1, <3>2
    <3> QED BY <3>2, <3>3 DEF After
  <2> QED BY <1>3, <2>1 DEF Outside
<1>5. /\ length' = length - 1
      /\ \A n \in 0 .. length - 1 - 1 :
           data'[n] = IF n < length - 1 THEN data[n] ELSE data[n + 1]
  <2>1. RemoveRange(length - 1, 1) /\ 1 \in Nat
    BY <1>1, <1>3
  <2> QED BY <1>3, <1>4, <2>1, RemovedSlots
<1> DEFINE s == Contents
           t == Contents'
<1>6. /\ s \in Seq(Value) /\ Len(s) = length
      /\ \A k \in 1 .. length : s[k] = data[k - 1]
  BY <1>1, StoredSeq, Quiet
<1>7. /\ t \in Seq(Value) /\ Len(t) = length'
      /\ \A k \in 1 .. length' : t[k] = data'[k - 1]
  BY <1>1, StoredSeqNext, QuietNext
<1> HIDE DEF s, t
<1> DEFINE u == SubSeq(s, 1, length - 1)
<1>8. /\ u \in Seq(Value) /\ Len(u) = length - 1
      /\ \A k \in 1 .. length - 1 : u[k] = s[k]
  <2>1. \A k \in 1 .. length - 1 : s[k] \in Value
    BY <1>3, <1>6, ElementOfSeq
  <2>2. /\ u \in Seq(Value)
        /\ Len(u) = IF 1 <= length - 1 THEN (length - 1) - 1 + 1 ELSE 0
        /\ \A k \in 1 .. (length - 1) - 1 + 1 : u[k] = s[1 + k - 1]
    BY <1>3, <2>1, SubSeqProperties
  <2> QED BY <1>3, <2>2
<1> HIDE DEF u
<1>9. ASSUME NEW k \in 1 .. Len(t) PROVE t[k] = u[k]
  <2>1. /\ k - 1 \in 0 .. length - 1 - 1 /\ k - 1 < length - 1
        /\ k \in 1 .. length /\ k \in 1 .. length' /\ k \in 1 .. length - 1
    BY <1>3, <1>5, <1>7
  <2> QED BY <1>5, <1>6, <1>7, <1>8, <2>1
<1>10. t = u
  BY <1>5, <1>7, <1>8, <1>9, SeqEqual
<1>11. Contents # <<>>
  BY <1>1, <1>6, EmptySeq DEF s
<1>12. Contents' = SubSeq(Contents, 1, Len(Contents) - 1)
  BY <1>6, <1>10 DEF s, t, u
<1> QED BY <1>2, <1>11, <1>12 DEF Stack!Pop

LEMMA NextIsStackStep ==
  ASSUME Parameters, ReadsEmpty = FALSE, IInv, IInv', [StackNext]_stackVars
  PROVE  SeqStackStep
<1>1. Pop => Stack!Pop
  BY PopStep
<1>2. CASE UNCHANGED stackVars
  <2>1. Contents' = Contents /\ top' = top
    BY <1>2 DEF stackVars, vars, memory, sorting, Contents, Sorting, Parting, Stored
  <2> QED BY <1>1, <2>1 DEF SeqStackStep, Stack!vars
<1>3. ASSUME NEW hint \in 0 .. MaxAlloced, New(hint), top' = top
      PROVE  [Stack!Next]_(Stack!vars)
  <2>1. /\ alloced = 0 /\ length' = 0 /\ ~Sorting /\ ~Sorting'
    BY <1>3 DEF New, IInv, SortingExists, sorting, Sorting, Parting
  <2>2. length = 0
    BY <2>1 DEF IInv, TypeOK, WellFormed, Initialised
  <2>3. Contents' = Contents
    BY <2>1, <2>2, EmptyStored, EmptyStoredNext, Quiet, QuietNext
  <2> QED BY <1>3, <2>3 DEF Stack!vars
<1>4. ASSUME Free, top' = top PROVE Stack!Destroy
  <2>1. length' = 0 /\ ~Sorting'
    BY <1>4, NotSorting DEF Free
  <2> QED BY <1>4, <2>1, EmptyStoredNext, QuietNext DEF Stack!Destroy
<1>5. ASSUME NEW v \in Value, Push(v) PROVE [Stack!Next]_(Stack!vars)
  BY <1>5, PushStep
<1>6. ASSUME Peek PROVE Stack!Peek
  <2>1. ~Sorting /\ length # 0 /\ top' \in LastSlot /\ UNCHANGED vars
    BY <1>6 DEF Peek, Idle
  <2>2. top' = Stack!TopOfItems
    BY <2>1, TopRead
  <2>3. Contents' = Contents
    BY <2>1 DEF vars, memory, sorting, Contents, Sorting, Parting, Stored
  <2> QED BY <2>2, <2>3 DEF Stack!Peek
<1> QED BY <1>1, <1>2, <1>3, <1>4, <1>5, <1>6
        DEF StackNext, SeqStackStep, Stack!Next

(* The stack is well formed even when an empty one is popped. *)
THEOREM StackCorrect ==
  ASSUME Parameters PROVE StackSpec => [](TypeOK /\ WellFormed)
<1>1. StackInit => IInv
  BY InitIInv DEF StackInit
<1>2. IInv /\ [StackNext]_stackVars => IInv'
  BY StackNextArray, NextKeeps
<1>3. IInv => TypeOK /\ WellFormed
  BY DEF IInv
<1> QED BY <1>1, <1>2, <1>3, PTL DEF StackSpec

(* As long as no empty stack is read, seqstack.c is a stack: whatever the  *)
(* growth of its block, a pop returns the last value pushed and not yet    *)
(* popped, and takes it away.                                              *)
THEOREM SeqStackRefinesStack ==
  ASSUME Parameters, ReadsEmpty = FALSE PROVE StackSpec => ImplementsStack
<1>1. StackInit => IInv /\ Stack!Init
  <2>1. ASSUME StackInit PROVE Stack!Init
    BY <2>1, EmptyStored, Quiet DEF StackInit, Init, Stack!Init, Sorting, Parting
  <2> QED BY <2>1, InitIInv DEF StackInit
<1>2. IInv /\ [StackNext]_stackVars => IInv'
  BY StackNextArray, NextKeeps
<1>3. IInv /\ IInv' /\ [StackNext]_stackVars =>
        [Stack!Next]_(Stack!vars) /\ [Pop => Stack!Pop]_stackVars
  BY NextIsStackStep DEF SeqStackStep
<1> QED BY <1>1, <1>2, <1>3, PTL DEF StackSpec, ImplementsStack, Stack!Spec

-----------------------------------------------------------------------------
(* The linked lists. *)
NthOf(s, i) == IF i \in 1 .. Len(s) THEN s[i] ELSE NULL

Chain(h, p, s) ==
  /\ s \in Seq(DOMAIN h)
  /\ \A i, j \in 1 .. Len(s) : s[i] = s[j] => i = j
  /\ p = NthOf(s, 1)
  /\ \A i \in 1 .. Len(s) : h[s[i]].next = NthOf(s, i + 1)

\* The instances count a set as this module does.
LEMMA SameCardinality ==
  ASSUME NEW S
  PROVE  /\ Doubly!Cardinality(S) = Cardinality(S)
         /\ Singly!Cardinality(S) = Cardinality(S)
         /\ Sequences!Cardinality(S) = Cardinality(S)
BY DEF Doubly!Cardinality, Singly!Cardinality, Sequences!Cardinality, Cardinality

\* A set of numbers has a least one.
LEMMA LeastOf ==
  ASSUME NEW S, S \subseteq Nat, S # {}
  PROVE  \E i \in S : \A j \in S : i <= j
<1>1. PICK x \in S : \A y \in SetLessThan(x, OpToRel(<, Nat), Nat) : y \notin S
  BY WFMin, NatLessThanWellFounded DEF SetLessThan
<1>2. ASSUME NEW j \in S, ~(x <= j) PROVE FALSE
  <2>1. j \in Nat /\ x \in Nat /\ j < x
    BY <1>2
  <2>2. j \in SetLessThan(x, OpToRel(<, Nat), Nat)
    BY <2>1 DEF SetLessThan, OpToRel
  <2> QED BY <1>1, <1>2, <2>2
<1> QED BY <1>2

\* What holds of 0, and of each number after one it holds of, holds up to n.
LEMMA UpTo ==
  ASSUME NEW n \in Nat, NEW S, S \subseteq 0 .. n, 0 \in S,
         \A k \in 1 .. n : k - 1 \in S => k \in S
  PROVE  S = 0 .. n
<1> SUFFICES ASSUME 0 .. n \ S # {} PROVE FALSE
  OBVIOUS
<1>1. PICK k \in (0 .. n) \ S : \A j \in (0 .. n) \ S : k <= j
  <2>1. (0 .. n) \ S \subseteq Nat
    OBVIOUS
  <2> QED BY <2>1, LeastOf
<1>2. k \in 1 .. n /\ k - 1 \in 0 .. n /\ ~(k <= k - 1)
  BY <1>1
<1>3. k - 1 \in S
  BY <1>1, <1>2
<1> QED BY <1>1, <1>2, <1>3

\* A chain is no longer than there are entries.
LEMMA ChainLength ==
  ASSUME NEW h, NEW p, NEW s, Chain(h, p, s), IsFiniteSet(DOMAIN h)
  PROVE  /\ Cardinality(DOMAIN h) \in Nat
         /\ Len(s) \in 0 .. Cardinality(DOMAIN h)
<1>1. Len(s) \in Nat /\ DOMAIN s = 1 .. Len(s)
  BY LenProperties DEF Chain
<1>2. s \in [1 .. Len(s) -> DOMAIN h]
  BY <1>1, LenProperties, ElementOfSeq DEF Chain
<1>3. s \in Injection(1 .. Len(s), DOMAIN h)
  BY <1>2 DEF Injection, IsInjective, Chain
<1>4. Cardinality(1 .. Len(s)) = Len(s)
  BY <1>1, FS_Interval
<1>5. Cardinality(DOMAIN h) \in Nat
  BY FS_CardinalityType
<1>6. Cardinality(1 .. Len(s)) <= Cardinality(DOMAIN h)
  BY <1>3, FS_Injection
<1> QED BY <1>1, <1>4, <1>5, <1>6

\* Walk meets exactly the entries of a chain.
LEMMA WalkIs ==
  ASSUME NEW h, NEW p, NEW s, Chain(h, p, s), IsFiniteSet(DOMAIN h),
         NULL \notin DOMAIN h
  PROVE  Doubly!Walk(h, p) = s
<1> DEFINE N == Cardinality(DOMAIN h)
           Next1(f, n) == IF f[n - 1] = NULL THEN NULL ELSE h[f[n - 1]].next
           Is(f) == f = [n \in 0 .. N |-> IF n = 0 THEN p ELSE Next1(f, n)]
           at == CHOOSE f : Is(f)
           g == [n \in 0 .. N |-> NthOf(s, n + 1)]
<1>1. N \in Nat /\ Len(s) \in 0 .. N
  BY ChainLength
<1>2. \A i \in 1 .. Len(s) : s[i] \in DOMAIN h /\ s[i] # NULL
  BY ElementOfSeq DEF Chain
<1>3. ASSUME NEW n \in 1 .. N, NEW f, f[n - 1] = NthOf(s, n)
      PROVE  Next1(f, n) = NthOf(s, n + 1)
  <2>1. CASE n <= Len(s)
    BY <1>1, <1>2, <1>3, <2>1 DEF Chain, NthOf
  <2>2. CASE ~(n <= Len(s))
    BY <1>1, <1>3, <2>2 DEF NthOf
  <2> QED BY <2>1, <2>2
<1>4. Is(g)
  <2>1. ASSUME NEW n \in 0 .. N PROVE g[n] = IF n = 0 THEN p ELSE Next1(g, n)
    <3>1. CASE n = 0
      BY <3>1 DEF Chain
    <3>2. CASE n # 0
      <4>1. n \in 1 .. N /\ n - 1 \in 0 .. N /\ (n - 1) + 1 = n
        BY <1>1, <3>2
      <4>2. g[n - 1] = NthOf(s, n)
        BY <4>1
      <4>3. g[n] = NthOf(s, n + 1)
        OBVIOUS
      <4> QED BY <1>3, <4>1, <4>2, <4>3, <3>2
    <3> QED BY <3>1, <3>2
  <2> HIDE DEF Next1
  <2> QED BY <2>1
<1>5. Is(at)
  <2> HIDE DEF Is
  <2> QED BY <1>4
<1>6. \A n \in 0 .. N : at[n] = IF n = 0 THEN p ELSE Next1(at, n)
  <2> HIDE DEF at, Next1
  <2> QED BY <1>5
<1>7. \A n \in 0 .. N : at[n] = NthOf(s, n + 1)
  <2> DEFINE S == {n \in 0 .. N : at[n] = NthOf(s, n + 1)}
  <2> HIDE DEF at
  <2>1. 0 \in S
    BY <1>1, <1>6 DEF Chain
  <2>2. ASSUME NEW k \in 1 .. N, k - 1 \in S PROVE k \in S
    <3>1. k \in 0 .. N /\ k # 0 /\ (k - 1) + 1 = k
      BY <1>1
    <3>2. at[k - 1] = NthOf(s, k)
      BY <2>2, <3>1
    <3>3. Next1(at, k) = NthOf(s, k + 1)
      BY <1>3, <3>2
    <3> QED BY <1>6, <3>1, <3>3
  <2>3. S = 0 .. N
    <3>1. S \subseteq 0 .. N
      OBVIOUS
    <3> HIDE DEF S
    <3> QED BY <1>1, <2>1, <2>2, <3>1, UpTo
  <2> QED BY <2>3
<1> DEFINE steps == {n \in 0 .. N : at[n] # NULL}
<1>8. steps = 0 .. Len(s) - 1
  <2> HIDE DEF at
  <2>1. ASSUME NEW n \in 0 .. N PROVE at[n] # NULL <=> n < Len(s)
    BY <1>1, <1>2, <1>7 DEF NthOf
  <2> QED BY <1>1, <2>1
<1>9. Cardinality(steps) = Len(s)
  <2> HIDE DEF steps
  <2> DEFINE m == Len(s) - 1
  <2>1. 0 \in Int /\ m \in Int /\ m + 1 = Len(s) /\ (m < 0 => Len(s) = 0)
    BY <1>1
  <2> HIDE DEF m
  <2>2. Cardinality(0 .. m) = Len(s)
    <3>1. Cardinality(0 .. m) = IF 0 > m THEN 0 ELSE m - 0 + 1
      BY <2>1, FS_Interval
    <3> QED BY <2>1, <3>1
  <2>3. Cardinality(0 .. Len(s) - 1) = Len(s)
    BY <2>2 DEF m
  <2> QED BY <2>3, <1>8
<1>10. Doubly!Walk(h, p) = [i \in 1 .. Cardinality(steps) |-> at[i - 1]]
  BY DEF Doubly!Walk, Doubly!Cardinality, Cardinality
<1>11. Doubly!Walk(h, p) = [i \in 1 .. Len(s) |-> s[i]]
  <2>1. ASSUME NEW i \in 1 .. Len(s) PROVE at[i - 1] = s[i]
    <3> HIDE DEF at
    <3>1. i - 1 \in 0 .. N /\ (i - 1) + 1 = i
      BY <1>1
    <3> QED BY <3>1, <1>7 DEF NthOf
  <2> HIDE DEF at, steps
  <2> QED BY <1>9, <1>10, <2>1
<1>12. s = [i \in 1 .. Len(s) |-> s[i]]
  BY LenProperties DEF Chain
<1> QED BY <1>11, <1>12

\* Walk is one operator in both lists.
LEMMA SameWalk == ASSUME NEW h, NEW p PROVE Singly!Walk(h, p) = Doubly!Walk(h, p)
BY DEF Singly!Walk, Doubly!Walk, Singly!Cardinality, Doubly!Cardinality

Glue(s, t) == s \o t
IsGlue(S, s, t) ==
  /\ Glue(s, t) \in Seq(S)
  /\ Len(Glue(s, t)) = Len(s) + Len(t)
  /\ \A i \in 1 .. Len(s) : Glue(s, t)[i] = s[i]
  /\ \A i \in 1 .. Len(t) : Glue(s, t)[Len(s) + i] = t[i]
Ahead(c, s) == Glue(<<c>>, s)
IsAhead(S, c, s) ==
  /\ Ahead(c, s) \in Seq(S)
  /\ Len(Ahead(c, s)) = Len(s) + 1
  /\ Ahead(c, s)[1] = c
  /\ \A i \in 2 .. Len(s) + 1 : Ahead(c, s)[i] = s[i - 1]
Back(h, s) == \A i \in 1 .. Len(s) : h[s[i]].prev = NthOf(s, i - 1)
Cut(s, k) == [i \in 1 .. Len(s) - 1 |-> IF i < k THEN s[i] ELSE s[i + 1]]
Vals(h, s) == [i \in 1 .. Len(s) |-> h[s[i]].data]

\* A function on 1 .. n is a sequence of length n.
LEMMA SeqMade ==
  ASSUME NEW S, NEW n \in Nat, NEW f \in [1 .. n -> S]
  PROVE  f \in Seq(S) /\ Len(f) = n
<1>1. f \in Seq(S)
  BY SeqDef
<1> QED BY <1>1, LenProperties

\* What a sequence is made of.
LEMMA SeqIs ==
  ASSUME NEW S, NEW s \in Seq(S)
  PROVE  /\ Len(s) \in Nat
         /\ DOMAIN s = 1 .. Len(s)
         /\ s \in [1 .. Len(s) -> S]
         /\ \A i \in 1 .. Len(s) : s[i] \in S
BY LenProperties, ElementOfSeq

\* The length and the members of two sequences joined.
LEMMA GlueFacts ==
  ASSUME NEW S, NEW s \in Seq(S), NEW t \in Seq(S)
  PROVE  IsGlue(S, s, t)
<1>1. Len(s) \in Nat /\ Len(t) \in Nat
  BY SeqIs
<1>2. /\ Glue(s, t) \in Seq(S)
      /\ Len(Glue(s, t)) = Len(s) + Len(t)
      /\ \A i \in 1 .. Len(s) + Len(t) :
           Glue(s, t)[i] = IF i <= Len(s) THEN s[i] ELSE t[i - Len(s)]
  BY ConcatProperties DEF Glue
<1>3. ASSUME NEW i \in 1 .. Len(t) PROVE Glue(s, t)[Len(s) + i] = t[i]
  <2>1. Len(s) + i \in 1 .. Len(s) + Len(t) /\ ~(Len(s) + i <= Len(s))
        /\ (Len(s) + i) - Len(s) = i
    BY <1>1
  <2> QED BY <1>2, <2>1
<1> QED BY <1>1, <1>2, <1>3 DEF IsGlue

\* A sequence of one member.
LEMMA One ==
  ASSUME NEW S, NEW c \in S
  PROVE  <<c>> \in Seq(S) /\ Len(<<c>>) = 1 /\ <<c>>[1] = c
OBVIOUS

\* The length and the members of a sequence with one more in front.
LEMMA AheadFacts ==
  ASSUME NEW S, NEW s \in Seq(S), NEW c \in S
  PROVE  IsAhead(S, c, s)
<1> DEFINE o == <<c>>
<1>1. o \in Seq(S) /\ Len(o) = 1 /\ o[1] = c
  BY One
<1>2. Len(s) \in Nat
  BY SeqIs
<1> HIDE DEF o
<1>3. /\ Glue(o, s) \in Seq(S)
      /\ Len(Glue(o, s)) = 1 + Len(s)
      /\ \A i \in 1 .. 1 : Glue(o, s)[i] = o[i]
      /\ \A i \in 1 .. Len(s) : Glue(o, s)[1 + i] = s[i]
  <2>1. IsGlue(S, o, s)
    BY <1>1, GlueFacts
  <2> QED BY <1>1, <2>1 DEF IsGlue
<1>4. ASSUME NEW i \in 2 .. Len(s) + 1 PROVE Glue(o, s)[i] = s[i - 1]
  <2>1. i - 1 \in 1 .. Len(s) /\ 1 + (i - 1) = i
    BY <1>2
  <2> QED BY <1>3, <2>1
<1>5. /\ Glue(o, s) \in Seq(S) /\ Len(Glue(o, s)) = Len(s) + 1 /\ Glue(o, s)[1] = c
  BY <1>1, <1>2, <1>3
<1> QED BY <1>4, <1>5 DEF o, Ahead, IsAhead

\* The length and the members of a sequence without its k-th.
LEMMA CutFacts ==
  ASSUME NEW S, NEW s \in Seq(S), NEW k \in 1 .. Len(s)
  PROVE  /\ Cut(s, k) \in Seq(S)
         /\ Len(Cut(s, k)) = Len(s) - 1
         /\ \A i \in 1 .. Len(s) - 1 : Cut(s, k)[i] = IF i < k THEN s[i] ELSE s[i + 1]
         /\ Cut(s, k) = RemoveAt(s, k)
<1>1. Len(s) \in Nat /\ \A i \in 1 .. Len(s) : s[i] \in S
  BY SeqIs
<1>2. Cut(s, k) \in [1 .. Len(s) - 1 -> S]
  BY <1>1 DEF Cut
<1>4. Cut(s, k) \in Seq(S) /\ Len(Cut(s, k)) = Len(s) - 1
  <2> DEFINE n == Len(s) - 1
  <2>1. n \in Nat
    BY <1>1
  <2> HIDE DEF n
  <2> DEFINE q == Cut(s, k)
  <2>2. q \in [1 .. n -> S]
    BY <1>2 DEF n
  <2> HIDE DEF q
  <2>3. q \in Seq(S)
    BY <2>1, <2>2, SeqDef
  <2>4. Len(q) = n
    BY <2>1, <2>2, <2>3, LenProperties
  <2> QED BY <2>3, <2>4 DEF n, q
<1> DEFINE before == SubSeq(s, 1, k - 1)
           after == SubSeq(s, k + 1, Len(s))
<1>5. before \in Seq(S) /\ Len(before) = k - 1 /\ \A i \in 1 .. k - 1 : before[i] = s[i]
  BY <1>1, SubSeqProperties
<1>6. /\ after \in Seq(S) /\ Len(after) = Len(s) - k
      /\ \A i \in 1 .. Len(s) - k : after[i] = s[k + i]
  BY <1>1, SubSeqProperties
<1> HIDE DEF before, after
<1>7. /\ Glue(before, after) \in Seq(S)
      /\ Len(Glue(before, after)) = Len(s) - 1
      /\ \A i \in 1 .. Len(s) - 1 :
           Glue(before, after)[i] = IF i < k THEN s[i] ELSE s[i + 1]
  <2>1. /\ Glue(before, after) \in Seq(S)
        /\ Len(Glue(before, after)) = (k - 1) + (Len(s) - k)
        /\ \A i \in 1 .. k - 1 : Glue(before, after)[i] = s[i]
        /\ \A i \in 1 .. Len(s) - k : Glue(before, after)[(k - 1) + i] = s[k + i]
    <3>1. /\ Glue(before, after) \in Seq(S)
          /\ Len(Glue(before, after)) = Len(before) + Len(after)
          /\ \A i \in 1 .. Len(before) : Glue(before, after)[i] = before[i]
          /\ \A i \in 1 .. Len(after) : Glue(before, after)[Len(before) + i] = after[i]
      <4>1. before \in Seq(S) /\ after \in Seq(S)
        BY <1>5, <1>6
      <4>2. IsGlue(S, before, after)
        BY <4>1, GlueFacts
      <4> QED BY <4>2 DEF IsGlue
    <3> QED BY <1>5, <1>6, <3>1
  <2>2. ASSUME NEW i \in 1 .. Len(s) - 1, ~(i < k) PROVE Glue(before, after)[i] = s[i + 1]
    <3>1. i - (k - 1) \in 1 .. Len(s) - k /\ (k - 1) + (i - (k - 1)) = i
          /\ k + (i - (k - 1)) = i + 1
      BY <1>1, <2>2
    <3> QED BY <2>1, <3>1
  <2>3. ASSUME NEW i \in 1 .. Len(s) - 1, i < k PROVE Glue(before, after)[i] = s[i]
    BY <1>1, <2>1, <2>3
  <2>4. Len(Glue(before, after)) = Len(s) - 1
    BY <1>1, <2>1
  <2> QED BY <2>1, <2>2, <2>3, <2>4
<1>8. Cut(s, k) = Glue(before, after)
  BY <1>1, <1>2, <1>4, <1>7, SeqEqual DEF Cut
<1>9. \A i \in 1 .. Len(s) - 1 : Cut(s, k)[i] = IF i < k THEN s[i] ELSE s[i + 1]
  BY DEF Cut
<1> QED BY <1>4, <1>8, <1>9 DEF RemoveAt, before, after, Glue

\* What is in the range of a sequence.
LEMMA RangeIs ==
  ASSUME NEW S, NEW s \in Seq(S), NEW x
  PROVE  x \in Range(s) <=> \E i \in 1 .. Len(s) : x = s[i]
BY SeqIs DEF Range

\* The range of a sequence is in the set of its members.
LEMMA RangeIn ==
  ASSUME NEW S, NEW s \in Seq(S) PROVE Range(s) \subseteq S
BY SeqIs DEF Range

\* The range without the k-th member, where no member comes twice.
LEMMA RangeCut ==
  ASSUME NEW S, NEW s \in Seq(S), NEW k \in 1 .. Len(s),
         \A i, j \in 1 .. Len(s) : s[i] = s[j] => i = j
  PROVE  Range(Cut(s, k)) = Range(s) \ {s[k]}
<1>1. Len(s) \in Nat
  BY SeqIs
<1>2. /\ Cut(s, k) \in Seq(S)
      /\ Len(Cut(s, k)) = Len(s) - 1
      /\ \A i \in 1 .. Len(s) - 1 : Cut(s, k)[i] = IF i < k THEN s[i] ELSE s[i + 1]
  BY CutFacts
<1>3. ASSUME NEW x, x \in Range(Cut(s, k)) PROVE x \in Range(s) \ {s[k]}
  <2>1. PICK i \in 1 .. Len(s) - 1 : x = Cut(s, k)[i]
    BY <1>2, <1>3, RangeIs
  <2>2. CASE i < k
    <3>1. i \in 1 .. Len(s) /\ i # k /\ x = s[i]
      BY <1>1, <1>2, <2>1, <2>2
    <3> QED BY <3>1, RangeIs
  <2>3. CASE ~(i < k)
    <3>1. i + 1 \in 1 .. Len(s) /\ i + 1 # k /\ x = s[i + 1]
      BY <1>1, <1>2, <2>1, <2>3
    <3> QED BY <3>1, RangeIs
  <2> QED BY <2>2, <2>3
<1>4. ASSUME NEW x, x \in Range(s) \ {s[k]} PROVE x \in Range(Cut(s, k))
  <2>1. PICK i \in 1 .. Len(s) : x = s[i]
    BY <1>4, RangeIs
  <2>2. i # k
    BY <1>4, <2>1
  <2>3. CASE i < k
    <3>1. i \in 1 .. Len(s) - 1 /\ x = Cut(s, k)[i]
      BY <1>1, <1>2, <2>1, <2>3
    <3> QED BY <1>2, <3>1, RangeIs
  <2>4. CASE ~(i < k)
    <3>1. i - 1 \in 1 .. Len(s) - 1 /\ ~(i - 1 < k) /\ (i - 1) + 1 = i
      BY <1>1, <2>2, <2>4
    <3>2. x = Cut(s, k)[i - 1]
      BY <1>2, <2>1, <3>1
    <3> QED BY <1>2, <3>1, <3>2, RangeIs
  <2> QED BY <2>3, <2>4
<1> QED BY <1>3, <1>4

\* The range of two sequences joined.
LEMMA RangeJoined ==
  ASSUME NEW S, NEW s \in Seq(S), NEW t \in Seq(S)
  PROVE  Range(Glue(s, t)) = Range(s) \cup Range(t)
<1>1. Len(s) \in Nat /\ Len(t) \in Nat
  BY SeqIs
<1>2. /\ Glue(s, t) \in Seq(S)
      /\ Len(Glue(s, t)) = Len(s) + Len(t)
      /\ \A i \in 1 .. Len(s) : Glue(s, t)[i] = s[i]
      /\ \A i \in 1 .. Len(t) : Glue(s, t)[Len(s) + i] = t[i]
  <2>1. IsGlue(S, s, t)
    BY GlueFacts
  <2> QED BY <2>1 DEF IsGlue
<1>3. ASSUME NEW x, x \in Range(Glue(s, t)) PROVE x \in Range(s) \cup Range(t)
  <2>1. PICK i \in 1 .. Len(s) + Len(t) : x = Glue(s, t)[i]
    <3>1. \E i \in 1 .. Len(Glue(s, t)) : x = Glue(s, t)[i]
      <4>1. Glue(s, t) \in Seq(S)
        BY <1>2
      <4> QED BY <1>3, <4>1, RangeIs
    <3> QED BY <1>2, <3>1
  <2>2. CASE i <= Len(s)
    <3>1. i \in 1 .. Len(s) /\ x = s[i]
      BY <1>1, <1>2, <2>1, <2>2
    <3> QED BY <3>1, RangeIs
  <2>3. CASE ~(i <= Len(s))
    <3>1. i - Len(s) \in 1 .. Len(t) /\ Len(s) + (i - Len(s)) = i
      BY <1>1, <2>3
    <3>2. x = t[i - Len(s)]
      BY <1>2, <2>1, <3>1
    <3> QED BY <3>1, <3>2, RangeIs
  <2> QED BY <2>2, <2>3
<1>4. ASSUME NEW x, x \in Range(s) PROVE x \in Range(Glue(s, t))
  <2>1. PICK i \in 1 .. Len(s) : x = s[i]
    BY <1>4, RangeIs
  <2>2. i \in 1 .. Len(s) + Len(t) /\ x = Glue(s, t)[i]
    BY <1>1, <1>2, <2>1
  <2> QED BY <1>2, <2>2, RangeIs
<1>5. ASSUME NEW x, x \in Range(t) PROVE x \in Range(Glue(s, t))
  <2>1. PICK i \in 1 .. Len(t) : x = t[i]
    BY <1>5, RangeIs
  <2>2. Len(s) + i \in 1 .. Len(s) + Len(t) /\ x = Glue(s, t)[Len(s) + i]
    BY <1>1, <1>2, <2>1
  <2> QED BY <1>2, <2>2, RangeIs
<1> QED BY <1>3, <1>4, <1>5

\* The range of a sequence with one more in front.
LEMMA RangeCons ==
  ASSUME NEW S, NEW s \in Seq(S), NEW c \in S
  PROVE  Range(Ahead(c, s)) = Range(s) \cup {c}
<1> DEFINE o == <<c>>
<1>1. o \in Seq(S) /\ Len(o) = 1 /\ o[1] = c
  BY One
<1> HIDE DEF o
<1>2. \A x : x \in Range(o) <=> \E i \in 1 .. Len(o) : x = o[i]
  BY <1>1, RangeIs
<1>3. Range(o) = {c}
  BY <1>1, <1>2
<1>4. Range(Glue(o, s)) = Range(o) \cup Range(s)
  BY <1>1, RangeJoined
<1> QED BY <1>3, <1>4 DEF o, Ahead

\* The entries of a chain, and that there is a way from each to the next.
LEMMA ChainFacts ==
  ASSUME NEW h, NEW p, NEW s, Chain(h, p, s)
  PROVE  /\ s \in Seq(DOMAIN h)
         /\ Len(s) \in Nat
         /\ \A i \in 1 .. Len(s) : s[i] \in DOMAIN h
         /\ \A i, j \in 1 .. Len(s) : s[i] = s[j] => i = j
         /\ p = IF Len(s) = 0 THEN NULL ELSE s[1]
         /\ \A i \in 1 .. Len(s) :
              h[s[i]].next = IF i = Len(s) THEN NULL ELSE s[i + 1]
<1>1. s \in Seq(DOMAIN h) /\ Len(s) \in Nat /\ \A i \in 1 .. Len(s) : s[i] \in DOMAIN h
  BY SeqIs DEF Chain
<1>2. p = IF Len(s) = 0 THEN NULL ELSE s[1]
  BY <1>1 DEF Chain, NthOf
<1>3. ASSUME NEW i \in 1 .. Len(s)
      PROVE h[s[i]].next = IF i = Len(s) THEN NULL ELSE s[i + 1]
  BY <1>1 DEF Chain, NthOf
<1> QED BY <1>1, <1>2, <1>3 DEF Chain

\* What makes a chain, without NthOf.
LEMMA MakeChain ==
  ASSUME NEW h, NEW p, NEW s \in Seq(DOMAIN h),
         \A i, j \in 1 .. Len(s) : s[i] = s[j] => i = j,
         p = IF Len(s) = 0 THEN NULL ELSE s[1],
         \A i \in 1 .. Len(s) :
           h[s[i]].next = IF i = Len(s) THEN NULL ELSE s[i + 1]
  PROVE  Chain(h, p, s)
<1>1. Len(s) \in Nat
  BY SeqIs
<1>2. p = NthOf(s, 1)
  BY <1>1 DEF NthOf
<1>3. ASSUME NEW i \in 1 .. Len(s) PROVE h[s[i]].next = NthOf(s, i + 1)
  BY <1>1 DEF NthOf
<1> QED BY <1>2, <1>3 DEF Chain

\* A sequence whose members are in T is a sequence over T.
LEMMA InAnother ==
  ASSUME NEW S, NEW T, NEW s \in Seq(S), \A i \in 1 .. Len(s) : s[i] \in T
  PROVE  s \in Seq(T)
<1> DEFINE n == Len(s)
<1>1. n \in Nat /\ s \in [1 .. n -> S]
  BY SeqIs
<1>2. s \in [1 .. n -> T]
  BY <1>1
<1> HIDE DEF n
<1> QED BY <1>1, <1>2, SeqDef

\* A chain survives what leaves the next links of its entries alone.
LEMMA ChainFrame ==
  ASSUME NEW h, NEW p, NEW s, Chain(h, p, s), NEW g,
         \A i \in 1 .. Len(s) : s[i] \in DOMAIN g /\ g[s[i]].next = h[s[i]].next
  PROVE  Chain(g, p, s)
<1>1. s \in Seq(DOMAIN g)
  BY ChainFacts, InAnother
<1> QED BY <1>1 DEF Chain

\* So do the prev links along it.
LEMMA BackFrame ==
  ASSUME NEW h, NEW s, Back(h, s), NEW g,
         \A i \in 1 .. Len(s) : g[s[i]].prev = h[s[i]].prev
  PROVE  Back(g, s)
BY DEF Back

\* The chain of no entries.
LEMMA EmptyChain == ASSUME NEW h PROVE Chain(h, NULL, <<>>) /\ Back(h, <<>>)
<1>1. <<>> \in Seq(DOMAIN h) /\ Len(<<>>) = 0
  OBVIOUS
<1>2. Chain(h, NULL, <<>>)
  BY <1>1 DEF Chain, NthOf
<1> QED BY <1>1, <1>2 DEF Back

\* An entry in front of a chain.
LEMMA ChainCons ==
  ASSUME NEW h, NEW p, NEW s, Chain(h, p, s), NEW g, NEW c \in DOMAIN g,
         \A i \in 1 .. Len(s) :
           /\ s[i] # c
           /\ s[i] \in DOMAIN g
           /\ g[s[i]].next = h[s[i]].next,
         g[c].next = p
  PROVE  Chain(g, c, Ahead(c, s))
<1> DEFINE t == Ahead(c, s)
<1>1. /\ Len(s) \in Nat
      /\ \A i, j \in 1 .. Len(s) : s[i] = s[j] => i = j
      /\ p = IF Len(s) = 0 THEN NULL ELSE s[1]
      /\ \A i \in 1 .. Len(s) : h[s[i]].next = IF i = Len(s) THEN NULL ELSE s[i + 1]
  BY ChainFacts
<1>2. s \in Seq(DOMAIN g)
  BY ChainFacts, InAnother
<1> DEFINE S == DOMAIN g
<1> HIDE DEF S, t
<1>3. /\ t \in Seq(S)
      /\ Len(t) = Len(s) + 1
      /\ t[1] = c
      /\ \A i \in 2 .. Len(s) + 1 : t[i] = s[i - 1]
  <2>1. s \in Seq(S) /\ c \in S
    BY <1>2 DEF S
  <2>2. IsAhead(S, c, s)
    BY <2>1, AheadFacts
  <2> QED BY <2>2 DEF t, IsAhead
<1>4. ASSUME NEW i \in 1 .. Len(t), NEW j \in 1 .. Len(t), t[i] = t[j] PROVE i = j
  <2>1. \A m \in 1 .. Len(t) : m = 1 \/ (m - 1 \in 1 .. Len(s) /\ t[m] = s[m - 1])
    BY <1>1, <1>3
  <2>2. \A m \in 1 .. Len(s) : s[m] # c
    OBVIOUS
  <2>3. CASE i = 1 \/ j = 1
    BY <1>3, <1>4, <2>1, <2>2, <2>3
  <2>4. CASE i # 1 /\ j # 1
    <3>1. /\ i - 1 \in 1 .. Len(s) /\ t[i] = s[i - 1]
          /\ j - 1 \in 1 .. Len(s) /\ t[j] = s[j - 1]
      BY <2>1, <2>4
    <3>2. s[i - 1] = s[j - 1]
      BY <1>4, <3>1
    <3>3. i - 1 = j - 1
      BY <1>1, <3>1, <3>2
    <3>4. i \in Int /\ j \in Int
      BY <1>1, <1>3
    <3> QED BY <3>3, <3>4
  <2> QED BY <2>3, <2>4
<1>5. ASSUME NEW i \in 1 .. Len(t)
      PROVE g[t[i]].next = IF i = Len(t) THEN NULL ELSE t[i + 1]
  <2>1. CASE i = 1
    <3>1. Len(s) > 0 => t[2] = s[1]
      BY <1>1, <1>3
    <3> QED BY <1>1, <1>3, <2>1, <3>1
  <2>2. CASE i # 1
    <3>1. i - 1 \in 1 .. Len(s) /\ t[i] = s[i - 1] /\ (i = Len(t) <=> i - 1 = Len(s))
      BY <1>1, <1>3, <2>2
    <3>2. i # Len(t) => t[i + 1] = s[(i - 1) + 1]
      BY <1>1, <1>3, <2>2
    <3> QED BY <1>1, <3>1, <3>2
  <2> QED BY <2>1, <2>2
<1>6. c = IF Len(t) = 0 THEN NULL ELSE t[1]
  BY <1>1, <1>3
<1>7. Chain(g, c, t)
  BY <1>3, <1>4, <1>5, <1>6, MakeChain DEF S
<1> QED BY <1>7 DEF t

\* The prev links with an entry in front.
LEMMA BackCons ==
  ASSUME NEW h, NEW p, NEW s, Chain(h, p, s), Back(h, s), NEW g, NEW c,
         g[c].prev = NULL,
         \A i \in 1 .. Len(s) : g[s[i]].prev = IF i = 1 THEN c ELSE h[s[i]].prev
  PROVE  Back(g, Ahead(c, s))
<1> DEFINE t == Ahead(c, s)
           S == DOMAIN h \cup {c}
<1>1. Len(s) \in Nat
  BY ChainFacts
<1>2. s \in Seq(S) /\ c \in S
  BY ChainFacts, InAnother
<1> HIDE DEF S, t
<1>3. /\ Len(t) = Len(s) + 1
      /\ t[1] = c
      /\ \A i \in 2 .. Len(s) + 1 : t[i] = s[i - 1]
  <2>1. IsAhead(S, c, s)
    BY <1>2, AheadFacts
  <2> QED BY <2>1 DEF t, IsAhead
<1> HIDE DEF t
<1>4. ASSUME NEW i \in 1 .. Len(t) PROVE g[t[i]].prev = NthOf(t, i - 1)
  <2>1. CASE i = 1
    BY <1>1, <1>3, <2>1 DEF NthOf
  <2>2. CASE i = 2
    BY <1>1, <1>3, <2>2 DEF NthOf
  <2>3. CASE i > 2
    <3>1. i - 1 \in 1 .. Len(s) /\ i - 1 # 1 /\ (i - 1) - 1 \in 1 .. Len(s)
          /\ i - 1 \in 1 .. Len(t) /\ t[i] = s[i - 1] /\ t[i - 1] = s[(i - 1) - 1]
      BY <1>1, <1>3, <2>3
    <3>2. h[s[i - 1]].prev = s[(i - 1) - 1]
      BY <3>1 DEF Back, NthOf
    <3> QED BY <3>1, <3>2 DEF NthOf
  <2> QED BY <1>3, <1>1, <2>1, <2>2, <2>3
<1> QED BY <1>4 DEF Back, t

\* An entry is taken out of a chain.
LEMMA ChainCut ==
  ASSUME NEW h, NEW p, NEW s, Chain(h, p, s), NEW k \in 1 .. Len(s), NEW g,
         \A i \in 1 .. Len(s) :
           i # k => /\ s[i] \in DOMAIN g
                    /\ g[s[i]].next = IF i = k - 1 THEN h[s[k]].next ELSE h[s[i]].next
  PROVE  Chain(g, IF k = 1 THEN h[s[k]].next ELSE p, Cut(s, k))
<1> DEFINE t == Cut(s, k)
<1>1. /\ s \in Seq(DOMAIN h)
      /\ Len(s) \in Nat
      /\ \A i, j \in 1 .. Len(s) : s[i] = s[j] => i = j
      /\ p = IF Len(s) = 0 THEN NULL ELSE s[1]
      /\ \A i \in 1 .. Len(s) : h[s[i]].next = IF i = Len(s) THEN NULL ELSE s[i + 1]
  BY ChainFacts
<1>2. /\ t \in Seq(DOMAIN h)
      /\ Len(t) = Len(s) - 1
      /\ \A i \in 1 .. Len(s) - 1 : t[i] = IF i < k THEN s[i] ELSE s[i + 1]
  BY <1>1, CutFacts
<1> HIDE DEF t
<1>3. t \in Seq(DOMAIN g)
  <2>1. ASSUME NEW i \in 1 .. Len(t) PROVE t[i] \in DOMAIN g
    BY <1>1, <1>2
  <2> QED BY <1>2, <2>1, InAnother
<1>4. ASSUME NEW i \in 1 .. Len(t), NEW j \in 1 .. Len(t), t[i] = t[j] PROVE i = j
  <2> DEFINE m(n) == IF n < k THEN n ELSE n + 1
  <2>1. \A n \in 1 .. Len(t) : m(n) \in 1 .. Len(s) /\ t[n] = s[m(n)]
    BY <1>1, <1>2
  <2>2. m(i) = m(j)
    <3> HIDE DEF m
    <3> QED BY <1>1, <1>4, <2>1
  <2> QED BY <1>1, <1>2, <2>2
<1>5. ASSUME NEW i \in 1 .. Len(t)
      PROVE g[t[i]].next = IF i = Len(t) THEN NULL ELSE t[i + 1]
  <2>1. CASE i < k - 1
    <3>1. i \in 1 .. Len(s) /\ i # k /\ i # k - 1 /\ i # Len(s) /\ i # Len(t) /\ t[i] = s[i]
          /\ t[i + 1] = s[i + 1]
      BY <1>1, <1>2, <2>1
    <3> QED BY <1>1, <3>1
  <2>2. CASE i = k - 1
    <3>1. i \in 1 .. Len(s) /\ i # k /\ t[i] = s[i] /\ (i = Len(t) <=> k = Len(s))
      BY <1>1, <1>2, <2>2
    <3>2. i # Len(t) => t[i + 1] = s[k + 1]
      BY <1>1, <1>2, <2>2
    <3> QED BY <1>1, <2>2, <3>1, <3>2
  <2>3. CASE i >= k
    <3>1. i + 1 \in 1 .. Len(s) /\ i + 1 # k /\ i + 1 # k - 1 /\ t[i] = s[i + 1]
          /\ (i = Len(t) <=> i + 1 = Len(s))
      BY <1>1, <1>2, <2>3
    <3>2. i # Len(t) => t[i + 1] = s[(i + 1) + 1]
      BY <1>1, <1>2, <2>3
    <3> QED BY <1>1, <3>1, <3>2
  <2> QED BY <1>1, <1>2, <2>1, <2>2, <2>3
<1>6. (IF k = 1 THEN h[s[k]].next ELSE p) = IF Len(t) = 0 THEN NULL ELSE t[1]
  <2>1. CASE k = 1
    <3>1. Len(t) = 0 <=> k = Len(s)
      BY <1>1, <1>2, <2>1
    <3>2. Len(t) # 0 => t[1] = s[k + 1]
      BY <1>1, <1>2, <2>1
    <3> QED BY <1>1, <2>1, <3>1, <3>2
  <2>2. CASE k # 1
    <3>1. Len(t) # 0 /\ t[1] = s[1] /\ Len(s) # 0
      BY <1>1, <1>2, <2>2
    <3> QED BY <1>1, <2>2, <3>1
  <2> QED BY <2>1, <2>2
<1>7. Chain(g, IF k = 1 THEN h[s[k]].next ELSE p, t)
  BY <1>3, <1>4, <1>5, <1>6, MakeChain
<1> QED BY <1>7 DEF t

\* The prev links without the k-th entry.
LEMMA BackCut ==
  ASSUME NEW h, NEW p, NEW s, Chain(h, p, s), Back(h, s), NEW k \in 1 .. Len(s), NEW g,
         \A i \in 1 .. Len(s) :
           i # k => g[s[i]].prev = IF i = k + 1 THEN h[s[k]].prev ELSE h[s[i]].prev
  PROVE  Back(g, Cut(s, k))
<1> DEFINE t == Cut(s, k)
<1>1. s \in Seq(DOMAIN h) /\ Len(s) \in Nat
  BY ChainFacts
<1>2. /\ Len(t) = Len(s) - 1
      /\ \A i \in 1 .. Len(s) - 1 : t[i] = IF i < k THEN s[i] ELSE s[i + 1]
  BY <1>1, CutFacts
<1> HIDE DEF t
<1>3. \A i \in 1 .. Len(s) : h[s[i]].prev = IF i = 1 THEN NULL ELSE s[i - 1]
  BY <1>1 DEF Back, NthOf
<1>4. ASSUME NEW i \in 1 .. Len(t)
      PROVE g[t[i]].prev = IF i = 1 THEN NULL ELSE t[i - 1]
  <2>1. CASE i < k
    <3>1. i \in 1 .. Len(s) /\ i # k /\ i # k + 1
      BY <1>1, <1>2, <2>1
    <3>2. t[i] = s[i]
      BY <1>1, <1>2, <2>1
    <3>3. i # 1 => i - 1 \in 1 .. Len(s) - 1 /\ i - 1 < k
      BY <1>1, <1>2, <2>1
    <3>4. i # 1 => t[i - 1] = s[i - 1]
      BY <1>2, <3>3
    <3> QED BY <1>3, <3>1, <3>2, <3>4
  <2>2. CASE i = k
    <3>1. i + 1 \in 1 .. Len(s) /\ i + 1 # k /\ i + 1 = k + 1
      BY <1>1, <1>2, <2>2
    <3>2. t[i] = s[i + 1]
      BY <1>1, <1>2, <2>2
    <3>3. i # 1 => t[i - 1] = s[k - 1]
      BY <1>1, <1>2, <2>2
    <3> QED BY <1>3, <2>2, <3>1, <3>2, <3>3
  <2>3. CASE i > k
    <3>1. i + 1 \in 1 .. Len(s) /\ i + 1 # k /\ i + 1 # k + 1 /\ i + 1 # 1 /\ i # 1
      BY <1>1, <1>2, <2>3
    <3>2. t[i] = s[i + 1]
      BY <1>1, <1>2, <2>3
    <3>3. i - 1 \in 1 .. Len(s) - 1 /\ ~(i - 1 < k) /\ (i - 1) + 1 = (i + 1) - 1
      BY <1>1, <1>2, <2>3
    <3>4. t[i - 1] = s[(i + 1) - 1]
      BY <1>2, <3>3
    <3> QED BY <1>3, <3>1, <3>2, <3>4
  <2> QED BY <1>1, <1>2, <2>1, <2>2, <2>3
<1>5. ASSUME NEW i \in 1 .. Len(t) PROVE g[t[i]].prev = NthOf(t, i - 1)
  BY <1>1, <1>2, <1>4 DEF NthOf
<1> QED BY <1>5 DEF Back, t

\* Two chains become one when the last entry of the first leads to the second.
LEMMA ChainJoin ==
  ASSUME NEW h, NEW p, NEW s, Chain(h, p, s), NEW f, NEW q, NEW t, Chain(f, q, t),
         \A i \in 1 .. Len(s), j \in 1 .. Len(t) : s[i] # t[j],
         NEW g,
         \A i \in 1 .. Len(s) :
           /\ s[i] \in DOMAIN g
           /\ g[s[i]].next = IF i = Len(s) THEN q ELSE h[s[i]].next,
         \A i \in 1 .. Len(t) : t[i] \in DOMAIN g /\ g[t[i]].next = f[t[i]].next
  PROVE  Chain(g, IF Len(s) = 0 THEN q ELSE p, Glue(s, t))
<1> DEFINE u == Glue(s, t)
<1>1. /\ Len(s) \in Nat
      /\ \A i, j \in 1 .. Len(s) : s[i] = s[j] => i = j
      /\ p = IF Len(s) = 0 THEN NULL ELSE s[1]
      /\ \A i \in 1 .. Len(s) : h[s[i]].next = IF i = Len(s) THEN NULL ELSE s[i + 1]
  BY ChainFacts
<1>2. /\ Len(t) \in Nat
      /\ \A i, j \in 1 .. Len(t) : t[i] = t[j] => i = j
      /\ q = IF Len(t) = 0 THEN NULL ELSE t[1]
      /\ \A i \in 1 .. Len(t) : f[t[i]].next = IF i = Len(t) THEN NULL ELSE t[i + 1]
  BY ChainFacts
<1>3. s \in Seq(DOMAIN g) /\ t \in Seq(DOMAIN g)
  <2>1. s \in Seq(DOMAIN h) /\ t \in Seq(DOMAIN f)
    BY ChainFacts
  <2> QED BY <2>1, InAnother
<1>4. /\ u \in Seq(DOMAIN g)
      /\ Len(u) = Len(s) + Len(t)
      /\ \A i \in 1 .. Len(s) : u[i] = s[i]
      /\ \A i \in 1 .. Len(t) : u[Len(s) + i] = t[i]
  <2>1. IsGlue(DOMAIN g, s, t)
    BY <1>3, GlueFacts
  <2> QED BY <2>1 DEF u, IsGlue
<1> HIDE DEF u
<1>5. \A i \in 1 .. Len(u) : i > Len(s) => /\ i - Len(s) \in 1 .. Len(t)
                                           /\ u[i] = t[i - Len(s)]
  <2> SUFFICES ASSUME NEW i \in 1 .. Len(u), i > Len(s)
               PROVE  i - Len(s) \in 1 .. Len(t) /\ u[i] = t[i - Len(s)]
    OBVIOUS
  <2>1. i - Len(s) \in 1 .. Len(t) /\ Len(s) + (i - Len(s)) = i
    BY <1>1, <1>2, <1>4
  <2> QED BY <1>4, <2>1
<1>6. \A i \in 1 .. Len(u) : ~(i > Len(s)) => i \in 1 .. Len(s) /\ u[i] = s[i]
  BY <1>1, <1>2, <1>4
<1>7. ASSUME NEW i \in 1 .. Len(u), NEW j \in 1 .. Len(u), u[i] = u[j] PROVE i = j
  <2>1. CASE i > Len(s) /\ j > Len(s)
    <3>1. /\ i - Len(s) \in 1 .. Len(t) /\ u[i] = t[i - Len(s)]
          /\ j - Len(s) \in 1 .. Len(t) /\ u[j] = t[j - Len(s)]
      BY <1>5, <2>1
    <3>2. i - Len(s) = j - Len(s)
      BY <1>2, <1>7, <3>1
    <3> QED BY <1>1, <3>2
  <2>2. CASE ~(i > Len(s)) /\ ~(j > Len(s))
    BY <1>1, <1>6, <1>7, <2>2
  <2>3. CASE i > Len(s) /\ ~(j > Len(s))
    BY <1>5, <1>6, <1>7, <2>3
  <2>4. CASE ~(i > Len(s)) /\ j > Len(s)
    BY <1>5, <1>6, <1>7, <2>4
  <2> QED BY <2>1, <2>2, <2>3, <2>4
<1>8. ASSUME NEW i \in 1 .. Len(u)
      PROVE g[u[i]].next = IF i = Len(u) THEN NULL ELSE u[i + 1]
  <2>1. CASE i > Len(s)
    <3> DEFINE j == i - Len(s)
    <3>1. j \in 1 .. Len(t) /\ u[i] = t[j] /\ (i = Len(u) <=> j = Len(t))
      <4>1. j \in 1 .. Len(t) /\ u[i] = t[j]
        BY <1>5, <2>1
      <4>2. i = Len(u) <=> j = Len(t)
        BY <1>1, <1>2, <1>4
      <4> QED BY <4>1, <4>2
    <3>2. i # Len(u) => u[i + 1] = t[j + 1]
      <4> SUFFICES ASSUME i # Len(u) PROVE u[i + 1] = t[j + 1]
        OBVIOUS
      <4>0. Len(u) \in Nat
        BY <1>1, <1>2, <1>4
      <4>1. i + 1 \in 1 .. Len(u) /\ i + 1 > Len(s) /\ (i + 1) - Len(s) = j + 1
        BY <1>1, <4>0, <2>1
      <4>2. u[i + 1] = t[(i + 1) - Len(s)]
        BY <1>5, <4>1
      <4> QED BY <4>1, <4>2
    <3> HIDE DEF j
    <3> QED BY <1>2, <3>1, <3>2
  <2>2. CASE i = Len(s)
    <3>1. i \in 1 .. Len(s) /\ u[i] = s[i] /\ (i = Len(u) <=> Len(t) = 0)
      BY <1>1, <1>2, <1>4, <2>2
    <3>2. Len(t) # 0 => u[i + 1] = t[1]
      BY <1>1, <1>2, <1>4, <2>2
    <3> QED BY <1>2, <2>2, <3>1, <3>2
  <2>3. CASE i < Len(s)
    <3>1. i \in 1 .. Len(s) /\ u[i] = s[i] /\ u[i + 1] = s[i + 1] /\ i # Len(u) /\ i # Len(s)
      BY <1>1, <1>2, <1>4, <2>3
    <3> QED BY <1>1, <3>1
  <2> QED BY <1>1, <2>1, <2>2, <2>3
<1>9. (IF Len(s) = 0 THEN q ELSE p) = IF Len(u) = 0 THEN NULL ELSE u[1]
  <2>1. CASE Len(s) = 0
    <3>1. Len(u) = Len(t) /\ (Len(t) # 0 => u[1] = t[1])
      BY <1>1, <1>2, <1>4, <2>1
    <3> QED BY <1>2, <2>1, <3>1
  <2>2. CASE Len(s) # 0
    <3>1. Len(u) # 0 /\ u[1] = s[1]
      BY <1>1, <1>2, <1>4, <2>2
    <3> QED BY <1>1, <2>2, <3>1
  <2> QED BY <2>1, <2>2
<1>10. Chain(g, IF Len(s) = 0 THEN q ELSE p, u)
  BY <1>4, <1>7, <1>8, <1>9, MakeChain
<1> QED BY <1>10 DEF u

\* The prev links of two chains joined.
LEMMA BackJoin ==
  ASSUME NEW S, NEW s \in Seq(S), NEW t \in Seq(S), NEW h, NEW f, Back(h, s), Back(f, t), NEW g,
         \A i \in 1 .. Len(s) : g[s[i]].prev = h[s[i]].prev,
         \A i \in 1 .. Len(t) :
           g[t[i]].prev = IF i = 1 THEN NthOf(s, Len(s)) ELSE f[t[i]].prev
  PROVE  Back(g, Glue(s, t))
<1> DEFINE u == Glue(s, t)
<1>1. Len(s) \in Nat /\ Len(t) \in Nat
  BY SeqIs
<1>2. /\ Len(u) = Len(s) + Len(t)
      /\ \A i \in 1 .. Len(s) : u[i] = s[i]
      /\ \A i \in 1 .. Len(t) : u[Len(s) + i] = t[i]
  <2>1. IsGlue(S, s, t)
    BY GlueFacts
  <2> QED BY <2>1 DEF u, IsGlue
<1> HIDE DEF u
<1>3. ASSUME NEW i \in 1 .. Len(u) PROVE g[u[i]].prev = NthOf(u, i - 1)
  <2>1. CASE i <= Len(s)
    <3>1. i \in 1 .. Len(s) /\ u[i] = s[i] /\ (i # 1 => u[i - 1] = s[i - 1])
      BY <1>1, <1>2, <2>1
    <3>2. h[s[i]].prev = IF i = 1 THEN NULL ELSE s[i - 1]
      BY <1>1, <3>1 DEF Back, NthOf
    <3> QED BY <1>1, <1>2, <3>1, <3>2 DEF NthOf
  <2>2. CASE i = Len(s) + 1
    <3>1. 1 \in 1 .. Len(t) /\ u[i] = t[1] /\ (Len(s) # 0 => u[i - 1] = s[Len(s)])
      BY <1>1, <1>2, <2>2
    <3> QED BY <1>1, <1>2, <2>2, <3>1 DEF NthOf
  <2>3. CASE i > Len(s) + 1
    <3> DEFINE j == i - Len(s)
    <3>1. j \in 1 .. Len(t) /\ j # 1 /\ j - 1 \in 1 .. Len(t) /\ Len(s) + j = i
          /\ Len(s) + (j - 1) = i - 1 /\ i - 1 \in 1 .. Len(u)
      BY <1>1, <1>2, <2>3
    <3> HIDE DEF j
    <3>2. u[i] = t[j] /\ u[i - 1] = t[j - 1]
      BY <1>2, <3>1
    <3>3. f[t[j]].prev = t[j - 1]
      BY <3>1 DEF Back, NthOf
    <3> QED BY <3>1, <3>2, <3>3 DEF NthOf
  <2> QED BY <1>1, <2>1, <2>2, <2>3
<1> QED BY <1>3 DEF Back, u

DHeap(h) == DOMAIN h \subseteq Cell /\ h \in [DOMAIN h -> Doubly!Entry]
SHeap(h) == DOMAIN h \subseteq Cell /\ h \in [DOMAIN h -> Singly!Entry]

\* The fields of a typed heap's entries.
LEMMA DFields ==
  ASSUME NEW h, DHeap(h), NEW c \in DOMAIN h
  PROVE  /\ h[c] \in Doubly!Entry
         /\ h[c].data \in Value
         /\ h[c].prev \in Doubly!Pointer
         /\ h[c].next \in Doubly!Pointer
<1>1. h[c] \in Doubly!Entry
  BY DEF DHeap
<1>2. h[c] \in [data : Value, prev : Doubly!Pointer, next : Doubly!Pointer]
  BY <1>1 DEF Doubly!Entry
<1> QED BY <1>1, <1>2

\* The same of an entry of the singly linked list.
LEMMA SFields ==
  ASSUME NEW h, SHeap(h), NEW c \in DOMAIN h
  PROVE  /\ h[c] \in Singly!Entry
         /\ h[c].data \in Value
         /\ h[c].next \in Singly!Pointer
<1>1. h[c] \in Singly!Entry
  BY DEF SHeap
<1>2. h[c] \in [data : Value, next : Singly!Pointer]
  BY <1>1 DEF Singly!Entry
<1> QED BY <1>1, <1>2

\* What an assignment to a link leaves of a heap.
NextIs(g, h, c, p) ==
  /\ DOMAIN g = DOMAIN h
  /\ \A x \in DOMAIN h : /\ g[x].data = h[x].data
                         /\ g[x].prev = h[x].prev
                         /\ g[x].next = IF x = c THEN p ELSE h[x].next
PrevIs(g, h, c, p) ==
  /\ DOMAIN g = DOMAIN h
  /\ \A x \in DOMAIN h : /\ g[x].data = h[x].data
                         /\ g[x].next = h[x].next
                         /\ g[x].prev = IF x = c THEN p ELSE h[x].prev
NextSIs(g, h, c, p) ==
  /\ DOMAIN g = DOMAIN h
  /\ \A x \in DOMAIN h : /\ g[x].data = h[x].data
                         /\ g[x].next = IF x = c THEN p ELSE h[x].next

\* Assignment to a next field.
LEMMA SetNextD ==
  ASSUME NEW h, DHeap(h), NEW c \in DOMAIN h, NEW p \in Doubly!Pointer
  PROVE  DHeap(Doubly!SetNext(h, c, p)) /\ NextIs(Doubly!SetNext(h, c, p), h, c, p)
<1> DEFINE g == Doubly!SetNext(h, c, p)
<1>1. g = [x \in DOMAIN h |-> IF x = c THEN [h[c] EXCEPT !.next = p] ELSE h[x]]
  BY DEF DHeap, Doubly!SetNext
<1>2. \A x \in DOMAIN h :
        h[x] \in [data : Value, prev : Doubly!Pointer, next : Doubly!Pointer]
  BY DEF DHeap, Doubly!Entry
<1> HIDE DEF g
<1>3. DOMAIN g = DOMAIN h
  BY <1>1
<1>4. ASSUME NEW x \in DOMAIN h
      PROVE  /\ g[x] \in [data : Value, prev : Doubly!Pointer, next : Doubly!Pointer]
             /\ g[x].data = h[x].data
             /\ g[x].prev = h[x].prev
             /\ g[x].next = IF x = c THEN p ELSE h[x].next
  BY <1>1, <1>2
<1>5. g \in [DOMAIN h -> Doubly!Entry]
  BY <1>1, <1>4 DEF Doubly!Entry
<1> QED BY <1>3, <1>4, <1>5 DEF DHeap, NextIs, g

\* Assignment to a prev field.
LEMMA SetPrevD ==
  ASSUME NEW h, DHeap(h), NEW c \in DOMAIN h, NEW p \in Doubly!Pointer
  PROVE  DHeap(Doubly!SetPrev(h, c, p)) /\ PrevIs(Doubly!SetPrev(h, c, p), h, c, p)
<1> DEFINE g == Doubly!SetPrev(h, c, p)
<1>1. g = [x \in DOMAIN h |-> IF x = c THEN [h[c] EXCEPT !.prev = p] ELSE h[x]]
  BY DEF DHeap, Doubly!SetPrev
<1>2. \A x \in DOMAIN h :
        h[x] \in [data : Value, prev : Doubly!Pointer, next : Doubly!Pointer]
  BY DEF DHeap, Doubly!Entry
<1> HIDE DEF g
<1>3. DOMAIN g = DOMAIN h
  BY <1>1
<1>4. ASSUME NEW x \in DOMAIN h
      PROVE  /\ g[x] \in [data : Value, prev : Doubly!Pointer, next : Doubly!Pointer]
             /\ g[x].data = h[x].data
             /\ g[x].next = h[x].next
             /\ g[x].prev = IF x = c THEN p ELSE h[x].prev
  BY <1>1, <1>2
<1>5. g \in [DOMAIN h -> Doubly!Entry]
  BY <1>1, <1>4 DEF Doubly!Entry
<1> QED BY <1>3, <1>4, <1>5 DEF DHeap, PrevIs, g

\* Assignment to a next field of the singly linked list.
LEMMA SetNextS ==
  ASSUME NEW h, SHeap(h), NEW c \in DOMAIN h, NEW p \in Singly!Pointer
  PROVE  SHeap(Singly!SetNext(h, c, p)) /\ NextSIs(Singly!SetNext(h, c, p), h, c, p)
<1> DEFINE g == Singly!SetNext(h, c, p)
<1>1. g = [x \in DOMAIN h |-> IF x = c THEN [h[c] EXCEPT !.next = p] ELSE h[x]]
  BY DEF SHeap, Singly!SetNext
<1>2. \A x \in DOMAIN h : h[x] \in [data : Value, next : Singly!Pointer]
  BY DEF SHeap, Singly!Entry
<1> HIDE DEF g
<1>3. DOMAIN g = DOMAIN h
  BY <1>1
<1>4. ASSUME NEW x \in DOMAIN h
      PROVE  /\ g[x] \in [data : Value, next : Singly!Pointer]
             /\ g[x].data = h[x].data
             /\ g[x].next = IF x = c THEN p ELSE h[x].next
  BY <1>1, <1>2
<1>5. g \in [DOMAIN h -> Singly!Entry]
  BY <1>1, <1>4 DEF Singly!Entry
<1> QED BY <1>3, <1>4, <1>5 DEF SHeap, NextSIs, g

\* What malloc and free leave of a heap.
LEMMA AllocD ==
  ASSUME NEW h, DHeap(h), NEW c \in Cell, c \notin DOMAIN h, NEW e \in Doubly!Entry
  PROVE  /\ DHeap(Doubly!Alloc(h, c, e))
         /\ DOMAIN Doubly!Alloc(h, c, e) = DOMAIN h \cup {c}
         /\ Doubly!Alloc(h, c, e)[c] = e
         /\ \A x \in DOMAIN h : Doubly!Alloc(h, c, e)[x] = h[x]
<1> DEFINE g == Doubly!Alloc(h, c, e)
<1>1. g = [x \in DOMAIN h \cup {c} |-> IF x = c THEN e ELSE h[x]]
  BY DEF Doubly!Alloc
<1> HIDE DEF g
<1>2. /\ DOMAIN g = DOMAIN h \cup {c}
      /\ g[c] = e
      /\ \A x \in DOMAIN h : g[x] = h[x]
  BY <1>1
<1>3. g \in [DOMAIN h \cup {c} -> Doubly!Entry]
  BY <1>1 DEF DHeap
<1> QED BY <1>2, <1>3 DEF DHeap, g

\* The same of malloc and the singly linked list.
LEMMA AllocS ==
  ASSUME NEW h, SHeap(h), NEW c \in Cell, c \notin DOMAIN h, NEW e \in Singly!Entry
  PROVE  /\ SHeap(Singly!Alloc(h, c, e))
         /\ DOMAIN Singly!Alloc(h, c, e) = DOMAIN h \cup {c}
         /\ Singly!Alloc(h, c, e)[c] = e
         /\ \A x \in DOMAIN h : Singly!Alloc(h, c, e)[x] = h[x]
<1> DEFINE g == Singly!Alloc(h, c, e)
<1>1. g = [x \in DOMAIN h \cup {c} |-> IF x = c THEN e ELSE h[x]]
  BY DEF Singly!Alloc
<1> HIDE DEF g
<1>2. /\ DOMAIN g = DOMAIN h \cup {c}
      /\ g[c] = e
      /\ \A x \in DOMAIN h : g[x] = h[x]
  BY <1>1
<1>3. g \in [DOMAIN h \cup {c} -> Singly!Entry]
  BY <1>1 DEF SHeap
<1> QED BY <1>2, <1>3 DEF SHeap, g

\* free of a block.
LEMMA DeallocD ==
  ASSUME NEW h, DHeap(h), NEW c
  PROVE  /\ DHeap(Doubly!Dealloc(h, c))
         /\ DOMAIN Doubly!Dealloc(h, c) = DOMAIN h \ {c}
         /\ \A x \in DOMAIN h \ {c} : Doubly!Dealloc(h, c)[x] = h[x]
<1> DEFINE g == Doubly!Dealloc(h, c)
<1>1. g = [x \in DOMAIN h \ {c} |-> h[x]]
  BY DEF Doubly!Dealloc
<1> HIDE DEF g
<1>2. DOMAIN g = DOMAIN h \ {c} /\ \A x \in DOMAIN h \ {c} : g[x] = h[x]
  BY <1>1
<1>3. g \in [DOMAIN h \ {c} -> Doubly!Entry]
  BY <1>1 DEF DHeap
<1> QED BY <1>2, <1>3 DEF DHeap, g

\* The same of the singly linked list.
LEMMA DeallocS ==
  ASSUME NEW h, SHeap(h), NEW c
  PROVE  /\ SHeap(Singly!Dealloc(h, c))
         /\ DOMAIN Singly!Dealloc(h, c) = DOMAIN h \ {c}
         /\ \A x \in DOMAIN h \ {c} : Singly!Dealloc(h, c)[x] = h[x]
<1> DEFINE g == Singly!Dealloc(h, c)
<1>1. g = [x \in DOMAIN h \ {c} |-> h[x]]
  BY DEF Singly!Dealloc
<1> HIDE DEF g
<1>2. DOMAIN g = DOMAIN h \ {c} /\ \A x \in DOMAIN h \ {c} : g[x] = h[x]
  BY <1>1
<1>3. g \in [DOMAIN h \ {c} -> Singly!Entry]
  BY <1>1 DEF SHeap
<1> QED BY <1>2, <1>3 DEF SHeap, g

\* The links and the allocated entries are those of the list s.
DOK(l, h, s) == DHeap(h) /\ Chain(h, l, s) /\ Back(h, s) /\ Range(s) = DOMAIN h
SOK(l, h, s) == SHeap(h) /\ Chain(h, l, s) /\ Range(s) = DOMAIN h

\* A heap all of whose entries are in one chain is finite.
LEMMA OrderFinite ==
  ASSUME NEW h, NEW p, NEW s, Chain(h, p, s), Range(s) = DOMAIN h
  PROVE  IsFiniteSet(DOMAIN h)
<1>1. s \in Seq(DOMAIN h) /\ Len(s) \in Nat
  BY ChainFacts
<1>2. s \in [1 .. Len(s) -> DOMAIN h]
  BY <1>1, SeqIs
<1>3. s \in Surjection(1 .. Len(s), DOMAIN h)
  <2>1. \A x \in DOMAIN h : \E i \in 1 .. Len(s) : s[i] = x
    BY <1>1, RangeIs
  <2> QED BY <1>2, <2>1 DEF Surjection
<1>4. IsFiniteSet(1 .. Len(s))
  BY <1>1, FS_Interval
<1> QED BY <1>3, <1>4, FS_Surjection


\* NULL and ROOT are no addresses of entries.
LEMMA NullOutside == NULL \notin Cell /\ ROOT \notin Cell /\ ROOT # NULL
BY ListAssumption DEF Doubly!Parameters

\* The walk from the list pointer gives the order of the list.
LEMMA OrderIs ==
  ASSUME NEW l, NEW h, NEW s, Chain(h, l, s), Range(s) = DOMAIN h, DOMAIN h \subseteq Cell
  PROVE  Doubly!Walk(h, l) = s /\ Singly!Walk(h, l) = s /\ IsFiniteSet(DOMAIN h)
         /\ NULL \notin DOMAIN h /\ Len(s) = Cardinality(DOMAIN h)
<1>1. IsFiniteSet(DOMAIN h) /\ NULL \notin DOMAIN h
  BY OrderFinite, NullOutside
<1>2. Doubly!Walk(h, l) = s
  BY <1>1, WalkIs
<1>3. Len(s) = Cardinality(DOMAIN h)
  <2>1. Len(s) \in Nat /\ \A x \in DOMAIN h : \E i \in 1 .. Len(s) : s[i] = x
    <3>1. s \in Seq(DOMAIN h) /\ Len(s) \in Nat
      BY ChainFacts
    <3> QED BY <3>1, RangeIs
  <2>2. s \in [1 .. Len(s) -> DOMAIN h]
    <3>1. s \in Seq(DOMAIN h)
      BY ChainFacts
    <3> QED BY <3>1, SeqIs
  <2>3. s \in Bijection(1 .. Len(s), DOMAIN h)
    <3>1. \A i, j \in 1 .. Len(s) : s[i] = s[j] => i = j
      BY ChainFacts
    <3>2. s \in Injection(1 .. Len(s), DOMAIN h)
      BY <2>2, <3>1 DEF Injection, IsInjective
    <3>3. s \in Surjection(1 .. Len(s), DOMAIN h)
      BY <2>1, <2>2 DEF Surjection
    <3> QED BY <3>2, <3>3 DEF Bijection
  <2>4. IsFiniteSet(1 .. Len(s)) /\ Cardinality(1 .. Len(s)) = Len(s)
    <3> DEFINE n == Len(s)
    <3>1. n \in Nat /\ 1 \in Int /\ n \in Int /\ (1 > n => n = 0) /\ n - 1 + 1 = n
      BY <2>1
    <3> HIDE DEF n
    <3>2. IsFiniteSet(1 .. n) /\ Cardinality(1 .. n) = n
      BY <3>1, FS_Interval
    <3> QED BY <3>2 DEF n
  <2>5. Cardinality(DOMAIN h) = Cardinality(1 .. Len(s))
    <3>1. ExistsBijection(1 .. Len(s), DOMAIN h)
      BY <2>3 DEF ExistsBijection
    <3> QED BY <2>4, <3>1, FS_Bijection
  <2> QED BY <2>4, <2>5
<1> QED BY <1>1, <1>2, <1>3, SameWalk

\* The values along a list, when it gains an entry in front, when it gains
\* one at the end, and when it loses one.
LEMMA ValsSeq ==
  ASSUME NEW h, NEW s, s \in Seq(DOMAIN h), \A x \in DOMAIN h : h[x].data \in Value
  PROVE  /\ Vals(h, s) \in Seq(Value)
         /\ Len(Vals(h, s)) = Len(s)
         /\ DOMAIN Vals(h, s) = 1 .. Len(s)
         /\ \A i \in 1 .. Len(s) : Vals(h, s)[i] = h[s[i]].data
<1> DEFINE n == Len(s)
           f == Vals(h, s)
<1>1. n \in Nat /\ \A i \in 1 .. n : s[i] \in DOMAIN h
  BY SeqIs
<1>2. f = [i \in 1 .. n |-> h[s[i]].data]
  BY DEF Vals
<1> HIDE DEF n, f
<1>3. f \in [1 .. n -> Value]
  BY <1>1, <1>2
<1>4. f \in Seq(Value) /\ Len(f) = n
  BY <1>1, <1>3, SeqMade
<1>5. DOMAIN f = 1 .. n /\ \A i \in 1 .. n : f[i] = h[s[i]].data
  BY <1>2
<1> QED BY <1>4, <1>5 DEF n, f

\* The values with an entry in front.
LEMMA ValsAhead ==
  ASSUME NEW h, NEW s, s \in Seq(DOMAIN h), \A x \in DOMAIN h : h[x].data \in Value,
         NEW g, NEW c \in DOMAIN g, \A x \in DOMAIN g : g[x].data \in Value,
         \A i \in 1 .. Len(s) : s[i] \in DOMAIN g /\ g[s[i]].data = h[s[i]].data
  PROVE  Vals(g, Ahead(c, s)) = <<g[c].data>> \o Vals(h, s)
<1> DEFINE v == g[c].data
           t == Ahead(c, s)
           w == Vals(h, s)
           u == Vals(g, t)
           x == Ahead(v, w)
<1>1. s \in Seq(DOMAIN g)
  BY InAnother
<1>2. IsAhead(DOMAIN g, c, s)
  BY <1>1, AheadFacts
<1>3. /\ t \in Seq(DOMAIN g)
      /\ Len(t) = Len(s) + 1
      /\ t[1] = c
      /\ \A i \in 2 .. Len(s) + 1 : t[i] = s[i - 1]
  BY <1>2 DEF IsAhead
<1>4. /\ w \in Seq(Value)
      /\ Len(w) = Len(s)
      /\ \A i \in 1 .. Len(s) : w[i] = h[s[i]].data
  BY ValsSeq
<1> HIDE DEF t, w
<1>5. /\ u \in Seq(Value)
      /\ Len(u) = Len(t)
      /\ \A i \in 1 .. Len(t) : u[i] = g[t[i]].data
  BY <1>3, ValsSeq
<1> HIDE DEF u
<1>6. v \in Value
  OBVIOUS
<1> HIDE DEF v
<1>7. IsAhead(Value, v, w)
  BY <1>4, <1>6, AheadFacts
<1>8. /\ x \in Seq(Value)
      /\ Len(x) = Len(w) + 1
      /\ x[1] = v
      /\ \A i \in 2 .. Len(w) + 1 : x[i] = w[i - 1]
  BY <1>7 DEF IsAhead
<1> HIDE DEF x
<1>9. ASSUME NEW i \in 1 .. Len(u) PROVE u[i] = x[i]
  <2>0. Len(s) \in Nat
    BY SeqIs
  <2>1. CASE i = 1
    BY <2>0, <2>1, <1>3, <1>5, <1>8 DEF v
  <2>2. CASE i # 1
    <3>1. i \in 2 .. Len(s) + 1 /\ i - 1 \in 1 .. Len(s)
      BY <2>0, <2>2, <1>3, <1>5
    <3>2. u[i] = g[s[i - 1]].data
      BY <1>3, <1>5, <3>1
    <3>3. x[i] = w[i - 1]
      BY <1>4, <1>8, <3>1
    <3> QED BY <1>4, <3>1, <3>2, <3>3
  <2> QED BY <2>1, <2>2
<1>10. u = x
  <2>1. Len(u) = Len(x)
    BY <1>3, <1>4, <1>5, <1>8
  <2> QED BY <1>5, <1>8, <1>9, <2>1, SeqEqual
<1> QED BY <1>10 DEF u, x, t, v, w, Ahead, Glue

\* The values without the k-th entry.
LEMMA ValsCut ==
  ASSUME NEW h, NEW s, s \in Seq(DOMAIN h), \A x \in DOMAIN h : h[x].data \in Value,
         NEW k \in 1 .. Len(s), NEW g,
         \A i \in 1 .. Len(s) : i # k => g[s[i]].data = h[s[i]].data
  PROVE  /\ Vals(g, Cut(s, k)) = RemoveAt(Vals(h, s), k)
         /\ Vals(g, Cut(s, k)) = Cut(Vals(h, s), k)
<1>1. Len(s) \in Nat
  BY SeqIs
<1>2. /\ Vals(h, s) \in Seq(Value)
      /\ Len(Vals(h, s)) = Len(s)
      /\ \A i \in 1 .. Len(s) : Vals(h, s)[i] = h[s[i]].data
  BY ValsSeq
<1>3. Cut(Vals(h, s), k) = RemoveAt(Vals(h, s), k)
  BY <1>2, CutFacts
<1>4. Len(Cut(s, k)) = Len(s) - 1
  BY CutFacts
<1>5. Vals(g, Cut(s, k)) = [i \in 1 .. Len(s) - 1 |-> g[Cut(s, k)[i]].data]
  BY <1>4 DEF Vals
<1>6. Cut(Vals(h, s), k) =
        [i \in 1 .. Len(s) - 1 |-> IF i < k THEN Vals(h, s)[i] ELSE Vals(h, s)[i + 1]]
  BY <1>2 DEF Cut
<1>7. ASSUME NEW i \in 1 .. Len(s) - 1
      PROVE  g[Cut(s, k)[i]].data = IF i < k THEN Vals(h, s)[i] ELSE Vals(h, s)[i + 1]
  <2>1. Cut(s, k)[i] = IF i < k THEN s[i] ELSE s[i + 1]
    BY CutFacts
  <2>2. CASE i < k
    <3>1. i \in 1 .. Len(s) /\ i # k
      BY <1>1, <2>2
    <3> QED BY <1>2, <2>1, <2>2, <3>1
  <2>3. CASE ~(i < k)
    <3>1. i + 1 \in 1 .. Len(s) /\ i + 1 # k
      BY <1>1, <2>3
    <3> QED BY <1>2, <2>1, <2>3, <3>1
  <2> QED BY <2>2, <2>3
<1>8. Vals(g, Cut(s, k)) = Cut(Vals(h, s), k)
  BY <1>5, <1>6, <1>7
<1> QED BY <1>3, <1>8

\* The values of two orders joined.
LEMMA ValsGlue ==
  ASSUME NEW S, NEW s \in Seq(S), NEW t \in Seq(S), NEW h,
         \A x \in S : h[x].data \in Value
  PROVE  Vals(h, Glue(s, t)) = Vals(h, s) \o Vals(h, t)
<1> DEFINE u == Glue(s, t)
           w == Glue(Vals(h, s), Vals(h, t))
           v == Vals(h, u)
<1>1. Len(s) \in Nat /\ Len(t) \in Nat
  BY SeqIs
<1>2. IsGlue(S, s, t)
  BY GlueFacts
<1>3. /\ u \in Seq(S)
      /\ Len(u) = Len(s) + Len(t)
      /\ \A i \in 1 .. Len(s) : u[i] = s[i]
      /\ \A i \in 1 .. Len(t) : u[Len(s) + i] = t[i]
  BY <1>2 DEF IsGlue
<1>4. ASSUME NEW q \in Seq(S)
      PROVE  /\ Vals(h, q) \in Seq(Value) /\ Len(Vals(h, q)) = Len(q)
             /\ \A i \in 1 .. Len(q) : Vals(h, q)[i] = h[q[i]].data
  <2> DEFINE n == Len(q)
             f == Vals(h, q)
  <2>1. n \in Nat /\ \A i \in 1 .. n : q[i] \in S
    BY SeqIs
  <2>2. f = [i \in 1 .. n |-> h[q[i]].data]
    BY DEF Vals
  <2> HIDE DEF n, f
  <2>3. f \in [1 .. n -> Value]
    BY <2>1, <2>2
  <2>4. f \in Seq(Value) /\ Len(f) = n
    BY <2>1, <2>3, SeqMade
  <2> QED BY <2>2, <2>4 DEF n, f
<1> HIDE DEF u
<1>5. IsGlue(Value, Vals(h, s), Vals(h, t))
  <2>1. Vals(h, s) \in Seq(Value) /\ Vals(h, t) \in Seq(Value)
    BY <1>4
  <2> QED BY <2>1, GlueFacts
<1>6. /\ w \in Seq(Value)
      /\ Len(w) = Len(s) + Len(t)
      /\ \A i \in 1 .. Len(s) : w[i] = Vals(h, s)[i]
      /\ \A i \in 1 .. Len(t) : w[Len(s) + i] = Vals(h, t)[i]
  BY <1>4, <1>5 DEF IsGlue
<1> HIDE DEF w
<1>7. v \in Seq(Value) /\ Len(v) = Len(u) /\ \A i \in 1 .. Len(u) : v[i] = h[u[i]].data
  BY <1>3, <1>4
<1> HIDE DEF v
<1>8. ASSUME NEW i \in 1 .. Len(s) + Len(t) PROVE v[i] = w[i]
  <2>1. CASE i <= Len(s)
    <3>1. i \in 1 .. Len(s) /\ i \in 1 .. Len(u)
      BY <1>1, <1>3, <2>1
    <3>2. u[i] = s[i] /\ w[i] = Vals(h, s)[i]
      BY <1>3, <1>6, <3>1
    <3>3. Vals(h, s)[i] = h[s[i]].data /\ v[i] = h[u[i]].data
      BY <1>4, <1>7, <3>1
    <3> QED BY <3>2, <3>3
  <2>2. CASE ~(i <= Len(s))
    <3> DEFINE j == i - Len(s)
    <3>1. j \in 1 .. Len(t) /\ i \in 1 .. Len(u) /\ Len(s) + j = i
      BY <1>1, <1>3, <2>2
    <3> HIDE DEF j
    <3>2. u[i] = t[j] /\ w[i] = Vals(h, t)[j]
      BY <1>3, <1>6, <3>1
    <3>3. Vals(h, t)[j] = h[t[j]].data /\ v[i] = h[u[i]].data
      BY <1>4, <1>7, <3>1
    <3> QED BY <3>2, <3>3
  <2> QED BY <2>1, <2>2
<1>9. v = w
  <2>1. Len(v) = Len(w) /\ Len(v) = Len(s) + Len(t)
    BY <1>3, <1>6, <1>7
  <2> QED BY <1>6, <1>7, <1>8, <2>1, SeqEqual
<1> QED BY <1>9 DEF v, w, u, Glue

\* What a list of either kind is, in the terms of its order s.
LEMMA DFacts ==
  ASSUME NEW l, NEW h, NEW s, DOK(l, h, s)
  PROVE  /\ s \in Seq(DOMAIN h)
         /\ Len(s) \in Nat
         /\ \A i \in 1 .. Len(s) : s[i] \in DOMAIN h
         /\ \A i, j \in 1 .. Len(s) : s[i] = s[j] => i = j
         /\ l = IF Len(s) = 0 THEN NULL ELSE s[1]
         /\ \A i \in 1 .. Len(s) :
              h[s[i]].next = IF i = Len(s) THEN NULL ELSE s[i + 1]
         /\ \A i \in 1 .. Len(s) :
              h[s[i]].prev = IF i = 1 THEN NULL ELSE s[i - 1]
         /\ \A x \in DOMAIN h : \E i \in 1 .. Len(s) : x = s[i]
<1>1. /\ s \in Seq(DOMAIN h)
      /\ Len(s) \in Nat
      /\ \A i \in 1 .. Len(s) : s[i] \in DOMAIN h
      /\ \A i, j \in 1 .. Len(s) : s[i] = s[j] => i = j
      /\ l = IF Len(s) = 0 THEN NULL ELSE s[1]
      /\ \A i \in 1 .. Len(s) : h[s[i]].next = IF i = Len(s) THEN NULL ELSE s[i + 1]
  BY ChainFacts DEF DOK
<1>2. ASSUME NEW i \in 1 .. Len(s)
      PROVE h[s[i]].prev = IF i = 1 THEN NULL ELSE s[i - 1]
  BY <1>1 DEF DOK, Back, NthOf
<1>3. \A x \in DOMAIN h : \E i \in 1 .. Len(s) : x = s[i]
  BY <1>1, RangeIs DEF DOK
<1> QED BY <1>1, <1>2, <1>3

\* The same of the singly linked list.
LEMMA SFacts ==
  ASSUME NEW l, NEW h, NEW s, SOK(l, h, s)
  PROVE  /\ s \in Seq(DOMAIN h)
         /\ Len(s) \in Nat
         /\ \A i \in 1 .. Len(s) : s[i] \in DOMAIN h
         /\ \A i, j \in 1 .. Len(s) : s[i] = s[j] => i = j
         /\ l = IF Len(s) = 0 THEN NULL ELSE s[1]
         /\ \A i \in 1 .. Len(s) :
              h[s[i]].next = IF i = Len(s) THEN NULL ELSE s[i + 1]
         /\ \A x \in DOMAIN h : \E i \in 1 .. Len(s) : x = s[i]
<1>1. /\ s \in Seq(DOMAIN h)
      /\ Len(s) \in Nat
      /\ \A i \in 1 .. Len(s) : s[i] \in DOMAIN h
      /\ \A i, j \in 1 .. Len(s) : s[i] = s[j] => i = j
      /\ l = IF Len(s) = 0 THEN NULL ELSE s[1]
      /\ \A i \in 1 .. Len(s) : h[s[i]].next = IF i = Len(s) THEN NULL ELSE s[i + 1]
  BY ChainFacts DEF SOK
<1>2. \A x \in DOMAIN h : \E i \in 1 .. Len(s) : x = s[i]
  BY <1>1, RangeIs DEF SOK
<1> QED BY <1>1, <1>2

\* The order of a doubly linked list meets each entry once.
LEMMA DCore ==
  ASSUME NEW l, NEW h, NEW s, DOK(l, h, s)
  PROVE  /\ s \in Seq(DOMAIN h)
         /\ Len(s) \in Nat
         /\ \A i \in 1 .. Len(s) : s[i] \in DOMAIN h
         /\ \A i, j \in 1 .. Len(s) : s[i] = s[j] => i = j
BY ChainFacts DEF DOK

\* Its links, in both directions.
LEMMA DLinks ==
  ASSUME NEW l, NEW h, NEW s, DOK(l, h, s)
  PROVE  /\ l = IF Len(s) = 0 THEN NULL ELSE s[1]
         /\ \A i \in 1 .. Len(s) :
              h[s[i]].next = IF i = Len(s) THEN NULL ELSE s[i + 1]
         /\ \A i \in 1 .. Len(s) :
              h[s[i]].prev = IF i = 1 THEN NULL ELSE s[i - 1]
BY DFacts

\* The order of a singly linked list meets each entry once.
LEMMA SCore ==
  ASSUME NEW l, NEW h, NEW s, SOK(l, h, s)
  PROVE  /\ s \in Seq(DOMAIN h)
         /\ Len(s) \in Nat
         /\ \A i \in 1 .. Len(s) : s[i] \in DOMAIN h
         /\ \A i, j \in 1 .. Len(s) : s[i] = s[j] => i = j
BY ChainFacts DEF SOK

\* Its links.
LEMMA SLinks ==
  ASSUME NEW l, NEW h, NEW s, SOK(l, h, s)
  PROVE  /\ l = IF Len(s) = 0 THEN NULL ELSE s[1]
         /\ \A i \in 1 .. Len(s) :
              h[s[i]].next = IF i = Len(s) THEN NULL ELSE s[i + 1]
BY ChainFacts DEF SOK

\* Every entry of a doubly linked list has a place in its order.
LEMMA DAt ==
  ASSUME NEW l, NEW h, NEW s, DOK(l, h, s), NEW x \in DOMAIN h
  PROVE  \E i \in 1 .. Len(s) : x = s[i]
BY DCore, RangeIs DEF DOK

\* So has every entry of a singly linked list.
LEMMA SAt ==
  ASSUME NEW l, NEW h, NEW s, SOK(l, h, s), NEW x \in DOMAIN h
  PROVE  \E i \in 1 .. Len(s) : x = s[i]
BY SCore, RangeIs DEF SOK

\* The entries of the doubly linked list hold values.
LEMMA DData ==
  ASSUME NEW h, DHeap(h) PROVE \A x \in DOMAIN h : h[x].data \in Value
BY DFields

\* So do those of the singly linked list.
LEMMA SData ==
  ASSUME NEW h, SHeap(h) PROVE \A x \in DOMAIN h : h[x].data \in Value
BY SFields

\* The empty list is a list of either kind.
LEMMA EmptyD == DOK(NULL, Doubly!NoHeap, <<>>) /\ SOK(NULL, Singly!NoHeap, <<>>)
<1>1. DHeap(Doubly!NoHeap) /\ DOMAIN Doubly!NoHeap = {}
  BY DEF DHeap, Doubly!NoHeap
<1>2. SHeap(Singly!NoHeap) /\ DOMAIN Singly!NoHeap = {}
  BY DEF SHeap, Singly!NoHeap
<1>3. Range(<<>>) = {}
  BY DEF Range
<1>4. /\ Chain(Doubly!NoHeap, NULL, <<>>) /\ Back(Doubly!NoHeap, <<>>)
      /\ Chain(Singly!NoHeap, NULL, <<>>)
  BY EmptyChain
<1> QED BY <1>1, <1>2, <1>3, <1>4 DEF DOK, SOK

\* list_prepend puts an entry in front of the list.
LEMMA PrependD ==
  ASSUME NEW s, DOK(list, heap, s), NEW c \in Cell, NEW v \in Value, Doubly!Prepend(c, v)
  PROVE  /\ DOK(list', heap', Ahead(c, s))
         /\ Vals(heap', Ahead(c, s)) = <<v>> \o Vals(heap, s)
<1> DEFINE e == [data |-> v, prev |-> NULL, next |-> list]
           f == Doubly!Alloc(heap, c, e)
           g == heap'
<1>1. c \notin DOMAIN heap /\ list' = c /\ g = Doubly!BackLink(f, c)
  BY DEF Doubly!Prepend
<1>2. /\ DHeap(heap)
      /\ s \in Seq(DOMAIN heap)
      /\ Len(s) \in Nat
      /\ \A i \in 1 .. Len(s) : s[i] \in DOMAIN heap
      /\ \A i, j \in 1 .. Len(s) : s[i] = s[j] => i = j
      /\ list = IF Len(s) = 0 THEN NULL ELSE s[1]
  BY DFacts DEF DOK
<1>3. list \in Doubly!Pointer /\ (list # NULL => list \in DOMAIN heap)
  BY <1>2 DEF DHeap, Doubly!Pointer
<1>4. e \in Doubly!Entry
  BY <1>3 DEF Doubly!Entry, Doubly!Pointer
<1>5. e.data = v /\ e.prev = NULL /\ e.next = list
  OBVIOUS
<1> HIDE DEF e
<1>6. /\ DHeap(f)
      /\ DOMAIN f = DOMAIN heap \cup {c}
      /\ f[c] = e
      /\ \A x \in DOMAIN heap : f[x] = heap[x]
  <2>1. DHeap(heap) /\ c \notin DOMAIN heap
    BY <1>1, <1>2
  <2> HIDE DEF g
  <2> QED BY <1>4, <2>1, AllocD, Z3
<1> HIDE DEF f
<1>7. /\ DHeap(g)
      /\ DOMAIN g = DOMAIN f
      /\ \A x \in DOMAIN f : /\ g[x].data = f[x].data
                             /\ g[x].next = f[x].next
                             /\ g[x].prev = IF list # NULL /\ x = list THEN c ELSE f[x].prev
  <2>1. CASE list = NULL
    BY <1>1, <1>6, <2>1 DEF Doubly!BackLink
  <2>2. CASE list # NULL
    <3>1. g = Doubly!SetPrev(f, list, c)
      BY <1>1, <2>2 DEF Doubly!BackLink
    <3>2. list \in DOMAIN f /\ c \in Doubly!Pointer
      BY <1>3, <1>6, <2>2 DEF Doubly!Pointer
    <3>3. DHeap(g) /\ PrevIs(g, f, list, c)
      BY <1>6, <3>1, <3>2, SetPrevD
    <3> QED BY <3>3, <2>2 DEF PrevIs
  <2> QED BY <2>1, <2>2
<1> HIDE DEF g
<1>8. c # list
  BY <1>1, <1>3, NullOutside
<1>9. Chain(g, c, Ahead(c, s))
  <2>1. c \in DOMAIN g /\ g[c].next = list
    BY <1>5, <1>6, <1>7
  <2>2. \A i \in 1 .. Len(s) : /\ s[i] # c
                               /\ s[i] \in DOMAIN g
                               /\ g[s[i]].next = heap[s[i]].next
    BY <1>1, <1>2, <1>6, <1>7
  <2>3. Chain(heap, list, s)
    BY DEF DOK
  <2> QED BY <2>1, <2>2, <2>3, ChainCons
<1>10. Back(g, Ahead(c, s))
  <2>1. g[c].prev = NULL
    BY <1>5, <1>6, <1>7, <1>8
  <2>2. ASSUME NEW i \in 1 .. Len(s)
        PROVE  g[s[i]].prev = IF i = 1 THEN c ELSE heap[s[i]].prev
    <3>1. list = s[1] /\ 1 \in 1 .. Len(s) /\ list # NULL
      BY <1>2, NullOutside DEF DHeap
    <3>2. s[i] = list <=> i = 1
      BY <1>2, <3>1
    <3> QED BY <1>2, <1>6, <1>7, <3>1, <3>2
  <2>3. Chain(heap, list, s) /\ Back(heap, s)
    BY DEF DOK
  <2> QED BY <2>1, <2>2, <2>3, BackCons
<1>11. Range(Ahead(c, s)) = DOMAIN g
  <2>1. s \in Seq(DOMAIN g) /\ c \in DOMAIN g
    <3>1. \A i \in 1 .. Len(s) : s[i] \in DOMAIN g
      BY <1>2, <1>6, <1>7
    <3> QED BY <1>2, <1>6, <1>7, <3>1, InAnother
  <2>2. Range(Ahead(c, s)) = Range(s) \cup {c}
    BY <2>1, RangeCons
  <2> QED BY <1>6, <1>7, <2>2 DEF DOK
<1>12. Vals(g, Ahead(c, s)) = <<v>> \o Vals(heap, s)
  <2>1. c \in DOMAIN g /\ g[c].data = v
    BY <1>5, <1>6, <1>7
  <2>2. \A i \in 1 .. Len(s) : s[i] \in DOMAIN g /\ g[s[i]].data = heap[s[i]].data
    BY <1>1, <1>2, <1>6, <1>7
  <2>3. \A x \in DOMAIN heap : heap[x].data \in Value
    BY <1>2, DData
  <2>4. \A x \in DOMAIN g : g[x].data \in Value
    BY <1>7, DData
  <2>5. Vals(g, Ahead(c, s)) = <<g[c].data>> \o Vals(heap, s)
    BY <1>2, <2>1, <2>2, <2>3, <2>4, ValsAhead
  <2> QED BY <2>1, <2>5
<1> QED BY <1>1, <1>7, <1>9, <1>10, <1>11, <1>12 DEF DOK, g

\* slist_prepend puts an entry in front of the list.
LEMMA PrependS ==
  ASSUME NEW s, SOK(list, heap, s), NEW c \in Cell, NEW v \in Value, Singly!Prepend(c, v)
  PROVE  /\ SOK(list', heap', Ahead(c, s))
         /\ Vals(heap', Ahead(c, s)) = <<v>> \o Vals(heap, s)
<1> DEFINE e == [data |-> v, next |-> list]
           f == Singly!Alloc(heap, c, e)
<1>1. c \notin DOMAIN heap /\ list' = c /\ heap' = f
  BY DEF Singly!Prepend
<1>2. /\ SHeap(heap)
      /\ s \in Seq(DOMAIN heap)
      /\ Len(s) \in Nat
      /\ \A i \in 1 .. Len(s) : s[i] \in DOMAIN heap
      /\ list = IF Len(s) = 0 THEN NULL ELSE s[1]
  BY SFacts DEF SOK
<1>3. list \in Singly!Pointer /\ (list # NULL => list \in DOMAIN heap)
  BY <1>2 DEF SHeap, Singly!Pointer
<1>4. e \in Singly!Entry
  BY <1>3 DEF Singly!Entry
<1>5. e.data = v /\ e.next = list
  OBVIOUS
<1> HIDE DEF e
<1>6. /\ SHeap(f)
      /\ DOMAIN f = DOMAIN heap \cup {c}
      /\ f[c] = e
      /\ \A x \in DOMAIN heap : f[x] = heap[x]
  <2>1. SHeap(heap) /\ c \notin DOMAIN heap
    BY <1>1, <1>2
  <2> QED BY <1>4, <2>1, AllocS, Z3
<1> HIDE DEF f
<1>9. Chain(f, c, Ahead(c, s))
  <2>1. c \in DOMAIN f /\ f[c].next = list
    BY <1>5, <1>6
  <2>2. \A i \in 1 .. Len(s) : /\ s[i] # c
                               /\ s[i] \in DOMAIN f
                               /\ f[s[i]].next = heap[s[i]].next
    BY <1>1, <1>2, <1>6
  <2>3. Chain(heap, list, s)
    BY DEF SOK
  <2> QED BY <2>1, <2>2, <2>3, ChainCons
<1>11. Range(Ahead(c, s)) = DOMAIN f
  <2>1. s \in Seq(DOMAIN f) /\ c \in DOMAIN f
    <3>1. \A i \in 1 .. Len(s) : s[i] \in DOMAIN f
      BY <1>2, <1>6
    <3> QED BY <1>2, <1>6, <3>1, InAnother
  <2>2. Range(Ahead(c, s)) = Range(s) \cup {c}
    BY <2>1, RangeCons
  <2> QED BY <1>6, <2>2 DEF SOK
<1>12. Vals(f, Ahead(c, s)) = <<v>> \o Vals(heap, s)
  <2>1. c \in DOMAIN f /\ f[c].data = v
    BY <1>5, <1>6
  <2>2. \A i \in 1 .. Len(s) : s[i] \in DOMAIN f /\ f[s[i]].data = heap[s[i]].data
    BY <1>1, <1>2, <1>6
  <2>3. \A x \in DOMAIN heap : heap[x].data \in Value
    BY <1>2, SData
  <2>4. \A x \in DOMAIN f : f[x].data \in Value
    BY <1>6, SData
  <2>5. Vals(f, Ahead(c, s)) = <<f[c].data>> \o Vals(heap, s)
    BY <1>2, <2>1, <2>2, <2>3, <2>4, ValsAhead
  <2> QED BY <2>1, <2>5
<1> QED BY <1>1, <1>6, <1>9, <1>11, <1>12 DEF SOK, f

\* The values stay when no data field changes.
LEMMA SameVals ==
  ASSUME NEW h, NEW s, NEW g, \A i \in 1 .. Len(s) : g[s[i]].data = h[s[i]].data
  PROVE  Vals(g, s) = Vals(h, s)
BY DEF Vals

\* An entry at the end of a chain.
LEMMA AtEnd ==
  ASSUME NEW h, NEW p, NEW s, Chain(h, p, s), NEW g, NEW c \in DOMAIN g,
         \A x \in DOMAIN g : g[x].data \in Value,
         \A i \in 1 .. Len(s) :
           /\ s[i] # c
           /\ s[i] \in DOMAIN g
           /\ g[s[i]].next = IF i = Len(s) THEN c ELSE h[s[i]].next
           /\ g[s[i]].data = h[s[i]].data,
         g[c].next = NULL
  PROVE  /\ Chain(g, IF Len(s) = 0 THEN c ELSE p, Glue(s, <<c>>))
         /\ Range(Glue(s, <<c>>)) = Range(s) \cup {c}
         /\ Vals(g, Glue(s, <<c>>)) = Append(Vals(h, s), g[c].data)
<1> DEFINE o == <<c>>
           w == Vals(h, s)
<1>1. o \in Seq(DOMAIN g) /\ Len(o) = 1 /\ o[1] = c
  BY One
<1>2. Vals(g, o) = <<g[c].data>>
  BY <1>1 DEF Vals
<1> HIDE DEF o
<1>3. Chain(g, c, o)
  BY <1>1 DEF Chain, NthOf
<1>4. s \in Seq(DOMAIN g)
  BY ChainFacts, InAnother
<1>5. Chain(g, IF Len(s) = 0 THEN c ELSE p, Glue(s, o))
  <2>1. \A i \in 1 .. Len(s), j \in 1 .. Len(o) : s[i] # o[j]
    BY <1>1
  <2>2. \A i \in 1 .. Len(o) : o[i] \in DOMAIN g /\ g[o[i]].next = g[o[i]].next
    BY <1>1
  <2>3. \A i \in 1 .. Len(s) :
          /\ s[i] \in DOMAIN g
          /\ g[s[i]].next = IF i = Len(s) THEN c ELSE h[s[i]].next
    OBVIOUS
  <2> QED BY <1>3, <2>1, <2>2, <2>3, ChainJoin
<1>6. Range(Glue(s, o)) = Range(s) \cup {c}
  <2>1. \A x : x \in Range(o) <=> \E i \in 1 .. Len(o) : x = o[i]
    BY <1>1, RangeIs
  <2>2. Range(o) = {c}
    BY <1>1, <2>1
  <2>3. Range(Glue(s, o)) = Range(s) \cup Range(o)
    BY <1>1, <1>4, RangeJoined
  <2> QED BY <2>2, <2>3
<1>7. Vals(g, Glue(s, o)) = Vals(g, s) \o Vals(g, o)
  BY <1>1, <1>4, ValsGlue
<1>8. Vals(g, s) = w
  BY SameVals
<1>9. w \in Seq(Value)
  BY <1>4, <1>8, ValsSeq
<1> HIDE DEF w
<1>10. Append(w, g[c].data) = w \o <<g[c].data>>
  BY <1>9, AppendIsConcat
<1> QED BY <1>2, <1>5, <1>6, <1>7, <1>8, <1>10 DEF o, w

\* The prev links with an entry at the end.
LEMMA BackAtEnd ==
  ASSUME NEW h, NEW p, NEW s, Chain(h, p, s), Back(h, s), NEW g, NEW c,
         \A i \in 1 .. Len(s) : g[s[i]].prev = h[s[i]].prev,
         g[c].prev = IF Len(s) = 0 THEN NULL ELSE s[Len(s)]
  PROVE  Back(g, Glue(s, <<c>>))
<1> DEFINE o == <<c>>
           S == DOMAIN h \cup {c}
<1>1. o \in Seq(S) /\ Len(o) = 1 /\ o[1] = c
  BY One
<1>2. s \in Seq(S) /\ Len(s) \in Nat
  BY ChainFacts, InAnother
<1> HIDE DEF o, S
<1> DEFINE f == [x \in {c} |-> [prev |-> NULL]]
<1>3. f[c].prev = NULL
  OBVIOUS
<1> HIDE DEF f
<1>4. Back(f, o)
  BY <1>1, <1>3 DEF Back, NthOf
<1>5. \A i \in 1 .. Len(o) :
        g[o[i]].prev = IF i = 1 THEN NthOf(s, Len(s)) ELSE f[o[i]].prev
  BY <1>1, <1>2 DEF NthOf
<1>6. Back(g, Glue(s, o))
  BY <1>1, <1>2, <1>4, <1>5, BackJoin
<1> QED BY <1>6 DEF o

\* list_append puts an entry at the end of the list.
LEMMA AppendD ==
  ASSUME NEW s, DOK(list, heap, s), NEW c \in Cell, NEW v \in Value,
         Doubly!AppendEntry(c, v)
  PROVE  /\ DOK(list', heap', Glue(s, <<c>>))
         /\ Vals(heap', Glue(s, <<c>>)) = Append(Vals(heap, s), v)
         /\ list' = IF list = NULL THEN c ELSE list
         /\ DOMAIN heap' = DOMAIN heap \cup {c}
         /\ \A i \in 1 .. Len(s) : heap'[s[i]].next = IF i = Len(s) THEN c ELSE heap[s[i]].next
<1> DEFINE t == Glue(s, <<c>>)
           g == heap'
<1>1. /\ DHeap(heap)
      /\ s \in Seq(DOMAIN heap)
      /\ Len(s) \in Nat
      /\ \A i \in 1 .. Len(s) : s[i] \in DOMAIN heap
      /\ \A i, j \in 1 .. Len(s) : s[i] = s[j] => i = j
      /\ list = IF Len(s) = 0 THEN NULL ELSE s[1]
      /\ Chain(heap, list, s) /\ Back(heap, s) /\ Range(s) = DOMAIN heap
  BY DFacts DEF DOK
<1>2. c \notin DOMAIN heap
  BY DEF Doubly!AppendEntry
<1>3. list = NULL <=> Len(s) = 0
  BY <1>1, NullOutside DEF DHeap
<1>4. /\ DHeap(g)
      /\ DOMAIN g = DOMAIN heap \cup {c}
      /\ g[c].data = v /\ g[c].next = NULL
      /\ g[c].prev = IF Len(s) = 0 THEN NULL ELSE s[Len(s)]
      /\ list' = IF Len(s) = 0 THEN c ELSE list
      /\ \A x \in DOMAIN heap :
           /\ g[x].data = heap[x].data
           /\ g[x].prev = heap[x].prev
           /\ g[x].next = IF Len(s) # 0 /\ x = s[Len(s)] THEN c ELSE heap[x].next
  <2>1. CASE Len(s) = 0
    <3> DEFINE e == [data |-> v, prev |-> NULL, next |-> NULL]
    <3>1. g = Doubly!Alloc(heap, c, e) /\ list' = c
      BY <1>3, <2>1 DEF Doubly!AppendEntry, Doubly!FirstEntry
    <3>2. e \in Doubly!Entry
      BY DEF Doubly!Entry, Doubly!Pointer
    <3>3. e.data = v /\ e.prev = NULL /\ e.next = NULL
      OBVIOUS
    <3> HIDE DEF e
    <3> DEFINE k == Doubly!Alloc(heap, c, e)
    <3>4. /\ DHeap(k)
          /\ DOMAIN k = DOMAIN heap \cup {c}
          /\ k[c] = e
          /\ \A x \in DOMAIN heap : k[x] = heap[x]
      <4>1. DHeap(heap)
        BY <1>1
      <4> QED BY <1>2, <3>2, <4>1, AllocD
    <3>5. g = k
      BY <3>1
    <3> HIDE DEF g, k
    <3> QED BY <2>1, <3>1, <3>3, <3>4, <3>5
  <2>2. CASE Len(s) # 0
    <3> DEFINE r == s[Len(s)]
               e == [data |-> v, prev |-> r, next |-> NULL]
               f == Doubly!SetNext(heap, r, c)
    <3>1. Doubly!Walk(heap, list) = s
      BY <1>1, OrderIs DEF DHeap
    <3>2. g = Doubly!Alloc(f, c, e) /\ list' = list
      BY <1>3, <2>2, <3>1 DEF Doubly!AppendEntry, Doubly!Order, Doubly!Length
    <3>3. r \in DOMAIN heap
      BY <1>1, <2>2
    <3>4. r \in Doubly!Pointer /\ c \in Doubly!Pointer /\ NULL \in Doubly!Pointer
      BY <1>1, <3>3 DEF DHeap, Doubly!Pointer
    <3>5. e \in Doubly!Entry
      BY <3>4 DEF Doubly!Entry
    <3>6. e.data = v /\ e.prev = r /\ e.next = NULL
      OBVIOUS
    <3> HIDE DEF e
    <3>7. DHeap(f) /\ NextIs(f, heap, r, c)
      BY <1>1, <3>3, <3>4, SetNextD
    <3> HIDE DEF f
    <3>8. c \notin DOMAIN f
      BY <1>2, <3>7 DEF NextIs
    <3> DEFINE k == Doubly!Alloc(f, c, e)
    <3>9. /\ DHeap(k)
          /\ DOMAIN k = DOMAIN f \cup {c}
          /\ k[c] = e
          /\ \A x \in DOMAIN f : k[x] = f[x]
      <4>1. DHeap(f)
        BY <3>7
      <4> QED BY <3>5, <3>8, <4>1, AllocD
    <3>10. g = k
      BY <3>2
    <3> HIDE DEF g, k
    <3> QED BY <2>2, <3>2, <3>6, <3>7, <3>9, <3>10 DEF NextIs
  <2> QED BY <2>1, <2>2
<1> HIDE DEF g
<1>5. \A x \in DOMAIN g : g[x].data \in Value
  BY <1>4, DData
<1>6. \A i \in 1 .. Len(s) :
        /\ s[i] # c
        /\ s[i] \in DOMAIN g
        /\ g[s[i]].next = IF i = Len(s) THEN c ELSE heap[s[i]].next
        /\ g[s[i]].data = heap[s[i]].data
        /\ g[s[i]].prev = heap[s[i]].prev
  <2> SUFFICES ASSUME NEW i \in 1 .. Len(s)
               PROVE  /\ s[i] # c
                      /\ s[i] \in DOMAIN g
                      /\ g[s[i]].next = IF i = Len(s) THEN c ELSE heap[s[i]].next
                      /\ g[s[i]].data = heap[s[i]].data
                      /\ g[s[i]].prev = heap[s[i]].prev
    OBVIOUS
  <2>1. Len(s) \in 1 .. Len(s)
    BY <1>1
  <2>2. s[i] = s[Len(s)] <=> i = Len(s)
    BY <1>1, <2>1
  <2>3. Len(s) # 0
    BY <1>1
  <2> QED BY <1>1, <1>2, <1>4, <2>2, <2>3
<1>7. /\ Chain(g, IF Len(s) = 0 THEN c ELSE list, t)
      /\ Range(t) = Range(s) \cup {c}
      /\ Vals(g, t) = Append(Vals(heap, s), g[c].data)
  <2> HIDE DEF t
  <2>1. c \in DOMAIN g /\ g[c].next = NULL
    BY <1>4
  <2> QED BY <1>1, <1>5, <1>6, <2>1, AtEnd DEF t
<1>8. Back(g, t)
  <2> HIDE DEF t
  <2> QED BY <1>1, <1>4, <1>6, BackAtEnd DEF t
<1> HIDE DEF t
<1> QED BY <1>1, <1>3, <1>4, <1>6, <1>7, <1>8 DEF DOK, t, g

\* slist_append puts an entry at the end of the list.
LEMMA AppendS ==
  ASSUME NEW s, SOK(list, heap, s), NEW c \in Cell, NEW v \in Value,
         Singly!AppendEntry(c, v)
  PROVE  /\ SOK(list', heap', Glue(s, <<c>>))
         /\ Vals(heap', Glue(s, <<c>>)) = Append(Vals(heap, s), v)
         /\ list' = IF list = NULL THEN c ELSE list
         /\ DOMAIN heap' = DOMAIN heap \cup {c}
         /\ \A i \in 1 .. Len(s) : heap'[s[i]].next = IF i = Len(s) THEN c ELSE heap[s[i]].next
<1> DEFINE t == Glue(s, <<c>>)
           g == heap'
           e == Singly!LastEntry(v)
           f == Singly!Alloc(heap, c, e)
<1>1. /\ SHeap(heap)
      /\ s \in Seq(DOMAIN heap)
      /\ Len(s) \in Nat
      /\ \A i \in 1 .. Len(s) : s[i] \in DOMAIN heap
      /\ \A i, j \in 1 .. Len(s) : s[i] = s[j] => i = j
      /\ list = IF Len(s) = 0 THEN NULL ELSE s[1]
      /\ Chain(heap, list, s) /\ Range(s) = DOMAIN heap
  <2>1. SHeap(heap) /\ Chain(heap, list, s) /\ Range(s) = DOMAIN heap
    BY DEF SOK
  <2>2. list = IF Len(s) = 0 THEN NULL ELSE s[1]
    BY SLinks
  <2> QED BY <2>1, <2>2, SCore
<1>2. c \notin DOMAIN heap
  BY DEF Singly!AppendEntry
<1>3. list = NULL <=> Len(s) = 0
  BY <1>1, NullOutside DEF SHeap
<1>4. /\ e \in Singly!Entry
      /\ e.data = v /\ e.next = NULL
  BY DEF Singly!Entry, Singly!Pointer, Singly!LastEntry
<1> HIDE DEF e
<1>5. /\ SHeap(f)
      /\ DOMAIN f = DOMAIN heap \cup {c}
      /\ f[c] = e
      /\ \A x \in DOMAIN heap : f[x] = heap[x]
  <2>1. SHeap(heap)
    BY <1>1
  <2> QED BY <1>2, <1>4, <2>1, AllocS
<1>6. Doubly!Walk(heap, list) = s /\ Singly!Walk(heap, list) = s
  BY <1>1, OrderIs DEF SHeap
<1> DEFINE m == [list |-> list, heap |-> f]
<1>7. list' = Singly!SetLink(m, Singly!LastLink, c).list
      /\ g = Singly!SetLink(m, Singly!LastLink, c).heap
  <2>1. [Singly!Memory EXCEPT !.heap = Singly!Alloc(@, c, Singly!LastEntry(v))] = m
    BY DEF Singly!Memory, e
  <2> HIDE DEF m
  <2> QED BY <2>1 DEF Singly!AppendEntry, Singly!Becomes
<1> HIDE DEF f, g
<1>8. /\ SHeap(g)
      /\ DOMAIN g = DOMAIN heap \cup {c}
      /\ g[c].data = v /\ g[c].next = NULL
      /\ list' = IF Len(s) = 0 THEN c ELSE list
      /\ \A x \in DOMAIN heap :
           /\ g[x].data = heap[x].data
           /\ g[x].next = IF Len(s) # 0 /\ x = s[Len(s)] THEN c ELSE heap[x].next
  <2>1. CASE Len(s) = 0
    <3>1. Singly!LastLink = ROOT
      BY <1>3, <2>1 DEF Singly!LastLink
    <3>2. list' = c /\ g = f
      BY <1>7, <3>1 DEF Singly!SetLink
    <3> QED BY <1>4, <1>5, <2>1, <3>2
  <2>2. CASE Len(s) # 0
    <3> DEFINE r == s[Len(s)]
    <3>1. r \in DOMAIN heap
      BY <1>1, <2>2
    <3>2. Singly!LastLink = r
      BY <1>3, <1>6, <2>2 DEF Singly!LastLink, Singly!Order, Singly!Length
    <3>3. r # ROOT /\ r # c
      BY <1>1, <1>2, <3>1, NullOutside DEF SHeap
    <3>4. list' = list /\ g = Singly!SetNext(f, r, c)
      BY <1>7, <3>2, <3>3 DEF Singly!SetLink
    <3>5. c \in Singly!Pointer /\ r \in DOMAIN f
      BY <1>5, <3>1 DEF Singly!Pointer
    <3>6. SHeap(g) /\ NextSIs(g, f, r, c)
      BY <1>5, <3>4, <3>5, SetNextS
    <3>7. DOMAIN g = DOMAIN heap \cup {c}
      BY <1>5, <3>6 DEF NextSIs
    <3>8. g[c].data = v /\ g[c].next = NULL
      BY <1>4, <1>5, <3>3, <3>6 DEF NextSIs
    <3> QED BY <1>5, <2>2, <3>4, <3>6, <3>7, <3>8 DEF NextSIs
  <2> QED BY <2>1, <2>2
<1>9. \A x \in DOMAIN g : g[x].data \in Value
  BY <1>8, SData
<1>10. \A i \in 1 .. Len(s) :
        /\ s[i] # c
        /\ s[i] \in DOMAIN g
        /\ g[s[i]].next = IF i = Len(s) THEN c ELSE heap[s[i]].next
        /\ g[s[i]].data = heap[s[i]].data
  <2> SUFFICES ASSUME NEW i \in 1 .. Len(s)
               PROVE  /\ s[i] # c
                      /\ s[i] \in DOMAIN g
                      /\ g[s[i]].next = IF i = Len(s) THEN c ELSE heap[s[i]].next
                      /\ g[s[i]].data = heap[s[i]].data
    OBVIOUS
  <2>1. Len(s) \in 1 .. Len(s)
    BY <1>1
  <2>2. s[i] = s[Len(s)] <=> i = Len(s)
    BY <1>1, <2>1
  <2>3. Len(s) # 0
    BY <1>1
  <2> QED BY <1>1, <1>2, <1>8, <2>2, <2>3
<1>11. /\ Chain(g, IF Len(s) = 0 THEN c ELSE list, t)
       /\ Range(t) = Range(s) \cup {c}
       /\ Vals(g, t) = Append(Vals(heap, s), g[c].data)
  <2> HIDE DEF t
  <2>1. c \in DOMAIN g /\ g[c].next = NULL
    BY <1>8
  <2> QED BY <1>1, <1>9, <1>10, <2>1, AtEnd DEF t
<1> HIDE DEF t
<1> QED BY <1>1, <1>3, <1>8, <1>10, <1>11 DEF SOK, t, g

\* What a heap is after the k-th entry of s has been unlinked and freed.
Unlinked(g, h, s, k) ==
  /\ DOMAIN g = DOMAIN h \ {s[k]}
  /\ \A i \in 1 .. Len(s) : i # k =>
       /\ g[s[i]].data = h[s[i]].data
       /\ g[s[i]].next = IF i = k - 1 THEN h[s[k]].next ELSE h[s[i]].next
BackUnlinked(g, h, s, k) ==
  \A i \in 1 .. Len(s) : i # k =>
    g[s[i]].prev = IF i = k + 1 THEN h[s[k]].prev ELSE h[s[i]].prev

\* The chain and the values without the k-th entry.
LEMMA CutAll ==
  ASSUME NEW l, NEW h, NEW s, Chain(h, l, s), Range(s) = DOMAIN h, NEW k \in 1 .. Len(s),
         \A x \in DOMAIN h : h[x].data \in Value,
         NEW g, Unlinked(g, h, s, k)
  PROVE  /\ Chain(g, IF k = 1 THEN h[s[k]].next ELSE l, Cut(s, k))
         /\ Range(Cut(s, k)) = DOMAIN g
         /\ Vals(g, Cut(s, k)) = RemoveAt(Vals(h, s), k)
<1>1. /\ s \in Seq(DOMAIN h)
      /\ \A i \in 1 .. Len(s) : s[i] \in DOMAIN h
      /\ \A i, j \in 1 .. Len(s) : s[i] = s[j] => i = j
  BY ChainFacts
<1>2. \A i \in 1 .. Len(s) : i # k =>
        /\ s[i] \in DOMAIN g
        /\ g[s[i]].data = h[s[i]].data
        /\ g[s[i]].next = IF i = k - 1 THEN h[s[k]].next ELSE h[s[i]].next
  BY <1>1 DEF Unlinked
<1>3. Chain(g, IF k = 1 THEN h[s[k]].next ELSE l, Cut(s, k))
  BY <1>2, ChainCut
<1>4. Range(Cut(s, k)) = Range(s) \ {s[k]}
  BY <1>1, RangeCut
<1>5. Vals(g, Cut(s, k)) = RemoveAt(Vals(h, s), k)
  BY <1>1, <1>2, ValsCut
<1> QED BY <1>3, <1>4, <1>5 DEF Unlinked

\* A doubly linked list stays one without its k-th entry.
LEMMA CutD ==
  ASSUME NEW l, NEW h, NEW s, DOK(l, h, s), NEW k \in 1 .. Len(s),
         NEW g, DHeap(g), Unlinked(g, h, s, k), BackUnlinked(g, h, s, k)
  PROVE  /\ DOK(IF k = 1 THEN h[s[k]].next ELSE l, g, Cut(s, k))
         /\ Vals(g, Cut(s, k)) = RemoveAt(Vals(h, s), k)
<1>1. Chain(h, l, s) /\ Range(s) = DOMAIN h /\ Back(h, s) /\ DHeap(h)
  BY DEF DOK
<1>2. /\ Chain(g, IF k = 1 THEN h[s[k]].next ELSE l, Cut(s, k))
      /\ Range(Cut(s, k)) = DOMAIN g
      /\ Vals(g, Cut(s, k)) = RemoveAt(Vals(h, s), k)
  BY <1>1, CutAll, DData
<1>3. Back(g, Cut(s, k))
  BY <1>1, BackCut DEF BackUnlinked
<1> QED BY <1>2, <1>3 DEF DOK

\* A singly linked list stays one without its k-th entry.
LEMMA CutS ==
  ASSUME NEW l, NEW h, NEW s, SOK(l, h, s), NEW k \in 1 .. Len(s),
         NEW g, SHeap(g), Unlinked(g, h, s, k)
  PROVE  /\ SOK(IF k = 1 THEN h[s[k]].next ELSE l, g, Cut(s, k))
         /\ Vals(g, Cut(s, k)) = RemoveAt(Vals(h, s), k)
<1>1. Chain(h, l, s) /\ Range(s) = DOMAIN h /\ SHeap(h)
  BY DEF SOK
<1>2. /\ Chain(g, IF k = 1 THEN h[s[k]].next ELSE l, Cut(s, k))
      /\ Range(Cut(s, k)) = DOMAIN g
      /\ Vals(g, Cut(s, k)) = RemoveAt(Vals(h, s), k)
  BY <1>1, CutAll, SData
<1> QED BY <1>2 DEF SOK

\* The links around the k-th entry are made to pass it and it is freed:
\* the assignments may come in either order.
LEMMA AroundD ==
  ASSUME NEW l, NEW h, NEW s, DOK(l, h, s), NEW k \in 1 .. Len(s),
         NEW f, DHeap(f), DOMAIN f = DOMAIN h,
         \A x \in DOMAIN h :
           /\ f[x].data = h[x].data
           /\ f[x].next = IF k # 1 /\ x = s[k - 1] THEN h[s[k]].next ELSE h[x].next
           /\ f[x].prev = IF k # Len(s) /\ x = s[k + 1] THEN h[s[k]].prev ELSE h[x].prev
  PROVE  LET g == Doubly!Dealloc(f, s[k])
         IN  DHeap(g) /\ Unlinked(g, h, s, k) /\ BackUnlinked(g, h, s, k)
<1> DEFINE g == Doubly!Dealloc(f, s[k])
<1>1. /\ DHeap(g)
      /\ DOMAIN g = DOMAIN f \ {s[k]}
      /\ \A x \in DOMAIN f \ {s[k]} : g[x] = f[x]
  BY DeallocD
<1> HIDE DEF g
<1>2. /\ Len(s) \in Nat
      /\ \A i \in 1 .. Len(s) : s[i] \in DOMAIN h
      /\ \A i, j \in 1 .. Len(s) : s[i] = s[j] => i = j
  BY DCore
<1>3. \A i \in 1 .. Len(s) : i # k =>
        /\ s[i] \in DOMAIN h \ {s[k]}
        /\ (k # 1 /\ s[i] = s[k - 1]) <=> i = k - 1
        /\ (k # Len(s) /\ s[i] = s[k + 1]) <=> i = k + 1
  <2> SUFFICES ASSUME NEW i \in 1 .. Len(s), i # k
               PROVE  /\ s[i] \in DOMAIN h \ {s[k]}
                      /\ (k # 1 /\ s[i] = s[k - 1]) <=> i = k - 1
                      /\ (k # Len(s) /\ s[i] = s[k + 1]) <=> i = k + 1
    OBVIOUS
  <2>1. s[i] \in DOMAIN h \ {s[k]}
    BY <1>2
  <2>2. (k # 1 /\ s[i] = s[k - 1]) <=> i = k - 1
    <3>1. k # 1 => k - 1 \in 1 .. Len(s)
      BY <1>2
    <3>2. k = 1 => i # k - 1
      OBVIOUS
    <3> QED BY <1>2, <3>1, <3>2
  <2>3. (k # Len(s) /\ s[i] = s[k + 1]) <=> i = k + 1
    <3>1. k # Len(s) => k + 1 \in 1 .. Len(s)
      BY <1>2
    <3>2. k = Len(s) => i # k + 1
      BY <1>2
    <3> QED BY <1>2, <3>1, <3>2
  <2> QED BY <2>1, <2>2, <2>3
<1>4. Unlinked(g, h, s, k)
  BY <1>1, <1>3 DEF Unlinked
<1>5. BackUnlinked(g, h, s, k)
  BY <1>1, <1>3 DEF BackUnlinked
<1> QED BY <1>1, <1>4, <1>5 DEF g

\* The unlinking of list_remove_entry and list_remove_data.
LEMMA UnlinkD ==
  ASSUME NEW l, NEW h, NEW s, DOK(l, h, s), NEW k \in 1 .. Len(s)
  PROVE  LET u == Doubly!Unlink(l, h, s[k])
         IN  /\ u.list = IF k = 1 THEN h[s[k]].next ELSE l
             /\ DHeap(u.heap)
             /\ Unlinked(u.heap, h, s, k)
             /\ BackUnlinked(u.heap, h, s, k)
<1> DEFINE c == s[k]
           p == h[c].prev
           n == h[c].next
           forward == IF p = NULL THEN h ELSE Doubly!SetNext(h, p, n)
           both == IF n = NULL THEN forward ELSE Doubly!SetPrev(forward, n, p)
           u == Doubly!Unlink(l, h, c)
<1>1. /\ Len(s) \in Nat
      /\ \A i \in 1 .. Len(s) : s[i] \in DOMAIN h
      /\ \A i, j \in 1 .. Len(s) : s[i] = s[j] => i = j
      /\ n = IF k = Len(s) THEN NULL ELSE s[k + 1]
      /\ p = IF k = 1 THEN NULL ELSE s[k - 1]
  BY DCore, DLinks
<1>2. DHeap(h)
  BY DEF DOK
<1>3. /\ p = NULL <=> k = 1
      /\ n = NULL <=> k = Len(s)
      /\ p # NULL => p \in DOMAIN h
      /\ n # NULL => n \in DOMAIN h
  <2>1. k # 1 => k - 1 \in 1 .. Len(s)
    BY <1>1
  <2>2. k # Len(s) => k + 1 \in 1 .. Len(s)
    BY <1>1
  <2>3. NULL \notin DOMAIN h
    BY <1>2, NullOutside DEF DHeap
  <2> HIDE DEF p, n
  <2> QED BY <1>1, <2>1, <2>2, <2>3
<1>4. p \in Doubly!Pointer /\ n \in Doubly!Pointer
  BY <1>1, <1>2, DFields
<1>5. u = [list |-> IF p = NULL THEN n ELSE l, heap |-> Doubly!Dealloc(both, c)]
  BY DEF Doubly!Unlink
<1> HIDE DEF p, n, u
<1>6. /\ DHeap(forward)
      /\ DOMAIN forward = DOMAIN h
      /\ \A x \in DOMAIN h :
           /\ forward[x].data = h[x].data
           /\ forward[x].prev = h[x].prev
           /\ forward[x].next = IF p # NULL /\ x = p THEN n ELSE h[x].next
  <2>1. CASE p = NULL
    BY <1>2, <2>1
  <2>2. CASE p # NULL
    <3> DEFINE f == Doubly!SetNext(h, p, n)
    <3>1. DHeap(f) /\ NextIs(f, h, p, n)
      BY <1>2, <1>3, <1>4, <2>2, SetNextD
    <3>2. forward = f
      BY <2>2
    <3> HIDE DEF f, forward
    <3> QED BY <2>2, <3>1, <3>2 DEF NextIs
  <2> QED BY <2>1, <2>2
<1> HIDE DEF forward
<1>7. /\ DHeap(both)
      /\ DOMAIN both = DOMAIN h
      /\ \A x \in DOMAIN h :
           /\ both[x].data = h[x].data
           /\ both[x].next = forward[x].next
           /\ both[x].prev = IF n # NULL /\ x = n THEN p ELSE h[x].prev
  <2>1. CASE n = NULL
    BY <1>6, <2>1
  <2>2. CASE n # NULL
    <3> DEFINE f == Doubly!SetPrev(forward, n, p)
    <3>1. DHeap(f) /\ PrevIs(f, forward, n, p)
      <4>1. n \in DOMAIN forward
        BY <1>3, <1>6, <2>2
      <4> QED BY <1>4, <1>6, <4>1, SetPrevD
    <3>2. both = f
      BY <2>2
    <3> HIDE DEF f, both
    <3> QED BY <1>6, <2>2, <3>1, <3>2 DEF PrevIs
  <2> QED BY <2>1, <2>2
<1> HIDE DEF both
<1>8. \A x \in DOMAIN h :
        /\ both[x].data = h[x].data
        /\ both[x].next = IF k # 1 /\ x = s[k - 1] THEN h[s[k]].next ELSE h[x].next
        /\ both[x].prev = IF k # Len(s) /\ x = s[k + 1] THEN h[s[k]].prev ELSE h[x].prev
  <2>1. n = h[s[k]].next /\ p = h[s[k]].prev
    BY DEF n, p
  <2>2. \A x \in DOMAIN h : /\ (p # NULL /\ x = p) <=> (k # 1 /\ x = s[k - 1])
                            /\ (n # NULL /\ x = n) <=> (k # Len(s) /\ x = s[k + 1])
    BY <1>1, <1>3
  <2> QED BY <1>6, <1>7, <2>1, <2>2
<1>9. LET g == Doubly!Dealloc(both, s[k])
      IN  DHeap(g) /\ Unlinked(g, h, s, k) /\ BackUnlinked(g, h, s, k)
  BY <1>7, <1>8, AroundD
<1>10. u.heap = Doubly!Dealloc(both, s[k])
  BY <1>5
<1>11. u.list = IF k = 1 THEN h[s[k]].next ELSE l
  BY <1>3, <1>5 DEF n
<1> QED BY <1>9, <1>10, <1>11 DEF u

\* The cutting out of slist_remove_entry, slist_remove_data and
\* slist_iter_remove, through the link that leads to the entry.
LEMMA CutOutS ==
  ASSUME NEW l, NEW h, NEW s, SOK(l, h, s), NEW k \in 1 .. Len(s), NEW m, NEW address,
         m = [list |-> l, heap |-> h],
         address = IF k = 1 THEN ROOT ELSE s[k - 1]
  PROVE  /\ Singly!Link(m, address) = s[k]
         /\ Singly!CutOut(m, address).list = IF k = 1 THEN h[s[k]].next ELSE l
         /\ SHeap(Singly!CutOut(m, address).heap)
         /\ Unlinked(Singly!CutOut(m, address).heap, h, s, k)
         /\ Singly!CutOut(m, address) =
              [list |-> Singly!CutOut(m, address).list,
               heap |-> Singly!CutOut(m, address).heap]
<1>1. /\ Len(s) \in Nat
      /\ \A i \in 1 .. Len(s) : s[i] \in DOMAIN h
      /\ \A i, j \in 1 .. Len(s) : s[i] = s[j] => i = j
      /\ l = IF Len(s) = 0 THEN NULL ELSE s[1]
      /\ \A i \in 1 .. Len(s) : h[s[i]].next = IF i = Len(s) THEN NULL ELSE s[i + 1]
  BY SCore, SLinks
<1>2. SHeap(h)
  BY DEF SOK
<1>3. k # 1 => /\ k - 1 \in 1 .. Len(s) /\ k - 1 # Len(s) /\ (k - 1) + 1 = k
               /\ address = s[k - 1] /\ address # ROOT
  <2>1. k # 1 => k - 1 \in 1 .. Len(s) /\ k - 1 # Len(s) /\ (k - 1) + 1 = k
    BY <1>1
  <2>2. ROOT \notin DOMAIN h
    BY <1>2, NullOutside DEF SHeap
  <2> QED BY <1>1, <2>1, <2>2
<1>4. Singly!Link(m, address) = s[k]
  <2>1. CASE k = 1
    BY <1>1, <2>1 DEF Singly!Link
  <2>2. CASE k # 1
    BY <1>1, <1>3, <2>2 DEF Singly!Link
  <2> QED BY <2>1, <2>2
<1> DEFINE n == h[s[k]].next
           cut == Singly!SetLink(m, address, n)
           g == Singly!Dealloc(cut.heap, s[k])
           u == Singly!CutOut(m, address)
<1>5. u = [cut EXCEPT !.heap = g]
  BY <1>4 DEF Singly!CutOut
<1>6. n \in Singly!Pointer
  BY <1>1, <1>2, SFields
<1> HIDE DEF n, u
<1>7. /\ cut = [list |-> cut.list, heap |-> cut.heap]
      /\ cut.list = IF k = 1 THEN n ELSE l
      /\ SHeap(cut.heap)
      /\ DOMAIN cut.heap = DOMAIN h
      /\ \A x \in DOMAIN h : /\ cut.heap[x].data = h[x].data
                             /\ cut.heap[x].next = IF k # 1 /\ x = s[k - 1] THEN n ELSE h[x].next
  <2>1. CASE k = 1
    <3>1. cut = [list |-> n, heap |-> h]
      BY <2>1 DEF Singly!SetLink
    <3> HIDE DEF cut
    <3> QED BY <1>2, <2>1, <3>1
  <2>2. CASE k # 1
    <3> DEFINE f == Singly!SetNext(h, address, n)
    <3>1. cut = [list |-> l, heap |-> f]
      BY <1>3, <2>2 DEF Singly!SetLink
    <3>2. SHeap(f) /\ NextSIs(f, h, address, n)
      <4>1. address \in DOMAIN h
        BY <1>1, <1>3, <2>2
      <4> QED BY <1>2, <1>6, <4>1, SetNextS
    <3> HIDE DEF cut, f
    <3>3. cut = [list |-> cut.list, heap |-> cut.heap] /\ cut.list = l /\ cut.heap = f
      BY <3>1
    <3> QED BY <1>3, <2>2, <3>2, <3>3 DEF NextSIs
  <2> QED BY <2>1, <2>2
<1> HIDE DEF cut
<1>8. /\ SHeap(g)
      /\ DOMAIN g = DOMAIN cut.heap \ {s[k]}
      /\ \A x \in DOMAIN cut.heap \ {s[k]} : g[x] = cut.heap[x]
  BY <1>7, DeallocS
<1> HIDE DEF g
<1>9. Unlinked(g, h, s, k)
  <2>1. \A i \in 1 .. Len(s) : i # k =>
          /\ s[i] \in DOMAIN h \ {s[k]}
          /\ (k # 1 /\ s[i] = s[k - 1]) <=> i = k - 1
    <3> SUFFICES ASSUME NEW i \in 1 .. Len(s), i # k
                 PROVE  /\ s[i] \in DOMAIN h \ {s[k]}
                        /\ (k # 1 /\ s[i] = s[k - 1]) <=> i = k - 1
      OBVIOUS
    <3>1. k = 1 => i # k - 1
      OBVIOUS
    <3> QED BY <1>1, <1>3, <3>1
  <2> QED BY <1>7, <1>8, <2>1 DEF Unlinked, n
<1>10. u = [list |-> cut.list, heap |-> g]
  BY <1>5, <1>7
<1>11. u.list = cut.list /\ u.heap = g /\ u = [list |-> u.list, heap |-> u.heap]
  BY <1>10
<1> QED BY <1>4, <1>7, <1>8, <1>9, <1>11 DEF u, n

\* The calls on one entry: list_remove_entry, list_iter_remove, list_free,
\* and their counterparts of slist.c.
LEMMA RemoveEntryD ==
  ASSUME NEW s, DOK(list, heap, s), NEW k \in 1 .. Len(s), Doubly!RemoveEntry(s[k])
  PROVE  /\ DOK(list', heap', Cut(s, k))
         /\ Vals(heap', Cut(s, k)) = RemoveAt(Vals(heap, s), k)
         /\ list' = IF k = 1 THEN heap[s[k]].next ELSE list
         /\ DHeap(heap') /\ Unlinked(heap', heap, s, k)
<1> DEFINE u == Doubly!Unlink(list, heap, s[k])
<1>1. list' = u.list /\ heap' = u.heap
  BY DEF Doubly!RemoveEntry
<1>2. /\ u.list = IF k = 1 THEN heap[s[k]].next ELSE list
      /\ DHeap(u.heap)
      /\ Unlinked(u.heap, heap, s, k)
      /\ BackUnlinked(u.heap, heap, s, k)
  BY UnlinkD
<1> HIDE DEF u
<1>3. /\ DOK(IF k = 1 THEN heap[s[k]].next ELSE list, u.heap, Cut(s, k))
      /\ Vals(u.heap, Cut(s, k)) = RemoveAt(Vals(heap, s), k)
  BY <1>2, CutD
<1> QED BY <1>1, <1>2, <1>3

\* The link that slist_remove_entry searches is the only one to the entry.
LEMMA LinkToIs ==
  ASSUME NEW s, SOK(list, heap, s), NEW k \in 1 .. Len(s)
  PROVE  Singly!LinkTo(s[k]) = IF k = 1 THEN ROOT ELSE s[k - 1]
<1>1. /\ Len(s) \in Nat
      /\ \A i \in 1 .. Len(s) : s[i] \in DOMAIN heap
      /\ \A i, j \in 1 .. Len(s) : s[i] = s[j] => i = j
      /\ list = IF Len(s) = 0 THEN NULL ELSE s[1]
      /\ \A i \in 1 .. Len(s) : heap[s[i]].next = IF i = Len(s) THEN NULL ELSE s[i + 1]
  <2>1. /\ Len(s) \in Nat
        /\ \A i \in 1 .. Len(s) : s[i] \in DOMAIN heap
        /\ \A i, j \in 1 .. Len(s) : s[i] = s[j] => i = j
    BY SCore
  <2>2. /\ list = IF Len(s) = 0 THEN NULL ELSE s[1]
        /\ \A i \in 1 .. Len(s) :
             heap[s[i]].next = IF i = Len(s) THEN NULL ELSE s[i + 1]
    BY SLinks
  <2> QED BY <2>1, <2>2
<1>2. list = s[k] <=> k = 1
  BY <1>1
<1>3. CASE k = 1
  BY <1>2, <1>3 DEF Singly!LinkTo
<1>4. CASE k # 1
  <2> DEFINE p == s[k - 1]
  <2>1. k - 1 \in 1 .. Len(s) /\ k - 1 # Len(s) /\ (k - 1) + 1 = k
    BY <1>1, <1>4
  <2>2. p \in DOMAIN heap /\ heap[p].next = s[k]
    BY <1>1, <2>1
  <2>3. ASSUME NEW q \in DOMAIN heap, heap[q].next = s[k] PROVE q = p
    <3>1. PICK i \in 1 .. Len(s) : q = s[i]
      BY SFacts
    <3>2. i # Len(s)
      <4>1. s[k] # NULL
        BY <1>1, NullOutside DEF SOK, SHeap
      <4> QED BY <1>1, <2>3, <3>1, <4>1
    <3>3. i + 1 \in 1 .. Len(s) /\ s[i + 1] = s[k]
      BY <1>1, <2>3, <3>1, <3>2
    <3>4. i = k - 1
      BY <1>1, <3>3
    <3> QED BY <3>1, <3>4
  <2> HIDE DEF p
  <2>4. (CHOOSE q \in DOMAIN heap : heap[q].next = s[k]) = p
    BY <2>2, <2>3
  <2> QED BY <1>2, <1>4, <2>4 DEF Singly!LinkTo, p
<1> QED BY <1>3, <1>4

\* slist_remove_entry takes the k-th entry and its value out.
LEMMA RemoveEntryS ==
  ASSUME NEW s, SOK(list, heap, s), NEW k \in 1 .. Len(s), Singly!RemoveEntry(s[k])
  PROVE  /\ SOK(list', heap', Cut(s, k))
         /\ Vals(heap', Cut(s, k)) = RemoveAt(Vals(heap, s), k)
         /\ list' = IF k = 1 THEN heap[s[k]].next ELSE list
         /\ SHeap(heap') /\ Unlinked(heap', heap, s, k)
<1> DEFINE m == Singly!Memory
           address == Singly!LinkTo(s[k])
           u == Singly!CutOut(m, address)
<1>1. list' = u.list /\ heap' = u.heap
  BY DEF Singly!RemoveEntry, Singly!Becomes
<1>2. m = [list |-> list, heap |-> heap]
  BY DEF Singly!Memory
<1>3. address = IF k = 1 THEN ROOT ELSE s[k - 1]
  BY LinkToIs
<1> HIDE DEF m, address
<1>4. /\ u.list = IF k = 1 THEN heap[s[k]].next ELSE list
      /\ SHeap(u.heap)
      /\ Unlinked(u.heap, heap, s, k)
  BY <1>2, <1>3, CutOutS
<1> HIDE DEF u
<1>5. /\ SOK(IF k = 1 THEN heap[s[k]].next ELSE list, u.heap, Cut(s, k))
      /\ Vals(u.heap, Cut(s, k)) = RemoveAt(Vals(heap, s), k)
  BY <1>4, CutS
<1> QED BY <1>1, <1>4, <1>5

\* list_free frees every entry.
LEMMA FreeD ==
  ASSUME NEW s, DOK(list, heap, s), Doubly!Free
  PROVE  DOK(list', heap', <<>>)
<1>1. Doubly!Walk(heap, list) = s
  BY OrderIs DEF DOK, DHeap
<1>2. DOMAIN heap \ Range(s) = {}
  BY DEF DOK
<1>3. heap' = [c \in {} |-> heap[c]] /\ list' = NULL
  <2>1. Doubly!Range(Doubly!Order) = Range(s)
    BY <1>1 DEF Doubly!Order, Doubly!Range, Range
  <2> QED BY <1>2, <2>1 DEF Doubly!Free
<1>4. heap' = Doubly!NoHeap
  <2>1. [c \in {} |-> heap[c]] = [c \in {} |-> NULL]
    OBVIOUS
  <2> QED BY <1>3, <2>1 DEF Doubly!NoHeap
<1> QED BY <1>3, <1>4, EmptyD

\* slist_free frees every entry.
LEMMA FreeS ==
  ASSUME NEW s, SOK(list, heap, s), Singly!Free
  PROVE  SOK(list', heap', <<>>)
<1>1. Singly!Walk(heap, list) = s
  BY OrderIs DEF SOK, SHeap
<1>2. DOMAIN heap \ Range(s) = {}
  BY DEF SOK
<1>3. heap' = [c \in {} |-> heap[c]] /\ list' = NULL
  <2>1. Singly!Range(Singly!Order) = Range(s)
    BY <1>1 DEF Singly!Order, Singly!Range, Range
  <2> QED BY <1>2, <2>1 DEF Singly!Free
<1>4. heap' = Singly!NoHeap
  <2>1. [c \in {} |-> heap[c]] = [c \in {} |-> NULL]
    OBVIOUS
  <2> QED BY <1>3, <2>1 DEF Singly!NoHeap
<1> QED BY <1>3, <1>4, EmptyD

\* The iterator removes its current entry through the link that leads to it.
LEMMA IterRemoveD ==
  ASSUME NEW s, DOK(list, heap, s), NEW k \in 1 .. Len(s), Doubly!IterRemove,
         iter.current = s[k], iter.prev_next = IF k = 1 THEN ROOT ELSE s[k - 1]
  PROVE  /\ DOK(list', heap', Cut(s, k))
         /\ Vals(heap', Cut(s, k)) = RemoveAt(Vals(heap, s), k)
         /\ list' = IF k = 1 THEN heap[s[k]].next ELSE list
         /\ DHeap(heap') /\ Unlinked(heap', heap, s, k)
<1> DEFINE c == s[k]
           n == heap[c].next
           p == heap[c].prev
           h == IF n = NULL THEN heap ELSE Doubly!SetPrev(heap, n, p)
           f == IF iter.prev_next = ROOT THEN h ELSE Doubly!SetNext(h, iter.prev_next, n)
           g == Doubly!Dealloc(f, c)
<1>1. list' = (IF iter.prev_next = ROOT THEN n ELSE list) /\ heap' = g
  BY DEF Doubly!IterRemove
<1>2. /\ Len(s) \in Nat
      /\ \A i \in 1 .. Len(s) : s[i] \in DOMAIN heap
      /\ \A i, j \in 1 .. Len(s) : s[i] = s[j] => i = j
      /\ n = IF k = Len(s) THEN NULL ELSE s[k + 1]
      /\ p = IF k = 1 THEN NULL ELSE s[k - 1]
  BY DCore, DLinks
<1>3. DHeap(heap)
  BY DEF DOK
<1>4. p \in Doubly!Pointer /\ n \in Doubly!Pointer
  BY <1>2, <1>3, DFields
<1> HIDE DEF p, n
<1>5. /\ iter.prev_next = ROOT <=> k = 1
      /\ n = NULL <=> k = Len(s)
      /\ k # 1 => s[k - 1] \in DOMAIN heap
      /\ n # NULL => n \in DOMAIN heap
  <2>1. k # 1 => k - 1 \in 1 .. Len(s)
    BY <1>2
  <2>2. k # Len(s) => k + 1 \in 1 .. Len(s)
    BY <1>2
  <2>3. NULL \notin DOMAIN heap /\ ROOT \notin DOMAIN heap
    BY <1>3, NullOutside DEF DHeap
  <2> QED BY <1>2, <2>1, <2>2, <2>3
<1>6. /\ DHeap(h)
      /\ DOMAIN h = DOMAIN heap
      /\ \A x \in DOMAIN heap :
           /\ h[x].data = heap[x].data
           /\ h[x].next = heap[x].next
           /\ h[x].prev = IF n # NULL /\ x = n THEN p ELSE heap[x].prev
  <2>1. CASE n = NULL
    BY <1>3, <2>1
  <2>2. CASE n # NULL
    <3> DEFINE q == Doubly!SetPrev(heap, n, p)
    <3>1. DHeap(q) /\ PrevIs(q, heap, n, p)
      BY <1>3, <1>4, <1>5, <2>2, SetPrevD
    <3>2. h = q
      BY <2>2
    <3> HIDE DEF q, h
    <3> QED BY <2>2, <3>1, <3>2 DEF PrevIs
  <2> QED BY <2>1, <2>2
<1> HIDE DEF h
<1>7. /\ DHeap(f)
      /\ DOMAIN f = DOMAIN heap
      /\ \A x \in DOMAIN heap :
           /\ f[x].data = heap[x].data
           /\ f[x].prev = h[x].prev
           /\ f[x].next = IF k # 1 /\ x = s[k - 1] THEN n ELSE heap[x].next
  <2>1. CASE k = 1
    BY <1>5, <1>6, <2>1
  <2>2. CASE k # 1
    <3> DEFINE q == Doubly!SetNext(h, s[k - 1], n)
    <3>1. s[k - 1] \in DOMAIN h
      BY <1>5, <1>6, <2>2
    <3>2. DHeap(q) /\ NextIs(q, h, s[k - 1], n)
      BY <1>4, <1>6, <3>1, SetNextD
    <3>3. f = q
      BY <1>5, <2>2
    <3> HIDE DEF q, f
    <3> QED BY <1>6, <2>2, <3>2, <3>3 DEF NextIs
  <2> QED BY <2>1, <2>2
<1> HIDE DEF f
<1>8. \A x \in DOMAIN heap :
        /\ f[x].data = heap[x].data
        /\ f[x].next = IF k # 1 /\ x = s[k - 1] THEN heap[s[k]].next ELSE heap[x].next
        /\ f[x].prev = IF k # Len(s) /\ x = s[k + 1] THEN heap[s[k]].prev ELSE heap[x].prev
  <2>1. n = heap[s[k]].next /\ p = heap[s[k]].prev
    BY DEF n, p
  <2>2. \A x \in DOMAIN heap : (n # NULL /\ x = n) <=> (k # Len(s) /\ x = s[k + 1])
    BY <1>2, <1>5
  <2> QED BY <1>6, <1>7, <2>1, <2>2
<1>9. DHeap(g) /\ Unlinked(g, heap, s, k) /\ BackUnlinked(g, heap, s, k)
  BY <1>7, <1>8, AroundD
<1> HIDE DEF g
<1>10. /\ DOK(IF k = 1 THEN heap[s[k]].next ELSE list, g, Cut(s, k))
       /\ Vals(g, Cut(s, k)) = RemoveAt(Vals(heap, s), k)
  BY <1>9, CutD
<1>11. list' = IF k = 1 THEN heap[s[k]].next ELSE list
  BY <1>1, <1>5 DEF n
<1> QED BY <1>1, <1>9, <1>10, <1>11

\* slist_iter_remove takes its current entry out.
LEMMA IterRemoveS ==
  ASSUME NEW s, SOK(list, heap, s), NEW k \in 1 .. Len(s), Singly!IterRemove,
         iter.prev_next = IF k = 1 THEN ROOT ELSE s[k - 1]
  PROVE  /\ SOK(list', heap', Cut(s, k))
         /\ Vals(heap', Cut(s, k)) = RemoveAt(Vals(heap, s), k)
         /\ list' = IF k = 1 THEN heap[s[k]].next ELSE list
         /\ SHeap(heap') /\ Unlinked(heap', heap, s, k)
<1> DEFINE m == Singly!Memory
           address == iter.prev_next
           u == Singly!CutOut(m, address)
<1>1. list' = u.list /\ heap' = u.heap
  BY DEF Singly!IterRemove, Singly!Becomes
<1>2. m = [list |-> list, heap |-> heap]
  BY DEF Singly!Memory
<1>3. address = IF k = 1 THEN ROOT ELSE s[k - 1]
  OBVIOUS
<1> HIDE DEF m, address
<1>4. /\ u.list = IF k = 1 THEN heap[s[k]].next ELSE list
      /\ SHeap(u.heap)
      /\ Unlinked(u.heap, heap, s, k)
  BY <1>2, <1>3, CutOutS
<1> HIDE DEF u
<1>5. /\ SOK(IF k = 1 THEN heap[s[k]].next ELSE list, u.heap, Cut(s, k))
      /\ Vals(u.heap, Cut(s, k)) = RemoveAt(Vals(heap, s), k)
  BY <1>4, CutS
<1> QED BY <1>1, <1>4, <1>5

\* What follows the n-th entry of s.
Rest(s, n) == SubSeq(s, n + 1, Len(s))

\* The length and the members of what follows.
LEMMA RestIs ==
  ASSUME NEW S, NEW s \in Seq(S), NEW n \in 0 .. Len(s)
  PROVE  /\ Rest(s, n) \in Seq(S)
         /\ Len(Rest(s, n)) = Len(s) - n
         /\ \A i \in 1 .. Len(s) - n : Rest(s, n)[i] = s[n + i]
<1> DEFINE q == Rest(s, n)
           m == n + 1
           l == Len(s)
<1>1. l \in Nat /\ \A i \in 1 .. l : s[i] \in S
  BY SeqIs
<1>2. q = SubSeq(s, m, l)
  BY DEF Rest
<1>3. m \in 1 .. l + 1 /\ l \in m - 1 .. l
  BY <1>1
<1>4. /\ q \in Seq(S)
      /\ Len(q) = (IF m <= l THEN l - m + 1 ELSE 0)
      /\ \A i \in 1 .. l - m + 1 : q[i] = s[m + i - 1]
  <2> HIDE DEF q, l
  <2> QED BY <1>1, <1>2, <1>3, SubSeqProperties DEF l
<1>5. Len(q) = l - n
  <2>1. n \in 0 .. l
    OBVIOUS
  <2> HIDE DEF q, l
  <2> QED BY <1>1, <1>4, <2>1
<1>6. ASSUME NEW i \in 1 .. l - n PROVE q[i] = s[n + i]
  <2> HIDE DEF q, l
  <2>1. i \in 1 .. l - m + 1 /\ m + i - 1 = n + i
    BY <1>1
  <2> QED BY <1>4, <2>1
<1> QED BY <1>4, <1>5, <1>6

\* Nothing joined to a sequence.
LEMMA GlueEmpty ==
  ASSUME NEW S, NEW s \in Seq(S)
  PROVE  Glue(<<>>, s) = s /\ Glue(s, <<>>) = s
BY ConcatEmptySeq DEF Glue

\* What follows none and all of the entries.
LEMMA RestEnds ==
  ASSUME NEW S, NEW s \in Seq(S)
  PROVE  Rest(s, 0) = s /\ Rest(s, Len(s)) = <<>>
<1>1. Len(s) \in Nat /\ 0 \in 0 .. Len(s) /\ Len(s) \in 0 .. Len(s)
  BY SeqIs
<1>2. /\ Rest(s, 0) \in Seq(S) /\ Len(Rest(s, 0)) = Len(s)
      /\ \A i \in 1 .. Len(s) : Rest(s, 0)[i] = s[i]
  <2>1. /\ Rest(s, 0) \in Seq(S) /\ Len(Rest(s, 0)) = Len(s) - 0
        /\ \A i \in 1 .. Len(s) - 0 : Rest(s, 0)[i] = s[0 + i]
    BY <1>1, RestIs
  <2> QED BY <1>1, <2>1
<1>3. Rest(s, 0) = s
  BY <1>2, SeqEqual
<1>4. Rest(s, Len(s)) \in Seq(S) /\ Len(Rest(s, Len(s))) = 0
  <2>1. Rest(s, Len(s)) \in Seq(S) /\ Len(Rest(s, Len(s))) = Len(s) - Len(s)
    BY <1>1, RestIs
  <2> QED BY <1>1, <2>1
<1>5. Rest(s, Len(s)) = <<>>
  BY <1>4, EmptySeq
<1> QED BY <1>3, <1>5

\* A walk over s has passed its first n - 1 entries, of which K are left.
LEMMA Passing ==
  ASSUME NEW S, NEW s \in Seq(S), NEW K \in Seq(S), NEW n \in 1 .. Len(s)
  PROVE  LET t == Glue(K, Rest(s, n - 1))
             k == Len(K) + 1
         IN  /\ k \in 1 .. Len(t)
             /\ t[k] = s[n]
             /\ k # 1 => t[k - 1] = K[Len(K)]
             /\ Cut(t, k) = Glue(K, Rest(s, n))
             /\ Glue(Glue(K, <<s[n]>>), Rest(s, n)) = t
<1> DEFINE r == Rest(s, n - 1)
           q == Rest(s, n)
           t == Glue(K, r)
           k == Len(K) + 1
           o == <<s[n]>>
           w == Glue(K, q)
           K1 == Glue(K, o)
           x == Glue(K1, q)
           a1 == Len(K)
           b1 == Len(s)
<1>1. a1 \in Nat /\ b1 \in Nat /\ s[n] \in S
  BY SeqIs
<1>2. /\ r \in Seq(S) /\ Len(r) = b1 - (n - 1)
      /\ \A i \in 1 .. b1 - (n - 1) : r[i] = s[(n - 1) + i]
  <2>1. n - 1 \in 0 .. Len(s)
    BY <1>1
  <2> QED BY <2>1, RestIs
<1>3. /\ q \in Seq(S) /\ Len(q) = b1 - n
      /\ \A i \in 1 .. b1 - n : q[i] = s[n + i]
  <2>1. n \in 0 .. Len(s)
    BY <1>1
  <2> QED BY <2>1, RestIs
<1>4. o \in Seq(S) /\ Len(o) = 1 /\ o[1] = s[n]
  BY <1>1, One
<1> HIDE DEF r, q, o
<1>5. /\ t \in Seq(S)
      /\ Len(t) = a1 + Len(r)
      /\ \A i \in 1 .. a1 : t[i] = K[i]
      /\ \A i \in 1 .. Len(r) : t[a1 + i] = r[i]
  <2>1. IsGlue(S, K, r)
    BY <1>2, GlueFacts
  <2> QED BY <2>1 DEF IsGlue
<1>6. /\ w \in Seq(S)
      /\ Len(w) = a1 + Len(q)
      /\ \A i \in 1 .. a1 : w[i] = K[i]
      /\ \A i \in 1 .. Len(q) : w[a1 + i] = q[i]
  <2>1. IsGlue(S, K, q)
    BY <1>3, GlueFacts
  <2> QED BY <2>1 DEF IsGlue
<1>7. /\ K1 \in Seq(S)
      /\ Len(K1) = a1 + 1
      /\ \A i \in 1 .. a1 : K1[i] = K[i]
      /\ K1[a1 + 1] = s[n]
  <2>1. IsGlue(S, K, o)
    BY <1>4, GlueFacts
  <2>2. /\ K1 \in Seq(S)
        /\ Len(K1) = a1 + Len(o)
        /\ \A i \in 1 .. a1 : K1[i] = K[i]
        /\ \A i \in 1 .. Len(o) : K1[a1 + i] = o[i]
    BY <2>1 DEF IsGlue
  <2>3. 1 \in 1 .. Len(o)
    BY <1>4
  <2> HIDE DEF K1, a1
  <2> QED BY <1>4, <2>2, <2>3
<1> HIDE DEF K1
<1>8. /\ x \in Seq(S)
      /\ Len(x) = Len(K1) + Len(q)
      /\ \A i \in 1 .. Len(K1) : x[i] = K1[i]
      /\ \A i \in 1 .. Len(q) : x[Len(K1) + i] = q[i]
  <2>1. IsGlue(S, K1, q)
    BY <1>3, <1>7, GlueFacts
  <2> QED BY <2>1 DEF IsGlue
<1> HIDE DEF t, w, x
<1> HIDE DEF a1, b1
<1>9. /\ Len(t) = a1 + b1 - n + 1 /\ Len(w) = a1 + b1 - n /\ Len(x) = Len(t)
      /\ k = a1 + 1 /\ k \in 1 .. Len(t)
  BY <1>1, <1>2, <1>3, <1>5, <1>6, <1>7, <1>8 DEF a1, b1
<1>10. \A i \in 1 .. Len(t) : t[i] = IF i <= a1 THEN K[i] ELSE s[n + i - a1 - 1]
  <2> SUFFICES ASSUME NEW i \in 1 .. Len(t)
               PROVE  t[i] = IF i <= a1 THEN K[i] ELSE s[n + i - a1 - 1]
    OBVIOUS
  <2>1. CASE i <= a1
    <3>1. i \in 1 .. a1
      BY <1>1, <2>1
    <3> QED BY <1>5, <2>1, <3>1
  <2>2. CASE ~(i <= a1)
    <3> DEFINE j == i - a1
    <3>1. j \in 1 .. Len(r) /\ a1 + j = i /\ j \in 1 .. b1 - (n - 1)
          /\ (n - 1) + j = n + i - a1 - 1
      BY <1>1, <1>2, <1>9, <2>2 DEF b1
    <3> HIDE DEF j
    <3> QED BY <1>2, <1>5, <2>2, <3>1
  <2> QED BY <2>1, <2>2
<1>11. \A i \in 1 .. Len(w) : w[i] = IF i <= a1 THEN K[i] ELSE s[n + i - a1]
  <2> SUFFICES ASSUME NEW i \in 1 .. Len(w)
               PROVE  w[i] = IF i <= a1 THEN K[i] ELSE s[n + i - a1]
    OBVIOUS
  <2>1. CASE i <= a1
    <3>1. i \in 1 .. a1
      BY <1>1, <2>1
    <3> QED BY <1>6, <2>1, <3>1
  <2>2. CASE ~(i <= a1)
    <3> DEFINE j == i - a1
    <3>1. j \in 1 .. Len(q) /\ a1 + j = i /\ j \in 1 .. b1 - n /\ n + j = n + i - a1
      BY <1>1, <1>3, <1>9, <2>2 DEF b1
    <3> HIDE DEF j
    <3> QED BY <1>3, <1>6, <2>2, <3>1
  <2> QED BY <2>1, <2>2
<1>12. t[k] = s[n]
  <2>1. n + k - a1 - 1 = n /\ ~(k <= a1)
    BY <1>1, <1>9 DEF b1
  <2> QED BY <1>9, <1>10, <2>1
<1>13. k # 1 => t[k - 1] = K[a1]
  <2>1. k # 1 => k - 1 \in 1 .. Len(t) /\ k - 1 = a1 /\ a1 <= a1
    BY <1>1, <1>9
  <2> QED BY <1>10, <2>1
<1>14. Cut(t, k) = w
  <2>1. /\ Cut(t, k) \in Seq(S)
        /\ Len(Cut(t, k)) = Len(t) - 1
        /\ \A i \in 1 .. Len(t) - 1 : Cut(t, k)[i] = IF i < k THEN t[i] ELSE t[i + 1]
    <3>1. k \in 1 .. Len(t)
      BY <1>9
    <3> HIDE DEF k
    <3> QED BY <1>5, <3>1, CutFacts
  <2>2. Len(Cut(t, k)) = Len(w)
    <3>1. Len(t) - 1 = Len(w)
      <4>1. n \in Int
        OBVIOUS
      <4> HIDE DEF k
      <4> QED BY <1>1, <1>9, <4>1
    <3> QED BY <2>1, <3>1
  <2>3. ASSUME NEW i \in 1 .. Len(w) PROVE Cut(t, k)[i] = w[i]
    <3>1. i \in 1 .. Len(t) - 1 /\ i \in 1 .. Len(t) /\ i + 1 \in 1 .. Len(t)
      BY <1>1, <1>9
    <3>2. CASE i <= a1
      <4>1. i < k
        BY <1>1, <1>9, <3>2
      <4> QED BY <1>10, <1>11, <2>1, <3>1, <3>2, <4>1
    <3>3. CASE ~(i <= a1)
      <4>1. ~(i < k) /\ ~(i + 1 <= a1) /\ n + (i + 1) - a1 - 1 = n + i - a1
        BY <1>1, <1>9, <3>3
      <4> QED BY <1>10, <1>11, <2>1, <3>1, <3>3, <4>1
    <3> QED BY <3>2, <3>3
  <2> HIDE DEF k
  <2> QED BY <1>6, <2>1, <2>2, <2>3, SeqEqual
<1>15. x = t
  <2>1. ASSUME NEW i \in 1 .. Len(x) PROVE x[i] = t[i]
    <3>0. i \in 1 .. Len(t)
      BY <1>9
    <3>1. CASE i <= a1
      <4>1. i \in 1 .. Len(K1) /\ i \in 1 .. a1
        BY <1>1, <1>7, <3>1
      <4> QED BY <1>7, <1>8, <1>10, <3>0, <3>1, <4>1
    <3>2. CASE i = a1 + 1
      <4>1. i \in 1 .. Len(K1) /\ ~(i <= a1) /\ n + i - a1 - 1 = n
        BY <1>1, <1>7, <3>2 DEF b1
      <4> QED BY <1>7, <1>8, <1>10, <3>0, <3>2, <4>1
    <3>3. CASE i > a1 + 1
      <4> DEFINE j == i - (a1 + 1)
      <4>1. j \in 1 .. Len(q) /\ Len(K1) + j = i /\ j \in 1 .. b1 - n
            /\ n + j = n + i - a1 - 1 /\ ~(i <= a1)
        BY <1>1, <1>3, <1>7, <1>9, <3>3 DEF b1
      <4> HIDE DEF j
      <4> QED BY <1>3, <1>8, <1>10, <3>0, <4>1
    <3> QED BY <1>1, <1>9, <3>1, <3>2, <3>3
  <2> QED BY <1>5, <1>8, <1>9, <2>1, SeqEqual
<1> QED BY <1>9, <1>12, <1>13, <1>14, <1>15 DEF t, w, x, r, q, K1, o, a1

\* The values of w that are in S, after n turns of the walk in Selected.
UptoIs(w, S, f) ==
  f = [n \in 0 .. Len(w) |->
         IF n = 0 THEN <<>>
         ELSE IF w[n] \in S THEN Append(f[n - 1], w[n]) ELSE f[n - 1]]
Upto(w, S) == CHOOSE f : UptoIs(w, S, f)

\* The recursive function of the walk in Selected is one.
LEMMA UptoExists ==
  ASSUME NEW w \in Seq(Value), NEW S
  PROVE  UptoIs(w, S, Upto(w, S))
<1> DEFINE N == Len(w)
           Step(m, n) == IF w[n] \in S THEN Append(m, w[n]) ELSE m
           Till(k, f) == f = [n \in 0 .. k |-> IF n = 0 THEN <<>> ELSE Step(f[n - 1], n)]
           Reached == {k \in 0 .. N : \E f : Till(k, f)}
<1>1. N \in Nat
  BY SeqIs
<1> HIDE DEF N, Step
<1>2. 0 \in Reached
  <2>1. Till(0, [n \in 0 .. 0 |-> <<>>])
    OBVIOUS
  <2> HIDE DEF Till
  <2> QED BY <1>1, <2>1
<1>3. ASSUME NEW k \in 1 .. N, k - 1 \in Reached PROVE k \in Reached
  <2>1. PICK f : Till(k - 1, f)
    BY <1>3
  <2> DEFINE g == [n \in 0 .. k |-> IF n = k THEN Step(f[k - 1], k) ELSE f[n]]
  <2>2. \A n \in 0 .. k - 1 : f[n] = IF n = 0 THEN <<>> ELSE Step(f[n - 1], n)
    BY <2>1
  <2>3. ASSUME NEW n \in 0 .. k PROVE g[n] = IF n = 0 THEN <<>> ELSE Step(g[n - 1], n)
    <3>1. CASE n = k
      BY <1>1, <3>1
    <3>2. CASE n # k /\ n # 0
      <4>1. n \in 0 .. k - 1 /\ n - 1 \in 0 .. k /\ n - 1 # k
        BY <1>1, <3>2
      <4>2. g[n] = f[n] /\ g[n - 1] = f[n - 1]
        BY <3>2, <4>1
      <4> HIDE DEF g
      <4> QED BY <2>2, <3>2, <4>1, <4>2
    <3>3. CASE n = 0
      <4>1. n \in 0 .. k - 1 /\ n # k
        BY <1>1, <3>3
      <4> QED BY <2>2, <3>3, <4>1
    <3> QED BY <3>1, <3>2, <3>3
  <2>4. g = [n \in 0 .. k |-> IF n = 0 THEN <<>> ELSE Step(g[n - 1], n)]
    <3> DEFINE e == [n \in 0 .. k |-> IF n = 0 THEN <<>> ELSE Step(g[n - 1], n)]
    <3>1. g = [n \in 0 .. k |-> g[n]]
      OBVIOUS
    <3> HIDE DEF g
    <3> QED BY <2>3, <3>1
  <2> HIDE DEF g
  <2>5. k \in 0 .. N
    BY <1>1
  <2> QED BY <2>4, <2>5
<1>4. N \in Reached
  <2>1. Reached \subseteq 0 .. N
    OBVIOUS
  <2> HIDE DEF Reached
  <2>2. Reached = 0 .. N
    BY <1>1, <1>2, <1>3, <2>1, UpTo
  <2> QED BY <1>1, <2>2
<1>5. \E f : UptoIs(w, S, f)
  BY <1>4 DEF UptoIs, N, Step
<1> QED BY <1>5 DEF Upto

\* Selected is what its walk has after the last turn.
LEMMA SelectedIs ==
  ASSUME NEW w \in Seq(Value), NEW S
  PROVE  Sequences!Selected(w, S) = Upto(w, S)[Len(w)]
BY DEF Sequences!Selected, Upto, UptoIs

\* One turn of the walk.
LEMMA UptoTurns ==
  ASSUME NEW w \in Seq(Value), NEW S
  PROVE  /\ Upto(w, S)[0] = <<>>
         /\ \A n \in 1 .. Len(w) :
              Upto(w, S)[n] = IF w[n] \in S THEN Append(Upto(w, S)[n - 1], w[n])
                              ELSE Upto(w, S)[n - 1]
<1> DEFINE f == Upto(w, S)
<1>1. Len(w) \in Nat
  BY SeqIs
<1>2. f = [n \in 0 .. Len(w) |->
             IF n = 0 THEN <<>>
             ELSE IF w[n] \in S THEN Append(f[n - 1], w[n]) ELSE f[n - 1]]
  BY UptoExists DEF UptoIs
<1> HIDE DEF f
<1>3. f[0] = <<>>
  BY <1>1, <1>2
<1>4. ASSUME NEW n \in 1 .. Len(w)
      PROVE  f[n] = IF w[n] \in S THEN Append(f[n - 1], w[n]) ELSE f[n - 1]
  <2>1. n \in 0 .. Len(w) /\ n # 0
    BY <1>1
  <2> QED BY <1>2, <2>1
<1> QED BY <1>3, <1>4 DEF f

\* After n turns as many values were kept as are in S among the first n.
LEMMA UptoCount ==
  ASSUME NEW w \in Seq(Value), NEW S, NEW n \in 0 .. Len(w)
  PROVE  /\ Upto(w, S)[n] \in Seq(Value)
         /\ Len(Upto(w, S)[n]) = Cardinality({i \in 1 .. n : w[i] \in S})
<1> DEFINE f == Upto(w, S)
           N == Len(w)
           T(k) == {i \in 1 .. k : w[i] \in S}
           Good == {k \in 0 .. N : /\ f[k] \in Seq(Value)
                                   /\ Len(f[k]) = Cardinality(T(k))}
<1>1. N \in Nat /\ \A i \in 1 .. N : w[i] \in Value
  BY SeqIs
<1>2. /\ f[0] = <<>>
      /\ \A k \in 1 .. N :
           f[k] = IF w[k] \in S THEN Append(f[k - 1], w[k]) ELSE f[k - 1]
  BY UptoTurns
<1> HIDE DEF f, N
<1>3. 0 \in Good
  <2>1. T(0) = {}
    OBVIOUS
  <2>2. Cardinality(T(0)) = 0
    BY <2>1, FS_EmptySet
  <2>3. f[0] \in Seq(Value) /\ Len(f[0]) = 0
    BY <1>2
  <2> QED BY <1>1, <2>2, <2>3
<1>4. ASSUME NEW k \in 1 .. N, k - 1 \in Good PROVE k \in Good
  <2>1. k - 1 \in Nat /\ k \in 0 .. N
    BY <1>1
  <2>2. f[k - 1] \in Seq(Value) /\ Len(f[k - 1]) = Cardinality(T(k - 1))
    BY <1>4
  <2>3. IsFiniteSet(T(k - 1))
    <3>1. IsFiniteSet(1 .. k - 1)
      BY <2>1, FS_Interval
    <3> QED BY <3>1, FS_Subset
  <2>4. CASE w[k] \in S
    <3>1. T(k) = T(k - 1) \cup {k} /\ k \notin T(k - 1)
      BY <1>1, <2>4
    <3> HIDE DEF T
    <3>2. Cardinality(T(k)) = Cardinality(T(k - 1)) + 1
      BY <2>3, <3>1, FS_AddElement
    <3>3. f[k] = Append(f[k - 1], w[k]) /\ w[k] \in Value
      BY <1>1, <1>2, <2>4
    <3>4. f[k] \in Seq(Value) /\ Len(f[k]) = Len(f[k - 1]) + 1
      BY <2>2, <3>3, AppendProperties
    <3> QED BY <2>1, <2>2, <3>2, <3>4
  <2>5. CASE w[k] \notin S
    <3>1. T(k) = T(k - 1)
      BY <1>1, <2>5
    <3> HIDE DEF T
    <3>2. f[k] = f[k - 1]
      BY <1>2, <2>5
    <3> QED BY <2>1, <2>2, <3>1, <3>2
  <2> QED BY <2>4, <2>5
<1>5. Good = 0 .. N
  <2>1. Good \subseteq 0 .. N
    OBVIOUS
  <2> HIDE DEF Good
  <2> QED BY <1>1, <1>3, <1>4, <2>1, UpTo
<1> QED BY <1>5 DEF f, N

CountSame(s, T) == Cardinality({s[i] : i \in T}) = Cardinality(T)

\* Entries are counted by their places in the order.
LEMMA CountAlong ==
  ASSUME NEW S, NEW s \in Seq(S), NEW T, T \subseteq 1 .. Len(s),
         \A i, j \in 1 .. Len(s) : s[i] = s[j] => i = j
  PROVE  IsFiniteSet(T) /\ CountSame(s, T)
<1> DEFINE f == [i \in T |-> s[i]]
           R == {s[i] : i \in T}
<1>1. IsFiniteSet(T)
  <2>1. Len(s) \in Nat
    BY SeqIs
  <2>2. IsFiniteSet(1 .. Len(s))
    BY <2>1, FS_Interval
  <2> QED BY <2>2, FS_Subset
<1>2. f \in Bijection(T, R)
  <2>1. f \in [T -> R]
    OBVIOUS
  <2>2. f \in Injection(T, R)
    BY <2>1 DEF Injection, IsInjective
  <2>3. f \in Surjection(T, R)
    BY <2>1 DEF Surjection
  <2> QED BY <2>2, <2>3 DEF Bijection
<1>3. ExistsBijection(T, R)
  BY <1>2 DEF ExistsBijection
<1> HIDE DEF R
<1>4. Cardinality(R) = Cardinality(T)
  BY <1>1, <1>3, FS_Bijection
<1> QED BY <1>1, <1>4 DEF R, CountSame

CountIs(h, s, V) ==
  Cardinality({c \in Range(s) : h[c].data \in V})
    = Cardinality({i \in 1 .. Len(s) : Vals(h, s)[i] \in V})

\* The number of entries whose value is in V.
LEMMA CountValues ==
  ASSUME NEW h, NEW p, NEW s, Chain(h, p, s), \A x \in DOMAIN h : h[x].data \in Value,
         NEW V
  PROVE  CountIs(h, s, V)
<1> DEFINE T == {i \in 1 .. Len(s) : h[s[i]].data \in V}
<1>1. /\ s \in Seq(DOMAIN h)
      /\ \A i, j \in 1 .. Len(s) : s[i] = s[j] => i = j
  BY ChainFacts
<1>2. {c \in Range(s) : h[c].data \in V} = {s[i] : i \in T}
  BY <1>1, RangeIs
<1>3. \A i \in 1 .. Len(s) : Vals(h, s)[i] = h[s[i]].data
  BY <1>1, ValsSeq
<1>4. {i \in 1 .. Len(s) : Vals(h, s)[i] \in V} = T
  BY <1>3
<1>5. T \subseteq 1 .. Len(s)
  OBVIOUS
<1> HIDE DEF T
<1>6. CountSame(s, T)
  BY <1>1, <1>5, CountAlong
<1> QED BY <1>2, <1>4, <1>6 DEF CountSame, CountIs

\* What the callbacks take for equal to d, and what they do not.
Alike(d) == {x \in Value : Rank[x] = Rank[d]}
Unlike(d) == {x \in Value : Rank[x] # Rank[d]}

\* list_remove_data leaves exactly the entries whose values are not equal to d.
SweepTurns(s, d, g) ==
  g = [n \in 0 .. Len(s) |->
         IF n = 0 THEN [list |-> list, heap |-> heap]
         ELSE Doubly!SweepTurn(g[n - 1], s[n], d)]

\* The recursive function of the loop in list_remove_data is one.
LEMMA SweepTurnsD ==
  ASSUME NEW s, Len(s) \in Nat, NEW d
  PROVE  \E g : SweepTurns(s, d, g)
<1> DEFINE N == Len(s)
           m0 == [list |-> list, heap |-> heap]
           Step(m, n) == Doubly!SweepTurn(m, s[n], d)
           Till(k, f) == f = [n \in 0 .. k |-> IF n = 0 THEN m0 ELSE Step(f[n - 1], n)]
           Reached == {k \in 0 .. N : \E f : Till(k, f)}
<1>1. N \in Nat
  OBVIOUS
<1> HIDE DEF N, Step, m0
<1>2. 0 \in Reached
  <2>1. Till(0, [n \in 0 .. 0 |-> m0])
    OBVIOUS
  <2> HIDE DEF Till
  <2> QED BY <1>1, <2>1
<1>3. ASSUME NEW k \in 1 .. N, k - 1 \in Reached PROVE k \in Reached
  <2>1. PICK f : Till(k - 1, f)
    BY <1>3
  <2> DEFINE g == [n \in 0 .. k |-> IF n = k THEN Step(f[k - 1], k) ELSE f[n]]
  <2>2. \A n \in 0 .. k - 1 : f[n] = IF n = 0 THEN m0 ELSE Step(f[n - 1], n)
    BY <2>1
  <2>3. ASSUME NEW n \in 0 .. k PROVE g[n] = IF n = 0 THEN m0 ELSE Step(g[n - 1], n)
    <3>1. CASE n = k
      BY <1>1, <3>1
    <3>2. CASE n # k /\ n # 0
      <4>1. n \in 0 .. k - 1 /\ n - 1 \in 0 .. k /\ n - 1 # k
        BY <1>1, <3>2
      <4>2. g[n] = f[n] /\ g[n - 1] = f[n - 1]
        BY <3>2, <4>1
      <4> HIDE DEF g
      <4> QED BY <2>2, <3>2, <4>1, <4>2
    <3>3. CASE n = 0
      <4>1. n \in 0 .. k - 1 /\ n # k
        BY <1>1, <3>3
      <4> QED BY <2>2, <3>3, <4>1
    <3> QED BY <3>1, <3>2, <3>3
  <2>4. g = [n \in 0 .. k |-> IF n = 0 THEN m0 ELSE Step(g[n - 1], n)]
    <3>1. g = [n \in 0 .. k |-> g[n]]
      OBVIOUS
    <3> HIDE DEF g
    <3> QED BY <2>3, <3>1
  <2> HIDE DEF g
  <2>5. k \in 0 .. N
    BY <1>1
  <2> QED BY <2>4, <2>5
<1>4. N \in Reached
  <2>1. Reached \subseteq 0 .. N
    OBVIOUS
  <2> HIDE DEF Reached
  <2>2. Reached = 0 .. N
    BY <1>1, <1>2, <1>3, <2>1, UpTo
  <2> QED BY <1>1, <2>2
<1> QED BY <1>4 DEF SweepTurns, N, Step, m0

SweptD(s, d, n, m, K) ==
  /\ K \in Seq(DOMAIN heap)
  /\ DOK(m.list, m.heap, Glue(K, Rest(s, n)))
  /\ \A x \in DOMAIN m.heap : x \in DOMAIN heap /\ m.heap[x].data = heap[x].data
  /\ Vals(heap, K) = Upto(Vals(heap, s), Unlike(d))[n]

\* One turn of list_remove_data.
LEMMA SweepTurnD ==
  ASSUME NEW s, DOK(list, heap, s), NEW d \in Value, NEW n \in 1 .. Len(s), NEW m, NEW K,
         SweptD(s, d, n - 1, m, K)
  PROVE  \E J : SweptD(s, d, n, Doubly!SweepTurn(m, s[n], d), J)
<1> DEFINE t == Glue(K, Rest(s, n - 1))
           k == Len(K) + 1
           w == Vals(heap, s)
           f == Upto(w, Unlike(d))
           u == Doubly!Unlink(m.list, m.heap, t[k])
           S == DOMAIN heap
<1>1. s \in Seq(S) /\ Len(s) \in Nat /\ \A i \in 1 .. Len(s) : s[i] \in S
  BY DCore
<1>2. \A x \in S : heap[x].data \in Value
  BY DData DEF DOK
<1>3. /\ w \in Seq(Value) /\ Len(w) = Len(s)
      /\ w[n] = heap[s[n]].data
  BY <1>1, <1>2, ValsSeq
<1>4. K \in Seq(S) /\ DOK(m.list, m.heap, t) /\ Vals(heap, K) = f[n - 1]
      /\ \A x \in DOMAIN m.heap : x \in S /\ m.heap[x].data = heap[x].data
  BY DEF SweptD
<1>5. /\ k \in 1 .. Len(t)
      /\ t[k] = s[n]
      /\ Cut(t, k) = Glue(K, Rest(s, n))
      /\ Glue(Glue(K, <<s[n]>>), Rest(s, n)) = t
  BY <1>1, <1>4, Passing
<1>6. f[n] = IF w[n] \in Unlike(d) THEN Append(f[n - 1], w[n]) ELSE f[n - 1]
  BY <1>3, UptoTurns
<1>7. w[n] \in Unlike(d) <=> ~Doubly!Equal(heap[s[n]].data, d)
  BY <1>1, <1>2, <1>3 DEF Unlike, Doubly!Equal
<1> HIDE DEF f, w, t, k
<1>8. CASE Doubly!Equal(heap[s[n]].data, d)
  <2>1. Doubly!SweepTurn(m, s[n], d) = u
    BY <1>5, <1>8 DEF Doubly!SweepTurn
  <2>2. /\ u.list = IF k = 1 THEN m.heap[t[k]].next ELSE m.list
        /\ DHeap(u.heap)
        /\ Unlinked(u.heap, m.heap, t, k)
        /\ BackUnlinked(u.heap, m.heap, t, k)
    BY <1>4, <1>5, UnlinkD
  <2> HIDE DEF u
  <2>3. DOK(u.list, u.heap, Cut(t, k))
    BY <1>4, <1>5, <2>2, CutD
  <2>4. ASSUME NEW x \in DOMAIN u.heap PROVE x \in S /\ u.heap[x].data = heap[x].data
    <3>1. x \in DOMAIN m.heap /\ x # t[k]
      BY <2>2 DEF Unlinked
    <3>2. PICK i \in 1 .. Len(t) : x = t[i]
      BY <1>4, <3>1, DAt
    <3>3. u.heap[x].data = m.heap[x].data
      BY <2>2, <3>1, <3>2 DEF Unlinked
    <3> QED BY <1>4, <3>1, <3>3
  <2>5. Vals(heap, K) = f[n]
    BY <1>4, <1>6, <1>7, <1>8
  <2>6. SweptD(s, d, n, u, K)
    BY <1>4, <1>5, <2>3, <2>4, <2>5 DEF SweptD, f, w
  <2> QED BY <2>1, <2>6
<1>9. CASE ~Doubly!Equal(heap[s[n]].data, d)
  <2> DEFINE o == <<s[n]>>
             J == Glue(K, o)
  <2>1. Doubly!SweepTurn(m, s[n], d) = m
    BY <1>9 DEF Doubly!SweepTurn
  <2>2. o \in Seq(S) /\ Len(o) = 1 /\ o[1] = s[n]
    BY <1>1, One
  <2>3. Vals(heap, o) = <<w[n]>>
    BY <1>3, <2>2 DEF Vals
  <2>4. Glue(J, Rest(s, n)) = t
    BY <1>5
  <2> HIDE DEF o
  <2>5. J \in Seq(S)
    <3>1. IsGlue(S, K, o)
      BY <1>4, <2>2, GlueFacts
    <3> QED BY <3>1 DEF IsGlue
  <2>6. Vals(heap, J) = Vals(heap, K) \o Vals(heap, o)
    <3>1. K \in Seq(S) /\ o \in Seq(S)
      BY <1>4, <2>2
    <3> QED BY <1>2, <3>1, ValsGlue
  <2>7. Vals(heap, J) = f[n]
    <3>1. f[n - 1] \in Seq(Value) /\ w[n] \in Value
      <4>1. Vals(heap, K) \in Seq(Value)
        BY <1>2, <1>4, ValsSeq
      <4> QED BY <1>1, <1>2, <1>3, <1>4, <4>1
    <3>2. Append(f[n - 1], w[n]) = f[n - 1] \o <<w[n]>>
      BY <3>1, AppendIsConcat
    <3> QED BY <1>4, <1>6, <1>7, <1>9, <2>3, <2>6, <3>2
  <2> HIDE DEF J
  <2>8. SweptD(s, d, n, m, J)
    BY <1>4, <2>4, <2>5, <2>7 DEF SweptD, f, w
  <2> QED BY <2>1, <2>8
<1> QED BY <1>8, <1>9

\* All turns of list_remove_data.
LEMMA SweepD ==
  ASSUME DOK(list, heap, Doubly!Order), NEW d \in Value
  PROVE  \E K : /\ DOK(Doubly!Sweep(d).list, Doubly!Sweep(d).heap, K)
                /\ Vals(Doubly!Sweep(d).heap, K) =
                     Sequences!Others(Vals(heap, Doubly!Order), d)
<1> DEFINE s == Doubly!Order
           g == CHOOSE f : SweepTurns(s, d, f)
           N == Len(s)
           w == Vals(heap, s)
           S == DOMAIN heap
           Good == {n \in 0 .. N : \E K : SweptD(s, d, n, g[n], K)}
<1>1. Doubly!Sweep(d) = g[N]
  BY DEF Doubly!Sweep, Doubly!Length, SweepTurns
<1> HIDE DEF s
<1>2. s \in Seq(S) /\ N \in Nat
  BY DCore DEF s
<1>3. SweepTurns(s, d, g)
  BY <1>2, SweepTurnsD
<1> HIDE DEF g, N
<1>4. /\ g[0] = [list |-> list, heap |-> heap]
      /\ \A n \in 1 .. N : g[n] = Doubly!SweepTurn(g[n - 1], s[n], d)
  <2>1. g = [n \in 0 .. N |-> IF n = 0 THEN [list |-> list, heap |-> heap]
                              ELSE Doubly!SweepTurn(g[n - 1], s[n], d)]
    BY <1>3 DEF SweepTurns, N
  <2>2. 0 \in 0 .. N /\ \A n \in 1 .. N : n \in 0 .. N /\ n # 0
    BY <1>2
  <2> QED BY <2>1, <2>2
<1>5. \A x \in S : heap[x].data \in Value
  BY DData DEF DOK
<1>6. w \in Seq(Value) /\ Len(w) = N
  BY <1>2, <1>5, ValsSeq DEF N
<1>7. 0 \in Good
  <2>1. Glue(<<>>, Rest(s, 0)) = s
    BY <1>2, RestEnds, GlueEmpty
  <2>2. DOK(g[0].list, g[0].heap, Glue(<<>>, Rest(s, 0)))
    BY <1>4, <2>1 DEF s
  <2>3. <<>> \in Seq(DOMAIN heap)
    OBVIOUS
  <2>4. Upto(w, Unlike(d))[0] = <<>>
    BY <1>6, UptoTurns
  <2>5. Vals(heap, <<>>) = <<>>
    <3>1. Vals(heap, <<>>) \in Seq(Value) /\ Len(Vals(heap, <<>>)) = Len(<<>>)
      BY <1>5, <2>3, ValsSeq
    <3> QED BY <3>1, EmptySeq
  <2>6. SweptD(s, d, 0, g[0], <<>>)
    BY <1>4, <2>2, <2>3, <2>4, <2>5 DEF SweptD
  <2> QED BY <1>2, <2>6
<1>8. ASSUME NEW n \in 1 .. N, n - 1 \in Good PROVE n \in Good
  <2>1. PICK K : SweptD(s, d, n - 1, g[n - 1], K)
    BY <1>8
  <2>2. n \in 1 .. Len(s)
    BY DEF N
  <2>3. \E J : SweptD(s, d, n, Doubly!SweepTurn(g[n - 1], s[n], d), J)
    BY <2>1, <2>2, SweepTurnD DEF s
  <2>4. n \in 0 .. N
    BY <1>2
  <2> QED BY <1>4, <2>3, <2>4
<1>9. N \in Good
  <2>1. Good \subseteq 0 .. N
    OBVIOUS
  <2> HIDE DEF Good
  <2>2. Good = 0 .. N
    BY <1>2, <1>7, <1>8, <2>1, UpTo
  <2> QED BY <1>2, <2>2
<1>10. PICK K : SweptD(s, d, N, g[N], K)
  BY <1>9
<1>11. DOK(g[N].list, g[N].heap, K)
  <2>1. Rest(s, N) = <<>>
    BY <1>2, RestEnds DEF N
  <2>2. K \in Seq(S) /\ DOK(g[N].list, g[N].heap, Glue(K, Rest(s, N)))
    BY <1>10 DEF SweptD
  <2>3. Glue(K, <<>>) = K
    BY <2>2, GlueEmpty
  <2> QED BY <2>1, <2>2, <2>3
<1>12. Vals(g[N].heap, K) = Vals(heap, K)
  <2>1. K \in Seq(DOMAIN g[N].heap)
    BY <1>11, DCore
  <2>2. \A i \in 1 .. Len(K) : g[N].heap[K[i]].data = heap[K[i]].data
    BY <1>10, <2>1, SeqIs DEF SweptD
  <2> QED BY <2>2, SameVals
<1>13. Vals(heap, K) = Sequences!Others(w, d)
  <2>1. Sequences!Others(w, d) = Sequences!Selected(w, Unlike(d))
    BY DEF Sequences!Others, Unlike
  <2>2. Vals(heap, K) = Upto(w, Unlike(d))[N]
    BY <1>10 DEF SweptD
  <2> QED BY <1>6, <2>1, <2>2, SelectedIs
<1> QED BY <1>1, <1>11, <1>12, <1>13 DEF s

\* slist_remove_data leaves exactly the entries whose values are not equal to d.
SweepTurnsOf(s, d, g) ==
  g = [n \in 0 .. Len(s) |->
         IF n = 0 THEN [memory |-> Singly!Memory, rover |-> ROOT]
         ELSE Singly!SweepTurn(g[n - 1], s[n], d)]

\* The recursive function of the loop in slist_remove_data is one.
LEMMA SweepTurnsS ==
  ASSUME NEW s, Len(s) \in Nat, NEW d
  PROVE  \E g : SweepTurnsOf(s, d, g)
<1> DEFINE N == Len(s)
           m0 == [memory |-> Singly!Memory, rover |-> ROOT]
           Step(m, n) == Singly!SweepTurn(m, s[n], d)
           Till(k, f) == f = [n \in 0 .. k |-> IF n = 0 THEN m0 ELSE Step(f[n - 1], n)]
           Reached == {k \in 0 .. N : \E f : Till(k, f)}
<1>1. N \in Nat
  OBVIOUS
<1> HIDE DEF N, Step, m0
<1>2. 0 \in Reached
  <2>1. Till(0, [n \in 0 .. 0 |-> m0])
    OBVIOUS
  <2> HIDE DEF Till
  <2> QED BY <1>1, <2>1
<1>3. ASSUME NEW k \in 1 .. N, k - 1 \in Reached PROVE k \in Reached
  <2>1. PICK f : Till(k - 1, f)
    BY <1>3
  <2> DEFINE g == [n \in 0 .. k |-> IF n = k THEN Step(f[k - 1], k) ELSE f[n]]
  <2>2. \A n \in 0 .. k - 1 : f[n] = IF n = 0 THEN m0 ELSE Step(f[n - 1], n)
    BY <2>1
  <2>3. ASSUME NEW n \in 0 .. k PROVE g[n] = IF n = 0 THEN m0 ELSE Step(g[n - 1], n)
    <3>1. CASE n = k
      BY <1>1, <3>1
    <3>2. CASE n # k /\ n # 0
      <4>1. n \in 0 .. k - 1 /\ n - 1 \in 0 .. k /\ n - 1 # k
        BY <1>1, <3>2
      <4>2. g[n] = f[n] /\ g[n - 1] = f[n - 1]
        BY <3>2, <4>1
      <4> HIDE DEF g
      <4> QED BY <2>2, <3>2, <4>1, <4>2
    <3>3. CASE n = 0
      <4>1. n \in 0 .. k - 1 /\ n # k
        BY <1>1, <3>3
      <4> QED BY <2>2, <3>3, <4>1
    <3> QED BY <3>1, <3>2, <3>3
  <2>4. g = [n \in 0 .. k |-> IF n = 0 THEN m0 ELSE Step(g[n - 1], n)]
    <3>1. g = [n \in 0 .. k |-> g[n]]
      OBVIOUS
    <3> HIDE DEF g
    <3> QED BY <2>3, <3>1
  <2> HIDE DEF g
  <2>5. k \in 0 .. N
    BY <1>1
  <2> QED BY <2>4, <2>5
<1>4. N \in Reached
  <2>1. Reached \subseteq 0 .. N
    OBVIOUS
  <2> HIDE DEF Reached
  <2>2. Reached = 0 .. N
    BY <1>1, <1>2, <1>3, <2>1, UpTo
  <2> QED BY <1>1, <2>2
<1> QED BY <1>4 DEF SweepTurnsOf, N, Step, m0

SweptS(s, d, n, r, K) ==
  /\ r = [memory |-> r.memory, rover |-> r.rover]
  /\ r.memory = [list |-> r.memory.list, heap |-> r.memory.heap]
  /\ r.rover = IF Len(K) = 0 THEN ROOT ELSE K[Len(K)]
  /\ K \in Seq(DOMAIN heap)
  /\ SOK(r.memory.list, r.memory.heap, Glue(K, Rest(s, n)))
  /\ \A x \in DOMAIN r.memory.heap : /\ x \in DOMAIN heap
                                      /\ r.memory.heap[x].data = heap[x].data
  /\ Vals(heap, K) = Upto(Vals(heap, s), Unlike(d))[n]

\* One turn of slist_remove_data.
LEMMA SweepTurnS ==
  ASSUME NEW s, SOK(list, heap, s), NEW d \in Value, NEW n \in 1 .. Len(s), NEW r, NEW K,
         SweptS(s, d, n - 1, r, K)
  PROVE  \E J : SweptS(s, d, n, Singly!SweepTurn(r, s[n], d), J)
<1> DEFINE t == Glue(K, Rest(s, n - 1))
           k == Len(K) + 1
           w == Vals(heap, s)
           f == Upto(w, Unlike(d))
           m == r.memory
           u == Singly!CutOut(m, r.rover)
           v == [memory |-> u, rover |-> r.rover]
           S == DOMAIN heap
<1>1. s \in Seq(S) /\ Len(s) \in Nat /\ \A i \in 1 .. Len(s) : s[i] \in S
  BY SCore
<1>2. \A x \in S : heap[x].data \in Value
  BY SData DEF SOK
<1>3. /\ w \in Seq(Value) /\ Len(w) = Len(s)
      /\ w[n] = heap[s[n]].data
  BY <1>1, <1>2, ValsSeq
<1>4. /\ K \in Seq(S) /\ SOK(m.list, m.heap, t) /\ Vals(heap, K) = f[n - 1]
      /\ \A x \in DOMAIN m.heap : x \in S /\ m.heap[x].data = heap[x].data
      /\ r = [memory |-> m, rover |-> r.rover]
      /\ m = [list |-> m.list, heap |-> m.heap]
      /\ r.rover = IF Len(K) = 0 THEN ROOT ELSE K[Len(K)]
  BY DEF SweptS
<1>5. /\ k \in 1 .. Len(t)
      /\ t[k] = s[n]
      /\ k # 1 => t[k - 1] = K[Len(K)]
      /\ Cut(t, k) = Glue(K, Rest(s, n))
      /\ Glue(Glue(K, <<s[n]>>), Rest(s, n)) = t
  BY <1>1, <1>4, Passing
<1>6. f[n] = IF w[n] \in Unlike(d) THEN Append(f[n - 1], w[n]) ELSE f[n - 1]
  BY <1>3, UptoTurns
<1>7. w[n] \in Unlike(d) <=> ~Singly!Equal(heap[s[n]].data, d)
  BY <1>1, <1>2, <1>3 DEF Unlike, Singly!Equal
<1>10. r.rover = IF k = 1 THEN ROOT ELSE t[k - 1]
  <2>1. Len(K) \in Nat
    BY <1>4, SeqIs
  <2>2. k = 1 <=> Len(K) = 0
    BY <2>1
  <2> HIDE DEF k, t
  <2> QED BY <1>4, <1>5, <2>2
<1> HIDE DEF f, w, t, k, m
<1>8. CASE Singly!Equal(heap[s[n]].data, d)
  <2>1. Singly!SweepTurn(r, s[n], d) = v
    <3>1. Singly!SweepTurn(r, s[n], d) = [r EXCEPT !.memory = u]
      BY <1>8 DEF Singly!SweepTurn, m
    <3> HIDE DEF u
    <3> QED BY <1>4, <3>1
  <2>2. /\ u.list = IF k = 1 THEN m.heap[t[k]].next ELSE m.list
        /\ SHeap(u.heap)
        /\ Unlinked(u.heap, m.heap, t, k)
        /\ u = [list |-> u.list, heap |-> u.heap]
    BY <1>4, <1>5, <1>10, CutOutS
  <2> HIDE DEF u
  <2>3. SOK(u.list, u.heap, Cut(t, k))
    BY <1>4, <1>5, <2>2, CutS
  <2>4. ASSUME NEW x \in DOMAIN u.heap PROVE x \in S /\ u.heap[x].data = heap[x].data
    <3>1. x \in DOMAIN m.heap /\ x # t[k]
      BY <2>2 DEF Unlinked
    <3>2. PICK i \in 1 .. Len(t) : x = t[i]
      BY <1>4, <3>1, SAt
    <3>3. u.heap[x].data = m.heap[x].data
      BY <2>2, <3>1, <3>2 DEF Unlinked
    <3> QED BY <1>4, <3>1, <3>3
  <2>5. Vals(heap, K) = f[n]
    BY <1>4, <1>6, <1>7, <1>8
  <2>7. SOK(u.list, u.heap, Glue(K, Rest(s, n)))
    BY <1>5, <2>2, <2>3
  <2>8. v.memory = u /\ v.rover = r.rover
    OBVIOUS
  <2>9. v = [memory |-> v.memory, rover |-> v.rover]
    OBVIOUS
  <2> HIDE DEF v
  <2>6. SweptS(s, d, n, v, K)
    BY <1>4, <2>2, <2>4, <2>5, <2>7, <2>8, <2>9 DEF SweptS, f, w
  <2> QED BY <2>1, <2>6
<1>9. CASE ~Singly!Equal(heap[s[n]].data, d)
  <2> DEFINE o == <<s[n]>>
             J == Glue(K, o)
             y == [memory |-> m, rover |-> s[n]]
  <2>1. Singly!SweepTurn(r, s[n], d) = y
    <3>1. Singly!SweepTurn(r, s[n], d) = [r EXCEPT !.rover = s[n]]
      BY <1>9 DEF Singly!SweepTurn
    <3> QED BY <1>4, <3>1
  <2>2. o \in Seq(S) /\ Len(o) = 1 /\ o[1] = s[n]
    BY <1>1, One
  <2>3. Vals(heap, o) = <<w[n]>>
    BY <1>3, <2>2 DEF Vals
  <2>4. Glue(J, Rest(s, n)) = t
    BY <1>5
  <2> HIDE DEF o
  <2>5. J \in Seq(S) /\ Len(J) = Len(K) + 1 /\ J[Len(J)] = s[n] /\ Len(J) # 0
    <3>1. IsGlue(S, K, o)
      BY <1>4, <2>2, GlueFacts
    <3>2. /\ J \in Seq(S)
          /\ Len(J) = Len(K) + Len(o)
          /\ \A i \in 1 .. Len(o) : J[Len(K) + i] = o[i]
      BY <3>1 DEF IsGlue
    <3>3. Len(K) \in Nat /\ 1 \in 1 .. Len(o)
      BY <1>4, <2>2, SeqIs
    <3> HIDE DEF J
    <3> QED BY <2>2, <3>2, <3>3
  <2>6. Vals(heap, J) = Vals(heap, K) \o Vals(heap, o)
    <3>1. K \in Seq(S) /\ o \in Seq(S)
      BY <1>4, <2>2
    <3> QED BY <1>2, <3>1, ValsGlue
  <2>7. Vals(heap, J) = f[n]
    <3>1. f[n - 1] \in Seq(Value) /\ w[n] \in Value
      <4>1. Vals(heap, K) \in Seq(Value)
        BY <1>2, <1>4, ValsSeq
      <4> QED BY <1>1, <1>2, <1>3, <1>4, <4>1
    <3>2. Append(f[n - 1], w[n]) = f[n - 1] \o <<w[n]>>
      BY <3>1, AppendIsConcat
    <3> QED BY <1>4, <1>6, <1>7, <1>9, <2>3, <2>6, <3>2
  <2> HIDE DEF J
  <2>9. y.memory = m /\ y.rover = s[n] /\ y = [memory |-> y.memory, rover |-> y.rover]
    OBVIOUS
  <2> HIDE DEF y
  <2>8. SweptS(s, d, n, y, J)
    BY <1>4, <2>4, <2>5, <2>7, <2>9 DEF SweptS, f, w
  <2> QED BY <2>1, <2>8
<1> QED BY <1>8, <1>9

\* All turns of slist_remove_data.
LEMMA SweepS ==
  ASSUME SOK(list, heap, Singly!Order), NEW d \in Value
  PROVE  \E K : /\ SOK(Singly!Sweep(d).list, Singly!Sweep(d).heap, K)
                /\ Vals(Singly!Sweep(d).heap, K) =
                     Sequences!Others(Vals(heap, Singly!Order), d)
<1> DEFINE s == Singly!Order
           g == CHOOSE f : SweepTurnsOf(s, d, f)
           N == Len(s)
           w == Vals(heap, s)
           S == DOMAIN heap
           Good == {n \in 0 .. N : \E K : SweptS(s, d, n, g[n], K)}
<1>1. Singly!Sweep(d) = g[N].memory
  BY DEF Singly!Sweep, Singly!Length, SweepTurnsOf
<1> HIDE DEF s
<1>2. s \in Seq(S) /\ N \in Nat
  BY SCore DEF s
<1>3. SweepTurnsOf(s, d, g)
  BY <1>2, SweepTurnsS
<1> HIDE DEF g, N
<1>4. /\ g[0] = [memory |-> Singly!Memory, rover |-> ROOT]
      /\ \A n \in 1 .. N : g[n] = Singly!SweepTurn(g[n - 1], s[n], d)
  <2>1. g = [n \in 0 .. N |-> IF n = 0 THEN [memory |-> Singly!Memory, rover |-> ROOT]
                              ELSE Singly!SweepTurn(g[n - 1], s[n], d)]
    BY <1>3 DEF SweepTurnsOf, N
  <2>2. 0 \in 0 .. N /\ \A n \in 1 .. N : n \in 0 .. N /\ n # 0
    BY <1>2
  <2> QED BY <2>1, <2>2
<1>5. \A x \in S : heap[x].data \in Value
  BY SData DEF SOK
<1>6. w \in Seq(Value) /\ Len(w) = N
  BY <1>2, <1>5, ValsSeq DEF N
<1>7. 0 \in Good
  <2>1. Glue(<<>>, Rest(s, 0)) = s
    BY <1>2, RestEnds, GlueEmpty
  <2>2. SOK(g[0].memory.list, g[0].memory.heap, Glue(<<>>, Rest(s, 0)))
    BY <1>4, <2>1 DEF s, Singly!Memory
  <2>3. <<>> \in Seq(DOMAIN heap)
    OBVIOUS
  <2>4. Upto(w, Unlike(d))[0] = <<>>
    BY <1>6, UptoTurns
  <2>5. Vals(heap, <<>>) = <<>>
    <3>1. Vals(heap, <<>>) \in Seq(Value) /\ Len(Vals(heap, <<>>)) = Len(<<>>)
      BY <1>5, <2>3, ValsSeq
    <3> QED BY <3>1, EmptySeq
  <2>6. SweptS(s, d, 0, g[0], <<>>)
    <3>1. g[0].memory = [list |-> list, heap |-> heap] /\ g[0].rover = ROOT
          /\ g[0] = [memory |-> g[0].memory, rover |-> g[0].rover]
      BY <1>4 DEF Singly!Memory
    <3>2. g[0].memory.list = list /\ g[0].memory.heap = heap /\ Len(<<>>) = 0
      BY <3>1
    <3> QED BY <2>2, <2>3, <2>4, <2>5, <3>1, <3>2 DEF SweptS
  <2> QED BY <1>2, <2>6
<1>8. ASSUME NEW n \in 1 .. N, n - 1 \in Good PROVE n \in Good
  <2>1. PICK K : SweptS(s, d, n - 1, g[n - 1], K)
    BY <1>8
  <2>2. n \in 1 .. Len(s)
    BY DEF N
  <2>3. \E J : SweptS(s, d, n, Singly!SweepTurn(g[n - 1], s[n], d), J)
    BY <2>1, <2>2, SweepTurnS DEF s
  <2>4. n \in 0 .. N
    BY <1>2
  <2> QED BY <1>4, <2>3, <2>4
<1>9. N \in Good
  <2>1. Good \subseteq 0 .. N
    OBVIOUS
  <2> HIDE DEF Good
  <2>2. Good = 0 .. N
    BY <1>2, <1>7, <1>8, <2>1, UpTo
  <2> QED BY <1>2, <2>2
<1>10. PICK K : SweptS(s, d, N, g[N], K)
  BY <1>9
<1>11. SOK(g[N].memory.list, g[N].memory.heap, K)
  <2>1. Rest(s, N) = <<>>
    BY <1>2, RestEnds DEF N
  <2>2. K \in Seq(S) /\ SOK(g[N].memory.list, g[N].memory.heap, Glue(K, Rest(s, N)))
    BY <1>10 DEF SweptS
  <2>3. Glue(K, <<>>) = K
    BY <2>2, GlueEmpty
  <2> QED BY <2>1, <2>2, <2>3
<1>12. Vals(g[N].memory.heap, K) = Vals(heap, K)
  <2>1. K \in Seq(DOMAIN g[N].memory.heap)
    BY <1>11, SCore
  <2>2. \A i \in 1 .. Len(K) : g[N].memory.heap[K[i]].data = heap[K[i]].data
    BY <1>10, <2>1, SeqIs DEF SweptS
  <2> QED BY <2>2, SameVals
<1>13. Vals(heap, K) = Sequences!Others(w, d)
  <2>1. Sequences!Others(w, d) = Sequences!Selected(w, Unlike(d))
    BY DEF Sequences!Others, Unlike
  <2>2. Vals(heap, K) = Upto(w, Unlike(d))[N]
    BY <1>10 DEF SweptS
  <2> QED BY <1>6, <2>1, <2>2, SelectedIs
<1> QED BY <1>1, <1>11, <1>12, <1>13 DEF s

\* The number of entries with a value equal to d is the number of matching
\* values.
LEMMA MatchingCount ==
  ASSUME NEW h, NEW p, NEW s, Chain(h, p, s), \A x \in DOMAIN h : h[x].data \in Value,
         NEW d \in Value
  PROVE  /\ Cardinality({c \in Range(s) : Rank[h[c].data] = Rank[d]})
              = Len(Sequences!Matching(Vals(h, s), d))
         /\ Len(Sequences!Matching(Vals(h, s), d)) \in Nat
<1> DEFINE w == Vals(h, s)
           V == Alike(d)
<1>1. s \in Seq(DOMAIN h)
  BY ChainFacts
<1>2. w \in Seq(Value) /\ Len(w) = Len(s)
  BY <1>1, ValsSeq
<1>3. Len(w) \in 0 .. Len(w)
  BY <1>2, SeqIs
<1>4. {c \in Range(s) : Rank[h[c].data] = Rank[d]} = {c \in Range(s) : h[c].data \in V}
  <2>1. Range(s) \subseteq DOMAIN h
    BY <1>1, RangeIn
  <2> QED BY <2>1 DEF Alike
<1>5. Sequences!Matching(w, d) = Upto(w, V)[Len(w)]
  <2>1. Sequences!Matching(w, d) = Sequences!Selected(w, V)
    BY DEF Sequences!Matching, Alike
  <2> QED BY <1>2, <2>1, SelectedIs
<1> HIDE DEF w, V
<1>6. /\ Upto(w, V)[Len(w)] \in Seq(Value)
      /\ Len(Upto(w, V)[Len(w)]) = Cardinality({i \in 1 .. Len(w) : w[i] \in V})
  BY <1>2, <1>3, UptoCount
<1>7. Cardinality({c \in Range(s) : h[c].data \in V}) = Cardinality({i \in 1 .. Len(s) : w[i] \in V})
  <2>1. CountIs(h, s, V)
    BY CountValues
  <2> QED BY <2>1 DEF CountIs, w
<1>8. Len(Upto(w, V)[Len(w)]) \in Nat
  BY <1>6, SeqIs
<1>9. Cardinality({i \in 1 .. Len(w) : w[i] \in V}) = Cardinality({i \in 1 .. Len(s) : w[i] \in V})
  BY <1>2
<1> QED BY <1>4, <1>5, <1>6, <1>7, <1>8, <1>9 DEF w

\* list_remove_data removes every equal value and counts them.
LEMMA RemoveDataD ==
  ASSUME NEW s, DOK(list, heap, s), NEW d \in Value, Doubly!RemoveData(d)
  PROVE  /\ \E K : /\ DOK(list', heap', K)
                   /\ Vals(heap', K) = Sequences!Others(Vals(heap, s), d)
         /\ returned' = Len(Sequences!Matching(Vals(heap, s), d))
         /\ returned' \in Nat
<1>1. Doubly!Order = s
  BY OrderIs DEF DOK, DHeap, Doubly!Order
<1>2. \E K : /\ DOK(Doubly!Sweep(d).list, Doubly!Sweep(d).heap, K)
             /\ Vals(Doubly!Sweep(d).heap, K) =
                  Sequences!Others(Vals(heap, Doubly!Order), d)
  BY <1>1, SweepD
<1>3. \E K : /\ DOK(list', heap', K)
             /\ Vals(heap', K) = Sequences!Others(Vals(heap, s), d)
  BY <1>1, <1>2 DEF Doubly!RemoveData
<1>4. returned' = Cardinality({c \in Range(s) : Rank[heap[c].data] = Rank[d]})
  <2>1. Doubly!Range(Doubly!Order) = Range(s)
    BY <1>1 DEF Doubly!Range, Range
  <2>2. returned' = Doubly!Cardinality({c \in Doubly!Range(Doubly!Order) :
                                          Rank[heap[c].data] = Rank[d]})
    BY DEF Doubly!RemoveData, Doubly!Equal
  <2> QED BY <2>1, <2>2, SameCardinality
<1>5. Chain(heap, list, s) /\ \A x \in DOMAIN heap : heap[x].data \in Value
  BY DData DEF DOK
<1> QED BY <1>3, <1>4, <1>5, MatchingCount

\* slist_remove_data removes every equal value and counts them.
LEMMA RemoveDataS ==
  ASSUME NEW s, SOK(list, heap, s), NEW d \in Value, Singly!RemoveData(d)
  PROVE  /\ \E K : /\ SOK(list', heap', K)
                   /\ Vals(heap', K) = Sequences!Others(Vals(heap, s), d)
         /\ returned' = Len(Sequences!Matching(Vals(heap, s), d))
         /\ returned' \in Nat
<1>1. Singly!Order = s
  BY OrderIs DEF SOK, SHeap, Singly!Order
<1>2. \E K : /\ SOK(Singly!Sweep(d).list, Singly!Sweep(d).heap, K)
             /\ Vals(Singly!Sweep(d).heap, K) =
                  Sequences!Others(Vals(heap, Singly!Order), d)
  BY <1>1, SweepS
<1>3. \E K : /\ SOK(list', heap', K)
             /\ Vals(heap', K) = Sequences!Others(Vals(heap, s), d)
  BY <1>1, <1>2 DEF Singly!RemoveData, Singly!Becomes
<1>4. returned' = Cardinality({c \in Range(s) : Rank[heap[c].data] = Rank[d]})
  <2>1. Singly!Range(Singly!Order) = Range(s)
    BY <1>1 DEF Singly!Range, Range
  <2>2. returned' = Singly!Cardinality({c \in Singly!Range(Singly!Order) :
                                          Rank[heap[c].data] = Rank[d]})
    BY DEF Singly!RemoveData, Singly!Equal
  <2> QED BY <2>1, <2>2, SameCardinality
<1>5. Chain(heap, list, s) /\ \A x \in DOMAIN heap : heap[x].data \in Value
  BY SData DEF SOK
<1> QED BY <1>3, <1>4, <1>5, MatchingCount

\* Part of a heap is rearranged: no value moves, and outside the part no
\* link changes.
SameEntry(g, h, x) ==
  g[x].data = h[x].data /\ g[x].next = h[x].next /\ g[x].prev = h[x].prev
KeepsD(g, h) ==
  DHeap(g) /\ DOMAIN g = DOMAIN h /\ \A x \in DOMAIN h : g[x].data = h[x].data
DPart(h, l, s) == Chain(h, l, s) /\ Back(h, s)

\* A sublist survives what leaves its entries alone.
LEMMA PartFrameD ==
  ASSUME NEW h, NEW l, NEW s, DPart(h, l, s), NEW g, DOMAIN g = DOMAIN h,
         \A x \in DOMAIN h : x \in Range(s) => SameEntry(g, h, x)
  PROVE  DPart(g, l, s)
<1>1. s \in Seq(DOMAIN h) /\ \A i \in 1 .. Len(s) : s[i] \in DOMAIN h
  BY ChainFacts DEF DPart
<1>2. \A i \in 1 .. Len(s) : s[i] \in Range(s)
  BY <1>1, RangeIs
<1>3. \A i \in 1 .. Len(s) : /\ s[i] \in DOMAIN g
                             /\ g[s[i]].next = h[s[i]].next
                             /\ g[s[i]].prev = h[s[i]].prev
  BY <1>1, <1>2 DEF SameEntry
<1>4. Chain(g, l, s)
  BY <1>3, ChainFrame DEF DPart
<1>5. Back(g, s)
  BY <1>3, BackFrame DEF DPart
<1> QED BY <1>4, <1>5 DEF DPart

\* Where a chain starts.
LEMMA PartStart ==
  ASSUME NEW h, NEW l, NEW s, Chain(h, l, s), DOMAIN h \subseteq Cell
  PROVE  /\ s \in Seq(DOMAIN h) /\ Len(s) \in Nat
         /\ \A i \in 1 .. Len(s) : s[i] \in DOMAIN h /\ s[i] \in Range(s)
         /\ l = NULL <=> Len(s) = 0
         /\ l # NULL => l = s[1] /\ l \in DOMAIN h /\ l \in Range(s)
         /\ l \in Doubly!Pointer /\ l \in Singly!Pointer
<1>1. /\ s \in Seq(DOMAIN h) /\ Len(s) \in Nat
      /\ \A i \in 1 .. Len(s) : s[i] \in DOMAIN h
      /\ l = IF Len(s) = 0 THEN NULL ELSE s[1]
  BY ChainFacts
<1>2. \A i \in 1 .. Len(s) : s[i] \in Range(s)
  BY <1>1, RangeIs
<1>3. NULL \notin DOMAIN h
  BY NullOutside
<1>4. Len(s) # 0 => 1 \in 1 .. Len(s)
  BY <1>1
<1>5. l # NULL => l \in Cell
  BY <1>1, <1>4
<1> QED BY <1>1, <1>2, <1>3, <1>4, <1>5 DEF Doubly!Pointer, Singly!Pointer

\* list_sort_internal moves an entry to the front of a sublist.
LEMMA PushFrontD ==
  ASSUME NEW h, DHeap(h), NEW front, NEW s, DPart(h, front, s),
         NEW c \in DOMAIN h, c \notin Range(s)
  PROVE  LET g == Doubly!PushFront(h, c, front)
         IN  /\ KeepsD(g, h)
             /\ DPart(g, c, Ahead(c, s))
             /\ \A x \in DOMAIN h : x # c /\ x \notin Range(s) => SameEntry(g, h, x)
<1> DEFINE f == Doubly!SetNext(h, c, front)
           h1 == Doubly!SetPrev(f, c, NULL)
           g == Doubly!PushFront(h, c, front)
<1>0. Chain(h, front, s) /\ Back(h, s)
  BY DEF DPart
<1>1. /\ s \in Seq(DOMAIN h) /\ Len(s) \in Nat
      /\ \A i \in 1 .. Len(s) : s[i] \in DOMAIN h /\ s[i] \in Range(s)
      /\ front = NULL <=> Len(s) = 0
      /\ front # NULL => front = s[1] /\ front \in DOMAIN h /\ front \in Range(s)
      /\ front \in Doubly!Pointer
  BY <1>0, PartStart DEF DHeap
<1>2. NULL \in Doubly!Pointer /\ c \in Doubly!Pointer
  BY DEF Doubly!Pointer, DHeap
<1>3. DHeap(f) /\ NextIs(f, h, c, front)
  BY <1>1, SetNextD
<1>4. g = IF front = NULL THEN h1 ELSE Doubly!SetPrev(h1, front, c)
  BY DEF Doubly!PushFront
<1> HIDE DEF f, g
<1>5. DHeap(h1) /\ PrevIs(h1, f, c, NULL)
  <2>1. c \in DOMAIN f
    BY <1>3 DEF NextIs
  <2> QED BY <1>2, <1>3, <2>1, SetPrevD
<1> HIDE DEF h1
<1>6. /\ DHeap(g)
      /\ DOMAIN g = DOMAIN h
      /\ \A x \in DOMAIN h :
           /\ g[x].data = h[x].data
           /\ g[x].next = IF x = c THEN front ELSE h[x].next
           /\ g[x].prev = IF x = c THEN NULL
                          ELSE IF front # NULL /\ x = front THEN c ELSE h[x].prev
  <2>1. CASE front = NULL
    BY <1>3, <1>4, <1>5, <2>1 DEF NextIs, PrevIs
  <2>2. CASE front # NULL
    <3> DEFINE k == Doubly!SetPrev(h1, front, c)
    <3>1. front \in DOMAIN h1
      BY <1>1, <1>3, <1>5, <2>2 DEF NextIs, PrevIs
    <3>2. DHeap(k) /\ PrevIs(k, h1, front, c)
      BY <1>2, <1>5, <3>1, SetPrevD
    <3>3. g = k
      BY <1>4, <2>2
    <3>4. front # c
      BY <1>1, <2>2
    <3> HIDE DEF k
    <3> QED BY <1>3, <1>5, <2>2, <3>2, <3>3, <3>4 DEF NextIs, PrevIs
  <2> QED BY <2>1, <2>2
<1>7. Chain(g, c, Ahead(c, s))
  <2>1. \A i \in 1 .. Len(s) : /\ s[i] # c
                               /\ s[i] \in DOMAIN g
                               /\ g[s[i]].next = h[s[i]].next
    BY <1>1, <1>6
  <2>2. c \in DOMAIN g /\ g[c].next = front
    BY <1>6
  <2> QED BY <1>0, <2>1, <2>2, ChainCons
<1>8. Back(g, Ahead(c, s))
  <2>1. ASSUME NEW i \in 1 .. Len(s)
        PROVE  g[s[i]].prev = IF i = 1 THEN c ELSE h[s[i]].prev
    <3>1. front # NULL /\ front = s[1] /\ 1 \in 1 .. Len(s)
      BY <1>1
    <3>2. s[i] = s[1] <=> i = 1
      BY <1>0, <3>1, ChainFacts
    <3>3. s[i] # c /\ s[i] \in DOMAIN h
      BY <1>1
    <3> QED BY <1>6, <3>1, <3>2, <3>3
  <2>2. g[c].prev = NULL
    BY <1>6
  <2> QED BY <1>0, <2>1, <2>2, BackCons
<1>9. \A x \in DOMAIN h : x # c /\ x \notin Range(s) => SameEntry(g, h, x)
  BY <1>1, <1>6 DEF SameEntry
<1> QED BY <1>6, <1>7, <1>8, <1>9 DEF KeepsD, DPart, g

\* The state of the loop that splits, after n turns.
SplitTurnsD(h, pivot, rest, f) ==
  f = [n \in 0 .. Len(rest) |->
         IF n = 0 THEN [heap |-> h, less |-> NULL, more |-> NULL]
         ELSE Doubly!SplitTurn(f[n - 1], rest[n], Doubly!GoesLess(h, rest[n], pivot))]

SplitD(h, pivot, rest, n, q, A, B) ==
  /\ q = [heap |-> q.heap, less |-> q.less, more |-> q.more]
  /\ KeepsD(q.heap, h)
  /\ DPart(q.heap, q.less, A) /\ DPart(q.heap, q.more, B)
  /\ Range(A) \cap Range(B) = {}
  /\ Range(A) \cup Range(B) = {rest[i] : i \in 1 .. n}
  /\ \A x \in DOMAIN h : x \notin {rest[i] : i \in 1 .. n} => SameEntry(q.heap, h, x)
  /\ \A x \in Range(A) : Rank[h[x].data] < Rank[h[pivot].data]
  /\ \A x \in Range(B) : ~(Rank[h[x].data] < Rank[h[pivot].data])
  /\ Len(A) <= n /\ Len(B) <= n

\* One turn of the loop that splits puts one entry into its sublist.
LEMMA SplitTurnKeepsD ==
  ASSUME NEW h, DHeap(h), NEW pivot \in DOMAIN h,
         NEW rest \in Seq(DOMAIN h), \A i, j \in 1 .. Len(rest) : rest[i] = rest[j] => i = j,
         NEW n \in 1 .. Len(rest), NEW q, NEW A, NEW B,
         SplitD(h, pivot, rest, n - 1, q, A, B)
  PROVE  \E A1, B1 : SplitD(h, pivot, rest, n,
           Doubly!SplitTurn(q, rest[n], Doubly!GoesLess(h, rest[n], pivot)), A1, B1)
<1> DEFINE c == rest[n]
           D == DOMAIN h
           past == {rest[i] : i \in 1 .. n - 1}
           now == {rest[i] : i \in 1 .. n}
           goes == Doubly!GoesLess(h, c, pivot)
           p == Doubly!SplitTurn(q, c, goes)
<1>1. Len(rest) \in Nat /\ \A i \in 1 .. Len(rest) : rest[i] \in D
  BY SeqIs
<1>2. c \in D /\ c \notin past /\ now = past \cup {c} /\ n - 1 \in Nat
  <2>1. c \notin past
    BY <1>1
  <2>2. now = past \cup {c}
    <3>1. 1 .. n = (1 .. n - 1) \cup {n}
      BY <1>1
    <3> QED BY <3>1
  <2> QED BY <1>1, <2>1, <2>2
<1>3. goes <=> Rank[h[c].data] < Rank[h[pivot].data]
  <2>1. h[c].data \in Value /\ h[pivot].data \in Value
    BY <1>2, DFields
  <2>2. Rank[h[c].data] \in Int /\ Rank[h[pivot].data] \in Int
    BY <2>1, ListAssumption DEF Doubly!Parameters
  <2> QED BY <2>2 DEF Doubly!GoesLess, Doubly!Compare
<1> HIDE DEF c, past, now, goes
<1>4. /\ q = [heap |-> q.heap, less |-> q.less, more |-> q.more]
      /\ KeepsD(q.heap, h)
      /\ DPart(q.heap, q.less, A) /\ DPart(q.heap, q.more, B)
      /\ Range(A) \cap Range(B) = {}
      /\ Range(A) \cup Range(B) = past
      /\ \A x \in D : x \notin past => SameEntry(q.heap, h, x)
      /\ \A x \in Range(A) : Rank[h[x].data] < Rank[h[pivot].data]
      /\ \A x \in Range(B) : ~(Rank[h[x].data] < Rank[h[pivot].data])
      /\ Len(A) <= n - 1 /\ Len(B) <= n - 1
  BY DEF SplitD, past
<1>5. /\ DHeap(q.heap) /\ DOMAIN q.heap = D
      /\ A \in Seq(D) /\ B \in Seq(D) /\ Len(A) \in Nat /\ Len(B) \in Nat
  BY <1>4, ChainFacts DEF KeepsD, DPart
<1>6. CASE goes
  <2> DEFINE g == Doubly!PushFront(q.heap, c, q.less)
             A1 == Ahead(c, A)
  <2>1. p = [heap |-> g, less |-> c, more |-> q.more]
    <3>1. p = [q EXCEPT !.heap = g, !.less = c]
      BY <1>6 DEF Doubly!SplitTurn
    <3> HIDE DEF g, p
    <3> QED BY <1>4, <3>1
  <2>2. /\ KeepsD(g, q.heap)
        /\ DPart(g, c, A1)
        /\ \A x \in D : x # c /\ x \notin Range(A) => SameEntry(g, q.heap, x)
    <3>1. c \in DOMAIN q.heap /\ c \notin Range(A)
      BY <1>2, <1>4, <1>5
    <3> QED BY <1>4, <1>5, <3>1, PushFrontD
  <2> HIDE DEF g
  <2>3. KeepsD(g, h)
    BY <1>4, <2>2 DEF KeepsD
  <2>4. DPart(g, q.more, B)
    <3>1. \A x \in D : x \in Range(B) => SameEntry(g, q.heap, x)
      BY <1>2, <1>4, <2>2
    <3> QED BY <1>4, <1>5, <2>2, <3>1, PartFrameD DEF KeepsD
  <2>5. Range(A1) = Range(A) \cup {c} /\ Len(A1) = Len(A) + 1
    <3>1. IsAhead(D, c, A)
      BY <1>2, <1>5, AheadFacts
    <3> QED BY <1>2, <1>5, <3>1, RangeCons DEF IsAhead
  <2> HIDE DEF A1
  <2>6. \A x \in D : x \notin now => SameEntry(g, h, x)
    BY <1>2, <1>4, <2>2 DEF SameEntry
  <2>7. p.heap = g /\ p.less = c /\ p.more = q.more
        /\ p = [heap |-> p.heap, less |-> p.less, more |-> p.more]
    BY <2>1
  <2> HIDE DEF p
  <2>8. Range(A1) \cap Range(B) = {} /\ Range(A1) \cup Range(B) = now
    BY <1>2, <1>4, <2>5
  <2>9. \A x \in Range(A1) : Rank[h[x].data] < Rank[h[pivot].data]
    BY <1>3, <1>4, <1>6, <2>5
  <2>10. Len(A1) <= n /\ Len(B) <= n
    BY <1>2, <1>4, <1>5, <2>5
  <2>11. SplitD(h, pivot, rest, n, p, A1, B)
    BY <1>4, <2>2, <2>3, <2>4, <2>6, <2>7, <2>8, <2>9, <2>10 DEF SplitD, now
  <2> QED BY <2>11 DEF p, c, goes
<1>7. CASE ~goes
  <2> DEFINE g == Doubly!PushFront(q.heap, c, q.more)
             B1 == Ahead(c, B)
  <2>1. p = [heap |-> g, less |-> q.less, more |-> c]
    <3>1. p = [q EXCEPT !.heap = g, !.more = c]
      BY <1>7 DEF Doubly!SplitTurn
    <3> HIDE DEF g, p
    <3> QED BY <1>4, <3>1
  <2>2. /\ KeepsD(g, q.heap)
        /\ DPart(g, c, B1)
        /\ \A x \in D : x # c /\ x \notin Range(B) => SameEntry(g, q.heap, x)
    <3>1. c \in DOMAIN q.heap /\ c \notin Range(B)
      BY <1>2, <1>4, <1>5
    <3> QED BY <1>4, <1>5, <3>1, PushFrontD
  <2> HIDE DEF g
  <2>3. KeepsD(g, h)
    BY <1>4, <2>2 DEF KeepsD
  <2>4. DPart(g, q.less, A)
    <3>1. \A x \in D : x \in Range(A) => SameEntry(g, q.heap, x)
      BY <1>2, <1>4, <2>2
    <3> QED BY <1>4, <1>5, <2>2, <3>1, PartFrameD DEF KeepsD
  <2>5. Range(B1) = Range(B) \cup {c} /\ Len(B1) = Len(B) + 1
    <3>1. IsAhead(D, c, B)
      BY <1>2, <1>5, AheadFacts
    <3> QED BY <1>2, <1>5, <3>1, RangeCons DEF IsAhead
  <2> HIDE DEF B1
  <2>6. \A x \in D : x \notin now => SameEntry(g, h, x)
    BY <1>2, <1>4, <2>2 DEF SameEntry
  <2>7. p.heap = g /\ p.less = q.less /\ p.more = c
        /\ p = [heap |-> p.heap, less |-> p.less, more |-> p.more]
    BY <2>1
  <2> HIDE DEF p
  <2>8. Range(A) \cap Range(B1) = {} /\ Range(A) \cup Range(B1) = now
    BY <1>2, <1>4, <2>5
  <2>9. \A x \in Range(B1) : ~(Rank[h[x].data] < Rank[h[pivot].data])
    BY <1>3, <1>4, <1>7, <2>5
  <2>10. Len(A) <= n /\ Len(B1) <= n
    BY <1>2, <1>4, <1>5, <2>5
  <2>11. SplitD(h, pivot, rest, n, p, A, B1)
    BY <1>4, <2>2, <2>3, <2>4, <2>6, <2>7, <2>8, <2>9, <2>10 DEF SplitD, now
  <2> QED BY <2>11 DEF p, c, goes
<1> QED BY <1>6, <1>7

\* The recursive function of the loop that splits is one.
LEMMA SplitTurnsExistD ==
  ASSUME NEW h, NEW pivot, NEW rest, Len(rest) \in Nat
  PROVE  \E f : SplitTurnsD(h, pivot, rest, f)
<1> DEFINE N == Len(rest)
           m0 == [heap |-> h, less |-> NULL, more |-> NULL]
           Step(m, n) == Doubly!SplitTurn(m, rest[n], Doubly!GoesLess(h, rest[n], pivot))
           Till(k, f) == f = [n \in 0 .. k |-> IF n = 0 THEN m0 ELSE Step(f[n - 1], n)]
           Reached == {k \in 0 .. N : \E f : Till(k, f)}
<1>1. N \in Nat
  OBVIOUS
<1> HIDE DEF N, Step, m0
<1>2. 0 \in Reached
  <2>1. Till(0, [n \in 0 .. 0 |-> m0])
    OBVIOUS
  <2> HIDE DEF Till
  <2> QED BY <1>1, <2>1
<1>3. ASSUME NEW k \in 1 .. N, k - 1 \in Reached PROVE k \in Reached
  <2>1. PICK f : Till(k - 1, f)
    BY <1>3
  <2> DEFINE g == [n \in 0 .. k |-> IF n = k THEN Step(f[k - 1], k) ELSE f[n]]
  <2>2. \A n \in 0 .. k - 1 : f[n] = IF n = 0 THEN m0 ELSE Step(f[n - 1], n)
    BY <2>1
  <2>3. ASSUME NEW n \in 0 .. k PROVE g[n] = IF n = 0 THEN m0 ELSE Step(g[n - 1], n)
    <3>1. CASE n = k
      BY <1>1, <3>1
    <3>2. CASE n # k /\ n # 0
      <4>1. n \in 0 .. k - 1 /\ n - 1 \in 0 .. k /\ n - 1 # k
        BY <1>1, <3>2
      <4>2. g[n] = f[n] /\ g[n - 1] = f[n - 1]
        BY <3>2, <4>1
      <4> HIDE DEF g
      <4> QED BY <2>2, <3>2, <4>1, <4>2
    <3>3. CASE n = 0
      <4>1. n \in 0 .. k - 1 /\ n # k
        BY <1>1, <3>3
      <4> QED BY <2>2, <3>3, <4>1
    <3> QED BY <3>1, <3>2, <3>3
  <2>4. g = [n \in 0 .. k |-> IF n = 0 THEN m0 ELSE Step(g[n - 1], n)]
    <3>1. g = [n \in 0 .. k |-> g[n]]
      OBVIOUS
    <3> HIDE DEF g
    <3> QED BY <2>3, <3>1
  <2> HIDE DEF g
  <2>5. k \in 0 .. N
    BY <1>1
  <2> QED BY <2>4, <2>5
<1>4. N \in Reached
  <2>1. Reached \subseteq 0 .. N
    OBVIOUS
  <2> HIDE DEF Reached
  <2>2. Reached = 0 .. N
    BY <1>1, <1>2, <1>3, <2>1, UpTo
  <2> QED BY <1>1, <2>2
<1> QED BY <1>4 DEF SplitTurnsD, N, Step, m0

\* All turns of the loop that splits.
LEMMA SplitIsD ==
  ASSUME NEW h, DHeap(h), NEW pivot \in DOMAIN h,
         NEW rest \in Seq(DOMAIN h), \A i, j \in 1 .. Len(rest) : rest[i] = rest[j] => i = j
  PROVE  \E A, B : SplitD(h, pivot, rest, Len(rest), Doubly!Split(h, pivot, rest), A, B)
<1> DEFINE N == Len(rest)
           g == CHOOSE f : SplitTurnsD(h, pivot, rest, f)
           Good == {n \in 0 .. N : \E A, B : SplitD(h, pivot, rest, n, g[n], A, B)}
<1>1. Doubly!Split(h, pivot, rest) = g[N]
  BY DEF Doubly!Split, SplitTurnsD
<1>2. N \in Nat
  BY SeqIs
<1>3. SplitTurnsD(h, pivot, rest, g)
  BY <1>2, SplitTurnsExistD
<1> HIDE DEF g, N
<1>4. /\ g[0] = [heap |-> h, less |-> NULL, more |-> NULL]
      /\ \A n \in 1 .. N :
           g[n] = Doubly!SplitTurn(g[n - 1], rest[n], Doubly!GoesLess(h, rest[n], pivot))
  <2>1. g = [n \in 0 .. N |->
               IF n = 0 THEN [heap |-> h, less |-> NULL, more |-> NULL]
               ELSE Doubly!SplitTurn(g[n - 1], rest[n], Doubly!GoesLess(h, rest[n], pivot))]
    BY <1>3 DEF SplitTurnsD, N
  <2>2. 0 \in 0 .. N /\ \A n \in 1 .. N : n \in 0 .. N /\ n # 0
    BY <1>2
  <2> QED BY <2>1, <2>2
<1>5. 0 \in Good
  <2>1. g[0].heap = h /\ g[0].less = NULL /\ g[0].more = NULL
        /\ g[0] = [heap |-> g[0].heap, less |-> g[0].less, more |-> g[0].more]
    BY <1>4
  <2>2. DPart(h, NULL, <<>>)
    BY EmptyChain DEF DPart
  <2>3. {rest[i] : i \in 1 .. 0} = {} /\ Range(<<>>) = {} /\ Len(<<>>) = 0
    BY DEF Range
  <2>4. KeepsD(h, h)
    BY DEF KeepsD
  <2>5. \A x \in DOMAIN h : SameEntry(h, h, x)
    BY DEF SameEntry
  <2>6. SplitD(h, pivot, rest, 0, g[0], <<>>, <<>>)
    <3> DEFINE e == <<>>
    <3>1. DPart(h, NULL, e) /\ Range(e) = {} /\ Len(e) = 0
      BY <2>2, <2>3
    <3> HIDE DEF e
    <3>2. SplitD(h, pivot, rest, 0, g[0], e, e)
      BY <2>1, <2>3, <2>4, <2>5, <3>1 DEF SplitD
    <3> QED BY <3>2 DEF e
  <2> QED BY <1>2, <2>6
<1>6. ASSUME NEW n \in 1 .. N, n - 1 \in Good PROVE n \in Good
  <2>1. PICK A, B : SplitD(h, pivot, rest, n - 1, g[n - 1], A, B)
    BY <1>6
  <2>2. n \in 1 .. Len(rest) /\ n \in 0 .. N
    BY <1>2 DEF N
  <2>3. \E A1, B1 : SplitD(h, pivot, rest, n,
          Doubly!SplitTurn(g[n - 1], rest[n], Doubly!GoesLess(h, rest[n], pivot)), A1, B1)
    BY <2>1, <2>2, SplitTurnKeepsD
  <2> QED BY <1>4, <2>2, <2>3
<1>7. N \in Good
  <2>1. Good \subseteq 0 .. N
    OBVIOUS
  <2> HIDE DEF Good
  <2>2. Good = 0 .. N
    BY <1>2, <1>5, <1>6, <2>1, UpTo
  <2> QED BY <1>2, <2>2
<1> QED BY <1>1, <1>7 DEF N

\* What a call of list_sort_internal on the entries s promises.
Ascends(h, s) ==
  \A i, j \in 1 .. Len(s) : i <= j => Rank[h[s[i]].data] <= Rank[h[s[j]].data]

SortsD(h, s, r) ==
  /\ KeepsD(r.heap, h)
  /\ \A x \in DOMAIN h : x \notin Range(s) => SameEntry(r.heap, h, x)
  /\ \E t : /\ DPart(r.heap, r.list, t)
            /\ Range(t) = Range(s)
            /\ Ascends(h, t)
            /\ Len(t) # 0 => r.end = t[Len(t)]

\* A sublist of at most one entry is sorted.
LEMMA SortNoneD ==
  ASSUME NEW h, DHeap(h), NEW l, NEW s, DPart(h, l, s), Len(s) <= 1, NEW Inner
  PROVE  SortsD(h, s, Doubly!SortCall(Inner, [list |-> l, heap |-> h]))
<1> DEFINE m == [list |-> l, heap |-> h]
           r == [list |-> l, end |-> l, heap |-> h]
<1>1. Chain(h, l, s)
  BY DEF DPart
<1>2. /\ s \in Seq(DOMAIN h) /\ Len(s) \in Nat
      /\ \A i \in 1 .. Len(s) : s[i] \in DOMAIN h
      /\ l = NULL <=> Len(s) = 0
      /\ l # NULL => l = s[1]
  BY <1>1, PartStart DEF DHeap
<1>3. l # NULL => h[l].next = NULL
  <2> DEFINE n == Len(s)
  <2>1. n \in Nat /\ n <= 1 /\ (l = NULL <=> n = 0)
    BY <1>2
  <2> HIDE DEF n
  <2>2. l # NULL => n = 1 /\ 1 \in 1 .. n
    BY <2>1
  <2> QED BY <1>1, <1>2, <2>2, ChainFacts DEF n
<1>4. Doubly!SortCall(Inner, m) = r
  BY <1>3 DEF Doubly!SortCall
<1>5. \A x \in DOMAIN h : SameEntry(h, h, x)
  BY DEF SameEntry
<1>6. KeepsD(h, h)
  BY DEF KeepsD
<1>7. Ascends(h, s)
  <2>1. ASSUME NEW i \in 1 .. Len(s), NEW j \in 1 .. Len(s), i <= j
        PROVE  Rank[h[s[i]].data] <= Rank[h[s[j]].data]
    <3>1. i = j
      BY <1>2, <2>1
    <3>2. h[s[i]].data \in Value
      BY <1>2, DFields
    <3>3. Rank[h[s[i]].data] \in Int
      BY <3>2, ListAssumption DEF Doubly!Parameters
    <3> QED BY <3>1, <3>3
  <2> QED BY <2>1 DEF Ascends
<1>8. Len(s) # 0 => l = s[Len(s)]
  BY <1>2
<1>9. r.heap = h /\ r.list = l /\ r.end = l
  OBVIOUS
<1> HIDE DEF r
<1>10. SortsD(h, s, r)
  BY <1>5, <1>6, <1>7, <1>8, <1>9 DEF SortsD
<1> QED BY <1>4, <1>10

\* The order around the pivot.
IsAround(S, u, s, c, t) ==
  /\ u \in Seq(S)
  /\ Len(u) = Len(s) + 1 + Len(t)
  /\ \A i \in 1 .. Len(s) : u[i] = s[i]
  /\ u[Len(s) + 1] = c
  /\ \A i \in 1 .. Len(t) : u[Len(s) + 1 + i] = t[i]
  /\ u[Len(u)] = IF Len(t) = 0 THEN c ELSE t[Len(t)]
  /\ Range(u) = Range(s) \cup Range(t) \cup {c}

\* The lengths and the members of the order around the pivot.
LEMMA Around ==
  ASSUME NEW S, NEW s \in Seq(S), NEW t \in Seq(S), NEW c \in S
  PROVE  IsAround(S, Glue(s, Ahead(c, t)), s, c, t)
<1> DEFINE q == Ahead(c, t)
           u == Glue(s, q)
           m == Len(s)
           n == Len(t)
<1>1. m \in Nat /\ n \in Nat
  BY SeqIs
<1>2. IsAhead(S, c, t)
  BY AheadFacts
<1>3. /\ q \in Seq(S)
      /\ Len(q) = n + 1
      /\ q[1] = c
      /\ \A i \in 2 .. n + 1 : q[i] = t[i - 1]
  BY <1>2 DEF IsAhead
<1>4. Range(q) = Range(t) \cup {c}
  BY RangeCons
<1> HIDE DEF q
<1>5. IsGlue(S, s, q)
  BY <1>3, GlueFacts
<1>6. /\ u \in Seq(S)
      /\ Len(u) = m + Len(q)
      /\ \A i \in 1 .. m : u[i] = s[i]
      /\ \A i \in 1 .. Len(q) : u[m + i] = q[i]
  BY <1>5 DEF IsGlue
<1>7. Range(u) = Range(s) \cup Range(q)
  BY <1>3, RangeJoined
<1> HIDE DEF u, m, n
<1>8. Len(u) = m + 1 + n
  BY <1>1, <1>3, <1>6
<1>9. u[m + 1] = c
  BY <1>1, <1>3, <1>6
<1>10. ASSUME NEW i \in 1 .. n PROVE u[m + 1 + i] = t[i]
  <2>1. i + 1 \in 1 .. Len(q) /\ i + 1 \in 2 .. n + 1 /\ m + (i + 1) = m + 1 + i /\ (i + 1) - 1 = i
    BY <1>1, <1>3
  <2>2. u[m + (i + 1)] = q[i + 1]
    BY <1>6, <2>1
  <2>3. q[i + 1] = t[(i + 1) - 1]
    BY <1>3, <2>1
  <2> QED BY <2>1, <2>2, <2>3
<1>11. u[Len(u)] = IF n = 0 THEN c ELSE t[n]
  <2>1. CASE n = 0
    <3>1. Len(u) = m + 1
      BY <1>1, <1>8, <2>1
    <3> QED BY <1>9, <2>1, <3>1
  <2>2. CASE n # 0
    <3>1. n \in 1 .. n
      BY <1>1, <2>2
    <3> QED BY <1>8, <1>10, <2>2, <3>1
  <2> QED BY <2>1, <2>2
<1>12. Range(u) = Range(s) \cup Range(t) \cup {c}
  BY <1>4, <1>7
<1>13. IsAround(S, u, s, c, t)
  BY <1>6, <1>8, <1>9, <1>10, <1>11, <1>12 DEF m, n, IsAround
<1> QED BY <1>13 DEF u, q

\* The order around the pivot ascends.
LEMMA AroundAscends ==
  ASSUME NEW S, NEW s \in Seq(S), NEW t \in Seq(S), NEW c \in S, NEW h,
         \A x \in S : h[x].data \in Value,
         Ascends(h, s), Ascends(h, t),
         \A x \in Range(s) : Rank[h[x].data] < Rank[h[c].data],
         \A x \in Range(t) : ~(Rank[h[x].data] < Rank[h[c].data])
  PROVE  Ascends(h, Glue(s, Ahead(c, t)))
<1> DEFINE u == Glue(s, Ahead(c, t))
           m == Len(s)
           n == Len(t)
           R(x) == Rank[h[x].data]
<1>1. m \in Nat /\ n \in Nat /\ (\A i \in 1 .. m : s[i] \in S) /\ (\A i \in 1 .. n : t[i] \in S)
  BY SeqIs
<1>2. \A x \in S : R(x) \in Int
  BY ListAssumption DEF Doubly!Parameters
<1>3. (\A i \in 1 .. m : s[i] \in Range(s)) /\ (\A i \in 1 .. n : t[i] \in Range(t))
  BY RangeIs
<1>4. /\ Len(u) = m + 1 + n
      /\ \A i \in 1 .. m : u[i] = s[i]
      /\ u[m + 1] = c
      /\ \A i \in 1 .. n : u[m + 1 + i] = t[i]
  <2>1. IsAround(S, u, s, c, t)
    BY Around
  <2> HIDE DEF u
  <2> QED BY <2>1 DEF IsAround
<1> HIDE DEF u, R
<1>5. \A i, j \in 1 .. m : i <= j => R(s[i]) <= R(s[j])
  BY DEF Ascends, R
<1>6. \A i, j \in 1 .. n : i <= j => R(t[i]) <= R(t[j])
  BY DEF Ascends, R
<1>7. /\ \A i \in 1 .. m : R(s[i]) < R(c) /\ R(s[i]) \in Int
      /\ \A i \in 1 .. n : ~(R(t[i]) < R(c)) /\ R(t[i]) \in Int
      /\ R(c) \in Int
  BY <1>1, <1>2, <1>3 DEF R
<1> HIDE DEF m, n
<1>8. ASSUME NEW i \in 1 .. Len(u), NEW j \in 1 .. Len(u), i <= j
      PROVE  R(u[i]) <= R(u[j])
  <2>0. ASSUME NEW k \in 1 .. Len(u), k > m + 1
        PROVE  k - (m + 1) \in 1 .. n /\ u[k] = t[k - (m + 1)]
    <3>1. k - (m + 1) \in 1 .. n /\ m + 1 + (k - (m + 1)) = k
      BY <1>1, <1>4, <2>0
    <3> QED BY <1>4, <3>1
  <2>1. CASE i <= m /\ j <= m
    <3>1. i \in 1 .. m /\ j \in 1 .. m
      BY <1>1, <2>1
    <3> QED BY <1>4, <1>5, <1>8, <3>1
  <2>2. CASE i <= m /\ j = m + 1
    <3>1. i \in 1 .. m
      BY <1>1, <2>2
    <3> QED BY <1>4, <1>7, <2>2, <3>1
  <2>3. CASE i <= m /\ j > m + 1
    <3>1. i \in 1 .. m
      BY <1>1, <2>3
    <3>2. j - (m + 1) \in 1 .. n /\ u[j] = t[j - (m + 1)]
      BY <2>0, <2>3
    <3> DEFINE k == j - (m + 1)
    <3>3. k \in 1 .. n /\ u[j] = t[k]
      BY <3>2
    <3> HIDE DEF k
    <3> QED BY <1>4, <1>7, <3>1, <3>3
  <2>4. CASE i = m + 1 /\ j = m + 1
    BY <1>4, <1>7, <2>4
  <2>5. CASE i = m + 1 /\ j > m + 1
    <3>2. j - (m + 1) \in 1 .. n /\ u[j] = t[j - (m + 1)]
      BY <2>0, <2>5
    <3> DEFINE k == j - (m + 1)
    <3>3. k \in 1 .. n /\ u[j] = t[k]
      BY <3>2
    <3> HIDE DEF k
    <3> QED BY <1>4, <1>7, <2>5, <3>3
  <2>6. CASE i > m + 1 /\ j > m + 1
    <3>1. i - (m + 1) \in 1 .. n /\ u[i] = t[i - (m + 1)]
      BY <2>0, <2>6
    <3>2. j - (m + 1) \in 1 .. n /\ u[j] = t[j - (m + 1)]
      BY <2>0, <2>6
    <3>3. i - (m + 1) <= j - (m + 1)
      BY <1>1, <1>8
    <3> QED BY <1>6, <3>1, <3>2, <3>3
  <2>7. i \in Int /\ j \in Int
    OBVIOUS
  <2>8. \/ i <= m /\ j <= m
        \/ i <= m /\ j = m + 1
        \/ i <= m /\ j > m + 1
        \/ i = m + 1 /\ j = m + 1
        \/ i = m + 1 /\ j > m + 1
        \/ i > m + 1 /\ j > m + 1
    <3>1. m \in Int /\ i <= j
      BY <1>1, <1>8
    <3> HIDE DEF u, m
    <3> QED BY <2>7, <3>1
  <2> QED BY <2>1, <2>2, <2>3, <2>4, <2>5, <2>6, <2>8
<1> QED BY <1>8 DEF Ascends, u, R

\* The two sublists are joined around the pivot.
LEMMA JoinsD ==
  ASSUME NEW f, DHeap(f), NEW s, NEW t, NEW less, NEW more,
         DPart(f, less.list, s), DPart(f, more.list, t), Range(s) \cap Range(t) = {},
         NEW pivot \in DOMAIN f, pivot \notin Range(s) \cup Range(t),
         Len(s) # 0 => less.end = s[Len(s)]
  PROVE  LET g == Doubly!JoinMore(Doubly!JoinLess(f, less, pivot), more, pivot)
             u == Glue(s, Ahead(pivot, t))
         IN  /\ KeepsD(g, f)
             /\ DPart(g, IF less.list = NULL THEN pivot ELSE less.list, u)
             /\ \A x \in DOMAIN f : x \notin Range(u) => SameEntry(g, f, x)
<1> DEFINE D == DOMAIN f
           p == less.list
           q == more.list
           e == less.end
           f1 == Doubly!JoinLess(f, less, pivot)
           g == Doubly!JoinMore(f1, more, pivot)
           v == Ahead(pivot, t)
           u == Glue(s, v)
<1>1. /\ s \in Seq(D) /\ Len(s) \in Nat
      /\ \A i \in 1 .. Len(s) : s[i] \in D /\ s[i] \in Range(s)
      /\ p = NULL <=> Len(s) = 0
  BY PartStart DEF DPart, DHeap
<1>2. /\ t \in Seq(D) /\ Len(t) \in Nat
      /\ \A i \in 1 .. Len(t) : t[i] \in D /\ t[i] \in Range(t)
      /\ q = NULL <=> Len(t) = 0
      /\ q # NULL => q = t[1] /\ q \in D /\ q \in Range(t)
      /\ q \in Doubly!Pointer
  BY PartStart DEF DPart, DHeap
<1>3. p # NULL => Len(s) \in 1 .. Len(s) /\ e = s[Len(s)] /\ e \in D /\ e \in Range(s)
  BY <1>1
<1>4. NULL \in Doubly!Pointer /\ pivot \in Doubly!Pointer /\ \A x \in D : x \in Doubly!Pointer
  BY DEF Doubly!Pointer, DHeap
<1> HIDE DEF p, q, e, D, f1, g
<1>5. /\ DHeap(f1) /\ DOMAIN f1 = D
      /\ \A x \in D :
           /\ f1[x].data = f[x].data
           /\ f1[x].next = IF p # NULL /\ x = e THEN pivot ELSE f[x].next
           /\ f1[x].prev = IF x = pivot THEN (IF p = NULL THEN NULL ELSE e) ELSE f[x].prev
  <2>1. CASE p = NULL
    <3> DEFINE k == Doubly!SetPrev(f, pivot, NULL)
    <3>1. DHeap(k) /\ PrevIs(k, f, pivot, NULL)
      BY <1>4, SetPrevD
    <3>2. f1 = k
      BY <2>1 DEF Doubly!JoinLess, f1, p
    <3> HIDE DEF k
    <3> QED BY <2>1, <3>1, <3>2 DEF PrevIs, D
  <2>2. CASE p # NULL
    <3> DEFINE k == Doubly!SetPrev(f, pivot, e)
               k2 == Doubly!SetNext(k, e, pivot)
    <3>1. DHeap(k) /\ PrevIs(k, f, pivot, e)
      BY <1>3, <1>4, <2>2, SetPrevD
    <3>2. f1 = k2
      BY <2>2 DEF Doubly!JoinLess, f1, p, e
    <3> HIDE DEF k
    <3>3. DHeap(k2) /\ NextIs(k2, k, e, pivot)
      <4>1. e \in DOMAIN k
        BY <1>3, <2>2, <3>1 DEF PrevIs, D
      <4> QED BY <1>4, <3>1, <4>1, SetNextD
    <3> HIDE DEF k2
    <3> QED BY <2>2, <3>1, <3>2, <3>3 DEF PrevIs, NextIs, D
  <2> QED BY <2>1, <2>2
<1>6. /\ DHeap(g) /\ DOMAIN g = D
      /\ \A x \in D :
           /\ g[x].data = f[x].data
           /\ g[x].next = IF x = pivot THEN q ELSE f1[x].next
           /\ g[x].prev = IF q # NULL /\ x = q THEN pivot ELSE f1[x].prev
  <2> DEFINE k == Doubly!SetNext(f1, pivot, q)
             k2 == Doubly!SetPrev(k, q, pivot)
  <2>1. DHeap(k) /\ NextIs(k, f1, pivot, q)
    <3>1. pivot \in DOMAIN f1
      BY <1>5 DEF D
    <3> QED BY <1>2, <1>5, <3>1, SetNextD
  <2>2. CASE q = NULL
    <3>1. g = k
      BY <2>2 DEF Doubly!JoinMore, g, q
    <3> HIDE DEF k
    <3> QED BY <1>5, <2>1, <2>2, <3>1 DEF NextIs
  <2>3. CASE q # NULL
    <3>1. g = k2
      BY <2>3 DEF Doubly!JoinMore, g, q
    <3> HIDE DEF k
    <3>2. DHeap(k2) /\ PrevIs(k2, k, q, pivot)
      <4>1. q \in DOMAIN k
        BY <1>2, <1>5, <2>1, <2>3 DEF NextIs
      <4> QED BY <1>4, <2>1, <4>1, SetPrevD
    <3> HIDE DEF k2
    <3> QED BY <1>5, <2>1, <2>3, <3>1, <3>2 DEF NextIs, PrevIs
  <2> QED BY <2>2, <2>3
<1>7. /\ \A x \in Range(s) : x # pivot /\ x \notin Range(t)
      /\ \A x \in Range(t) : x # pivot /\ x \notin Range(s)
  OBVIOUS
<1>8. /\ \A i \in 1 .. Len(s) : s[i] = s[Len(s)] <=> i = Len(s)
      /\ \A i \in 1 .. Len(t) : t[i] = t[1] <=> i = 1
  <2>1. \A i, j \in 1 .. Len(s) : s[i] = s[j] => i = j
    BY ChainFacts DEF DPart
  <2>2. \A i, j \in 1 .. Len(t) : t[i] = t[j] => i = j
    BY ChainFacts DEF DPart
  <2>3. \A i \in 1 .. Len(s) : Len(s) \in 1 .. Len(s)
    BY <1>1
  <2>4. \A i \in 1 .. Len(t) : 1 \in 1 .. Len(t)
    BY <1>2
  <2> QED BY <2>1, <2>2, <2>3, <2>4
<1>9. \A i \in 1 .. Len(s) :
        /\ s[i] \in D
        /\ g[s[i]].next = IF i = Len(s) THEN pivot ELSE f[s[i]].next
        /\ g[s[i]].prev = f[s[i]].prev
  <2> SUFFICES ASSUME NEW i \in 1 .. Len(s)
               PROVE  /\ s[i] \in D
                      /\ g[s[i]].next = IF i = Len(s) THEN pivot ELSE f[s[i]].next
                      /\ g[s[i]].prev = f[s[i]].prev
    OBVIOUS
  <2>1. s[i] \in D /\ s[i] \in Range(s) /\ p # NULL
    BY <1>1
  <2>2. s[i] # pivot /\ ~(q # NULL /\ s[i] = q)
    BY <1>2, <1>7, <2>1
  <2>3. s[i] = e <=> i = Len(s)
    BY <1>3, <1>8, <2>1
  <2> QED BY <1>5, <1>6, <2>1, <2>2, <2>3
<1>10. \A i \in 1 .. Len(t) :
         /\ t[i] \in D
         /\ t[i] # pivot
         /\ g[t[i]].next = f[t[i]].next
         /\ g[t[i]].prev = IF i = 1 THEN pivot ELSE f[t[i]].prev
  <2> SUFFICES ASSUME NEW i \in 1 .. Len(t)
               PROVE  /\ t[i] \in D
                      /\ t[i] # pivot
                      /\ g[t[i]].next = f[t[i]].next
                      /\ g[t[i]].prev = IF i = 1 THEN pivot ELSE f[t[i]].prev
    OBVIOUS
  <2>1. t[i] \in D /\ t[i] \in Range(t) /\ q # NULL
    BY <1>2
  <2>2. t[i] # pivot /\ ~(p # NULL /\ t[i] = e)
    BY <1>3, <1>7, <2>1
  <2>3. t[i] = q <=> i = 1
    BY <1>2, <1>8, <2>1
  <2> QED BY <1>5, <1>6, <2>1, <2>2, <2>3
<1>11. pivot \in D /\ g[pivot].next = q /\ g[pivot].prev = NthOf(s, Len(s))
  <2>1. pivot \in D /\ ~(q # NULL /\ pivot = q) /\ ~(p # NULL /\ pivot = e)
    BY <1>2, <1>3 DEF D
  <2>2. NthOf(s, Len(s)) = IF p = NULL THEN NULL ELSE e
    BY <1>1, <1>3 DEF NthOf
  <2> QED BY <1>5, <1>6, <2>1, <2>2
<1> DEFINE b1 == Doubly!SetPrev(g, pivot, NULL)
<1>12. DHeap(b1) /\ PrevIs(b1, g, pivot, NULL)
  <2>1. pivot \in DOMAIN g
    BY <1>6, <1>11
  <2> QED BY <1>4, <1>6, <2>1, SetPrevD
<1> HIDE DEF b1
<1>13. /\ Len(v) = Len(t) + 1 /\ v[1] = pivot /\ v \in Seq(D)
       /\ \A i \in 2 .. Len(t) + 1 : v[i] = t[i - 1]
       /\ Range(v) = Range(t) \cup {pivot}
  <2>1. IsAhead(D, pivot, t)
    BY <1>2, <1>11, AheadFacts
  <2> QED BY <1>2, <1>11, <2>1, RangeCons DEF IsAhead
<1>14. Chain(g, pivot, v)
  <2>1. Chain(f, q, t)
    BY DEF DPart, q
  <2>2. pivot \in DOMAIN g
    BY <1>6, <1>11
  <2> QED BY <1>6, <1>10, <1>11, <2>1, <2>2, ChainCons
<1>15. Back(b1, v)
  <2>1. Chain(f, q, t) /\ Back(f, t)
    BY DEF DPart, q
  <2>2. b1[pivot].prev = NULL
    BY <1>6, <1>11, <1>12 DEF PrevIs
  <2>3. \A i \in 1 .. Len(t) : b1[t[i]].prev = IF i = 1 THEN pivot ELSE f[t[i]].prev
    BY <1>6, <1>10, <1>12 DEF PrevIs
  <2> QED BY <2>1, <2>2, <2>3, BackCons
<1> HIDE DEF v
<1>16. \A i \in 1 .. Len(v) : /\ v[i] \in D
                              /\ i # 1 => v[i] # pivot
                              /\ v[i] \in Range(t) \cup {pivot}
  <2>1. \A i \in 1 .. Len(v) : i # 1 => i - 1 \in 1 .. Len(t) /\ v[i] = t[i - 1]
    BY <1>2, <1>13
  <2> QED BY <1>2, <1>10, <1>11, <1>13, <2>1
<1>17. Chain(g, IF Len(s) = 0 THEN pivot ELSE p, u)
  <2>1. Chain(f, p, s)
    BY DEF DPart, p
  <2>2. \A i \in 1 .. Len(s), j \in 1 .. Len(v) : s[i] # v[j]
    BY <1>1, <1>7, <1>16
  <2>3. \A i \in 1 .. Len(s) : /\ s[i] \in DOMAIN g
                               /\ g[s[i]].next = IF i = Len(s) THEN pivot ELSE f[s[i]].next
    BY <1>6, <1>9
  <2>4. \A i \in 1 .. Len(v) : v[i] \in DOMAIN g /\ g[v[i]].next = g[v[i]].next
    BY <1>6, <1>16
  <2> HIDE DEF u
  <2> QED BY <1>14, <2>1, <2>2, <2>3, <2>4, ChainJoin DEF u
<1>18. Back(g, u)
  <2>1. Back(f, s)
    BY DEF DPart
  <2>2. \A i \in 1 .. Len(s) : g[s[i]].prev = f[s[i]].prev
    BY <1>9
  <2>3. \A i \in 1 .. Len(v) :
          g[v[i]].prev = IF i = 1 THEN NthOf(s, Len(s)) ELSE b1[v[i]].prev
    BY <1>6, <1>11, <1>12, <1>13, <1>16 DEF PrevIs
  <2>4. s \in Seq(D) /\ v \in Seq(D)
    BY <1>1, <1>13
  <2> HIDE DEF u
  <2> QED BY <1>15, <2>1, <2>2, <2>3, <2>4, BackJoin DEF u
<1>19. \A x \in D : x \notin Range(u) => SameEntry(g, f, x)
  <2>1. Range(u) = Range(s) \cup Range(v)
    BY <1>1, <1>13, RangeJoined
  <2> QED BY <1>2, <1>3, <1>5, <1>6, <1>13, <2>1 DEF SameEntry
<1>20. (IF Len(s) = 0 THEN pivot ELSE p) = IF p = NULL THEN pivot ELSE p
  BY <1>1
<1>21. DPart(g, IF p = NULL THEN pivot ELSE p, u)
  BY <1>17, <1>18, <1>20 DEF DPart
<1>22. KeepsD(g, f)
  BY <1>6 DEF KeepsD, D
<1> QED BY <1>19, <1>21, <1>22 DEF u, v, g, f1, p, D

\* What list_sort_internal may assume of the calls of itself.
SortsShorterD(Inner, h, n) ==
  \A g, k, t : DHeap(g) /\ DOMAIN g = DOMAIN h /\ DPart(g, k, t) /\ Len(t) < n
                 => SortsD(g, t, Inner[[list |-> k, heap |-> g]])

\* A call keeps its promise when the shorter ones inside keep theirs.
LEMMA SortSomeD ==
  ASSUME NEW h, DHeap(h), IsFiniteSet(DOMAIN h), NEW l, NEW s, DPart(h, l, s),
         Len(s) > 1, NEW Inner, SortsShorterD(Inner, h, Len(s))
  PROVE  SortsD(h, s, Doubly!SortCall(Inner, [list |-> l, heap |-> h]))
<1> DEFINE D == DOMAIN h
           m == [list |-> l, heap |-> h]
           rest == Tail(s)
           split == Doubly!Split(h, l, rest)
           less == Inner[[list |-> split.less, heap |-> split.heap]]
           more == Inner[[list |-> split.more, heap |-> less.heap]]
           g == Doubly!JoinMore(Doubly!JoinLess(more.heap, less, l), more, l)
           r == [list |-> IF less.list = NULL THEN l ELSE less.list,
                 end |-> IF more.list = NULL THEN l ELSE more.end,
                 heap |-> g]
           N == Len(s)
<1>1. Chain(h, l, s) /\ Back(h, s)
  BY DEF DPart
<1>2. /\ s \in Seq(D) /\ N \in Nat
      /\ \A i \in 1 .. N : s[i] \in D /\ s[i] \in Range(s)
      /\ l # NULL /\ l = s[1] /\ l \in D /\ l \in Range(s)
  BY <1>1, PartStart DEF DHeap
<1>3. /\ \A i, j \in 1 .. N : s[i] = s[j] => i = j
      /\ \A i \in 1 .. N : h[s[i]].next = IF i = N THEN NULL ELSE s[i + 1]
  BY <1>1, ChainFacts
<1>4. NULL \notin D
  BY NullOutside DEF DHeap
<1>5. h[l].next # NULL
  <2>0. N \in Nat /\ N > 1
    BY <1>2
  <2> HIDE DEF N
  <2>1. 1 \in 1 .. N /\ 2 \in 1 .. N /\ 1 # N /\ 1 + 1 = 2
    BY <2>0
  <2>2. h[s[1]].next = s[2] /\ s[2] \in D
    BY <1>2, <1>3, <2>1
  <2> QED BY <1>2, <1>4, <2>2
<1>6. Doubly!Walk(h, l) = s
  BY <1>1, <1>4, WalkIs
<1>7. Doubly!SortCall(Inner, m) = r
  <2>1. m.list = l /\ m.heap = h
    OBVIOUS
  <2> HIDE DEF m
  <2> QED BY <1>2, <1>5, <1>6, <2>1 DEF Doubly!SortCall
<1>8. /\ rest \in Seq(D)
      /\ Len(rest) = N - 1
      /\ \A i \in 1 .. N - 1 : rest[i] = s[i + 1]
  <2>1. s # <<>>
    BY <1>2
  <2> QED BY <1>2, <2>1, HeadTailProperties
<1> HIDE DEF N, rest, m, D
<1>9. \A i, j \in 1 .. Len(rest) : rest[i] = rest[j] => i = j
  <2> SUFFICES ASSUME NEW i \in 1 .. Len(rest), NEW j \in 1 .. Len(rest), rest[i] = rest[j]
               PROVE  i = j
    OBVIOUS
  <2>1. N \in Nat /\ i \in 1 .. N - 1 /\ j \in 1 .. N - 1
    BY <1>2, <1>8
  <2>2. rest[i] = s[i + 1] /\ rest[j] = s[j + 1]
    BY <1>8, <2>1
  <2>3. i + 1 \in 1 .. N /\ j + 1 \in 1 .. N
    BY <2>1
  <2>4. i + 1 = j + 1
    BY <1>3, <2>2, <2>3
  <2> QED BY <2>1, <2>4
<1> DEFINE others == {rest[i] : i \in 1 .. Len(rest)}
<1>10. Range(s) = others \cup {l} /\ l \notin others
  <2>1. Range(s) = {s[i] : i \in 1 .. N}
    BY <1>2, RangeIs DEF N
  <2>2. others = {s[i] : i \in 2 .. N}
    <3>1. ASSUME NEW i \in 1 .. N - 1 PROVE i + 1 \in 2 .. N /\ rest[i] = s[i + 1]
      BY <1>2, <1>8
    <3>2. ASSUME NEW i \in 2 .. N PROVE i - 1 \in 1 .. N - 1 /\ rest[i - 1] = s[i]
      <4>1. i - 1 \in 1 .. N - 1 /\ (i - 1) + 1 = i
        BY <1>2
      <4> QED BY <1>8, <4>1
    <3>3. others = {rest[i] : i \in 1 .. N - 1}
      BY <1>8
    <3> HIDE DEF others
    <3> QED BY <3>1, <3>2, <3>3
  <2>3. 1 .. N = (2 .. N) \cup {1} /\ 1 \in 1 .. N
    BY <1>2 DEF N
  <2>4. \A i \in 2 .. N : s[i] # s[1]
    BY <1>2, <1>3, <2>3
  <2> HIDE DEF others
  <2> QED BY <1>2, <2>1, <2>2, <2>3, <2>4
<1>11. PICK A, B : SplitD(h, l, rest, Len(rest), split, A, B)
  <2>1. l \in DOMAIN h /\ rest \in Seq(DOMAIN h)
    BY <1>2, <1>8 DEF D
  <2> QED BY <1>9, <2>1, SplitIsD
<1> HIDE DEF split
<1>12. /\ KeepsD(split.heap, h)
       /\ DPart(split.heap, split.less, A) /\ DPart(split.heap, split.more, B)
       /\ Range(A) \cap Range(B) = {}
       /\ Range(A) \cup Range(B) = others
       /\ \A x \in D : x \notin others => SameEntry(split.heap, h, x)
       /\ \A x \in Range(A) : Rank[h[x].data] < Rank[h[l].data]
       /\ \A x \in Range(B) : ~(Rank[h[x].data] < Rank[h[l].data])
       /\ Len(A) <= Len(rest) /\ Len(B) <= Len(rest)
  BY <1>11 DEF SplitD, D
<1> HIDE DEF others
<1>13. Len(A) < N /\ Len(B) < N
  <2>1. Len(A) \in Nat /\ Len(B) \in Nat
    BY <1>12, ChainFacts DEF DPart
  <2> QED BY <1>2, <1>8, <1>12, <2>1
<1>14. SortsD(split.heap, A, less)
  BY <1>12, <1>13 DEF SortsShorterD, KeepsD, N
<1> HIDE DEF less
<1>15. PICK t1 : /\ KeepsD(less.heap, split.heap)
                 /\ \A x \in DOMAIN split.heap : x \notin Range(A) =>
                      SameEntry(less.heap, split.heap, x)
                 /\ DPart(less.heap, less.list, t1)
                 /\ Range(t1) = Range(A)
                 /\ Ascends(split.heap, t1)
                 /\ Len(t1) # 0 => less.end = t1[Len(t1)]
  BY <1>14 DEF SortsD
<1>16. DOMAIN split.heap = D /\ DHeap(split.heap) /\ DOMAIN less.heap = D /\ DHeap(less.heap)
  BY <1>12, <1>15 DEF KeepsD, D
<1>17. DPart(less.heap, split.more, B)
  <2>1. \A x \in DOMAIN split.heap : x \in Range(B) => SameEntry(less.heap, split.heap, x)
    BY <1>12, <1>15
  <2> QED BY <1>12, <1>16, <2>1, PartFrameD
<1>18. SortsD(less.heap, B, more)
  BY <1>13, <1>16, <1>17 DEF SortsShorterD, N, D
<1> HIDE DEF more
<1>19. PICK t2 : /\ KeepsD(more.heap, less.heap)
                 /\ \A x \in DOMAIN less.heap : x \notin Range(B) =>
                      SameEntry(more.heap, less.heap, x)
                 /\ DPart(more.heap, more.list, t2)
                 /\ Range(t2) = Range(B)
                 /\ Ascends(less.heap, t2)
                 /\ Len(t2) # 0 => more.end = t2[Len(t2)]
  BY <1>18 DEF SortsD
<1>20. DOMAIN more.heap = D /\ DHeap(more.heap)
  BY <1>16, <1>19 DEF KeepsD
<1>21. DPart(more.heap, less.list, t1)
  <2>1. \A x \in DOMAIN less.heap : x \in Range(t1) => SameEntry(more.heap, less.heap, x)
    BY <1>12, <1>15, <1>19
  <2> QED BY <1>15, <1>16, <1>20, <2>1, PartFrameD
<1> DEFINE u == Glue(t1, Ahead(l, t2))
           k == IF less.list = NULL THEN l ELSE less.list
<1>22. /\ KeepsD(g, more.heap)
       /\ DPart(g, k, u)
       /\ \A x \in DOMAIN more.heap : x \notin Range(u) => SameEntry(g, more.heap, x)
  <2>1. Range(t1) \cap Range(t2) = {} /\ l \notin Range(t1) \cup Range(t2)
    BY <1>10, <1>12, <1>15, <1>19
  <2>2. l \in DOMAIN more.heap
    BY <1>2, <1>20
  <2> QED BY <1>15, <1>19, <1>20, <1>21, <2>1, <2>2, JoinsD
<1> HIDE DEF g, k
<1>23. /\ t1 \in Seq(D) /\ t2 \in Seq(D) /\ Len(t2) \in Nat
       /\ more.list = NULL <=> Len(t2) = 0
  <2>1. Chain(more.heap, less.list, t1) /\ Chain(more.heap, more.list, t2)
    BY <1>19, <1>21 DEF DPart
  <2>2. D \subseteq Cell
    BY DEF DHeap, D
  <2> QED BY <1>20, <2>1, <2>2, PartStart
<1>24. IsAround(D, u, t1, l, t2)
  BY <1>2, <1>23, Around
<1>25. \A x \in D : /\ split.heap[x].data = h[x].data
                    /\ less.heap[x].data = h[x].data
                    /\ more.heap[x].data = h[x].data
  BY <1>12, <1>15, <1>16, <1>19 DEF KeepsD, D
<1>26. Ascends(h, u)
  <2>1. Ascends(h, t1)
    <3>1. \A i \in 1 .. Len(t1) : t1[i] \in D
      BY <1>23, SeqIs
    <3> QED BY <1>15, <1>25, <3>1 DEF Ascends
  <2>2. Ascends(h, t2)
    <3>1. \A i \in 1 .. Len(t2) : t2[i] \in D
      BY <1>23, SeqIs
    <3> QED BY <1>19, <1>25, <3>1 DEF Ascends
  <2>3. \A x \in D : h[x].data \in Value
    BY DFields DEF D
  <2>4. /\ \A x \in Range(t1) : Rank[h[x].data] < Rank[h[l].data]
        /\ \A x \in Range(t2) : ~(Rank[h[x].data] < Rank[h[l].data])
    BY <1>12, <1>15, <1>19
  <2> QED BY <1>2, <1>23, <2>1, <2>2, <2>3, <2>4, AroundAscends
<1> HIDE DEF u
<1>27. Range(u) = Range(s)
  BY <1>10, <1>12, <1>15, <1>19, <1>24 DEF IsAround
<1>28. r.heap = g /\ r.list = k /\ r.end = IF more.list = NULL THEN l ELSE more.end
  BY DEF k
<1> HIDE DEF r
<1>29. r.end = u[Len(u)]
  BY <1>19, <1>23, <1>24, <1>28 DEF IsAround
<1>30. \A x \in D : x \notin Range(s) => SameEntry(g, h, x)
  <2> SUFFICES ASSUME NEW x \in D, x \notin Range(s) PROVE SameEntry(g, h, x)
    OBVIOUS
  <2>1. SameEntry(split.heap, h, x)
    BY <1>10, <1>12
  <2>2. SameEntry(less.heap, split.heap, x)
    BY <1>10, <1>12, <1>15, <1>16
  <2>3. SameEntry(more.heap, less.heap, x)
    BY <1>10, <1>12, <1>16, <1>19
  <2>4. SameEntry(g, more.heap, x)
    BY <1>20, <1>22, <1>27
  <2> QED BY <2>1, <2>2, <2>3, <2>4 DEF SameEntry
<1>31. KeepsD(g, h)
  BY <1>20, <1>22, <1>25 DEF KeepsD, D
<1>32. SortsD(h, s, r)
  BY <1>22, <1>26, <1>27, <1>28, <1>29, <1>30, <1>31 DEF SortsD, D
<1> QED BY <1>7, <1>32 DEF m

\* The nested calls of list_sort_internal, innermost first.
MemoriesD(h) == [list : Doubly!Pointer, heap : [DOMAIN h -> Doubly!Entry]]
CallD(h, c) == [m \in MemoriesD(h) |-> Doubly!SortCall(c, m)]
CallsD(h, f) ==
  f = [depth \in 0 .. Cardinality(DOMAIN h) |->
         CallD(h, IF depth = 0 THEN <<>> ELSE f[depth - 1])]

\* The recursive function of the nested calls is one.
LEMMA CallsExistD ==
  ASSUME NEW h, IsFiniteSet(DOMAIN h)
  PROVE  \E f : CallsD(h, f)
<1> DEFINE N == Cardinality(DOMAIN h)
           Give(f, n) == CallD(h, IF n = 0 THEN <<>> ELSE f[n - 1])
           Till(k, f) == f = [n \in 0 .. k |-> Give(f, n)]
           Reached == {k \in 0 .. N : \E f : Till(k, f)}
<1>1. N \in Nat
  BY FS_CardinalityType
<1> HIDE DEF N
<1>2. \A f, g, n : n = 0 \/ f[n - 1] = g[n - 1] => Give(f, n) = Give(g, n)
  OBVIOUS
<1>3. 0 \in Reached
  <2> DEFINE f == [n \in 0 .. 0 |-> CallD(h, <<>>)]
  <2>1. \A n \in 0 .. 0 : f[n] = Give(f, n)
    OBVIOUS
  <2> HIDE DEF Give
  <2>2. f = [n \in 0 .. 0 |-> f[n]]
    OBVIOUS
  <2> HIDE DEF f
  <2>3. Till(0, f)
    BY <2>1, <2>2
  <2> HIDE DEF Till
  <2> QED BY <1>1, <2>3
<1> HIDE DEF Give
<1>4. ASSUME NEW k \in 1 .. N, k - 1 \in Reached PROVE k \in Reached
  <2>1. PICK f : Till(k - 1, f)
    BY <1>4
  <2> DEFINE g == [n \in 0 .. k |-> IF n = k THEN Give(f, k) ELSE f[n]]
  <2>2. \A n \in 0 .. k - 1 : f[n] = Give(f, n)
    BY <2>1
  <2>3. ASSUME NEW n \in 0 .. k PROVE g[n] = Give(g, n)
    <3>1. n = 0 \/ f[n - 1] = g[n - 1]
      <4>1. CASE n # 0
        <5>1. n - 1 \in 0 .. k /\ n - 1 # k
          BY <1>1, <4>1
        <5> QED BY <5>1
      <4> QED BY <4>1
    <3>2. Give(f, n) = Give(g, n)
      BY <1>2, <3>1
    <3>3. g[n] = Give(f, n)
      <4>1. CASE n = k
        BY <4>1
      <4>2. CASE n # k
        <5>1. n \in 0 .. k - 1 /\ g[n] = f[n]
          BY <1>1, <4>2
        <5> QED BY <2>2, <5>1
      <4> QED BY <4>1, <4>2
    <3> QED BY <3>2, <3>3
  <2>4. g = [n \in 0 .. k |-> g[n]]
    OBVIOUS
  <2> HIDE DEF g
  <2>5. Till(k, g)
    BY <2>3, <2>4
  <2>6. k \in 0 .. N
    BY <1>1
  <2> HIDE DEF Till
  <2> QED BY <2>5, <2>6
<1>5. N \in Reached
  <2>1. Reached \subseteq 0 .. N
    OBVIOUS
  <2> HIDE DEF Reached
  <2>2. Reached = 0 .. N
    BY <1>1, <1>3, <1>4, <2>1, UpTo
  <2> QED BY <1>1, <2>2
<1> QED BY <1>5 DEF CallsD, N, Give

\* list_sort_internal keeps its promise, by induction over the nesting.
LEMMA SortInternalD ==
  ASSUME NEW h, DHeap(h), IsFiniteSet(DOMAIN h), NEW l, NEW s, DPart(h, l, s)
  PROVE  SortsD(h, s, Doubly!SortInternal(h, l))
<1> DEFINE N == Cardinality(DOMAIN h)
           call == CHOOSE f : CallsD(h, f)
           Good == {d \in 0 .. N : SortsShorterD(call[d], h, d + 2)}
<1>1. Doubly!SortInternal(h, l) = call[N][[list |-> l, heap |-> h]]
  BY SameCardinality DEF Doubly!SortInternal, CallsD, CallD, MemoriesD
<1>2. N \in Nat
  BY FS_CardinalityType
<1>3. CallsD(h, call)
  BY CallsExistD
<1> HIDE DEF call
<1>4. \A d \in 0 .. N : call[d] = CallD(h, IF d = 0 THEN <<>> ELSE call[d - 1])
  BY <1>3 DEF CallsD
<1> HIDE DEF N
<1>5. ASSUME NEW g, NEW k, NEW t, DHeap(g), DOMAIN g = DOMAIN h, DPart(g, k, t), NEW c
      PROVE  CallD(h, c)[[list |-> k, heap |-> g]]
               = Doubly!SortCall(c, [list |-> k, heap |-> g])
  <2>1. k \in Doubly!Pointer
    BY <1>5, PartStart DEF DPart, DHeap
  <2>2. g \in [DOMAIN h -> Doubly!Entry]
    BY <1>5 DEF DHeap
  <2>3. [list |-> k, heap |-> g] \in MemoriesD(h)
    BY <2>1, <2>2 DEF MemoriesD
  <2> QED BY <2>3 DEF CallD
<1>6. \A g, k, t : DPart(g, k, t) => Len(t) \in Nat
  BY ChainFacts DEF DPart
<1>7. 0 \in Good
  <2>1. ASSUME NEW g, NEW k, NEW t, DHeap(g), DOMAIN g = DOMAIN h, DPart(g, k, t), Len(t) < 2
        PROVE  SortsD(g, t, call[0][[list |-> k, heap |-> g]])
    <3>1. call[0] = CallD(h, <<>>)
      BY <1>2, <1>4
    <3>2. Len(t) <= 1
      <4>1. Len(t) \in Nat
        BY <1>6, <2>1
      <4> QED BY <2>1, <4>1
    <3> DEFINE e == <<>>
    <3>3. call[0] = CallD(h, e)
      BY <3>1
    <3> HIDE DEF e
    <3>4. call[0][[list |-> k, heap |-> g]] = Doubly!SortCall(e, [list |-> k, heap |-> g])
      BY <1>5, <2>1, <3>3
    <3>5. SortsD(g, t, Doubly!SortCall(e, [list |-> k, heap |-> g]))
      BY <2>1, <3>2, SortNoneD
    <3> QED BY <3>4, <3>5
  <2>2. SortsShorterD(call[0], h, 2)
    BY <2>1 DEF SortsShorterD
  <2> QED BY <1>2, <2>2
<1>8. ASSUME NEW d \in 1 .. N, d - 1 \in Good PROVE d \in Good
  <2>1. d \in 0 .. N /\ d # 0 /\ d - 1 \in Nat /\ (d - 1) + 2 = d + 1
    BY <1>2
  <2>2. SortsShorterD(call[d - 1], h, d + 1)
    BY <1>8, <2>1
  <2>3. call[d] = CallD(h, call[d - 1])
    BY <1>4, <2>1
  <2>4. ASSUME NEW g, NEW k, NEW t, DHeap(g), DOMAIN g = DOMAIN h, DPart(g, k, t),
               Len(t) < d + 2
        PROVE  SortsD(g, t, call[d][[list |-> k, heap |-> g]])
    <3> DEFINE c == call[d - 1]
               n == Len(t)
    <3>1. call[d][[list |-> k, heap |-> g]] = Doubly!SortCall(c, [list |-> k, heap |-> g])
      BY <1>5, <2>3, <2>4
    <3>2. n \in Nat
      BY <1>6, <2>4
    <3>3. CASE n <= 1
      BY <2>4, <3>1, <3>3, SortNoneD
    <3>4. CASE n > 1
      <4>1. \A i \in Nat : i < n => i < d + 1
        <5>1. n < d + 2
          BY <2>4
        <5> HIDE DEF n
        <5> QED BY <2>1, <3>2, <5>1
      <4>2. SortsShorterD(c, g, n)
        BY <1>6, <2>2, <2>4, <4>1 DEF SortsShorterD
      <4>3. IsFiniteSet(DOMAIN g)
        BY <2>4
      <4> QED BY <2>4, <3>1, <3>4, <4>2, <4>3, SortSomeD
    <3> QED
      <4> HIDE DEF n
      <4> QED BY <3>2, <3>3, <3>4
  <2>5. SortsShorterD(call[d], h, d + 2)
    BY <2>4 DEF SortsShorterD
  <2> QED BY <2>1, <2>5
<1>9. SortsShorterD(call[N], h, N + 2)
  <2>1. Good \subseteq 0 .. N
    OBVIOUS
  <2>2. Good = 0 .. N
    <3> HIDE DEF Good
    <3> QED BY <1>2, <1>7, <1>8, <2>1, UpTo
  <2>3. N \in Good
    BY <1>2, <2>2
  <2> QED BY <2>3
<1>10. Len(s) < N + 2
  <2>1. Len(s) \in 0 .. N
    BY ChainLength DEF DPart, N
  <2> QED BY <1>2, <2>1
<1>11. SortsD(h, s, call[N][[list |-> l, heap |-> h]])
  BY <1>9, <1>10 DEF SortsShorterD
<1> QED BY <1>1, <1>11 DEF N

\* The same entries in another order hold the same values as often.
LEMMA SamePermutes ==
  ASSUME NEW h, NEW p, NEW s, Chain(h, p, s), NEW g, NEW q, NEW t, Chain(g, q, t),
         DOMAIN g = DOMAIN h, Range(t) = Range(s),
         \A x \in DOMAIN h : h[x].data \in Value /\ g[x].data = h[x].data
  PROVE  Sequences!Permutes(Vals(g, t), Vals(h, s))
<1>1. ASSUME NEW v \in Value
      PROVE  Sequences!Occurrences(Vals(g, t), v) = Sequences!Occurrences(Vals(h, s), v)
  <2> DEFINE V == {v}
             w == Vals(h, s)
             u == Vals(g, t)
  <2>1. s \in Seq(DOMAIN h) /\ t \in Seq(DOMAIN g)
    BY ChainFacts
  <2>2. DOMAIN w = 1 .. Len(s) /\ DOMAIN u = 1 .. Len(t)
    BY DEF Vals
  <2>3. CountIs(h, s, V) /\ CountIs(g, t, V)
    <3>1. \A x \in DOMAIN g : g[x].data \in Value
      OBVIOUS
    <3> HIDE DEF V
    <3> QED BY <3>1, CountValues
  <2>4. /\ {i \in 1 .. Len(s) : w[i] \in V} = {i \in DOMAIN w : w[i] = v}
        /\ {i \in 1 .. Len(t) : u[i] \in V} = {i \in DOMAIN u : u[i] = v}
    <3> HIDE DEF w, u
    <3> QED BY <2>2
  <2>5. \A x \in Range(s) : x \in DOMAIN h
    BY <2>1, RangeIs, SeqIs
  <2>6. {c \in Range(s) : h[c].data \in V} = {c \in Range(t) : g[c].data \in V}
    BY <2>5
  <2> HIDE DEF V
  <2>7. Cardinality({i \in DOMAIN w : w[i] = v}) = Cardinality({i \in DOMAIN u : u[i] = v})
    BY <2>3, <2>4, <2>6 DEF CountIs
  <2> QED BY <2>7, SameCardinality DEF Sequences!Occurrences
<1> QED BY <1>1 DEF Sequences!Permutes

\* Entries in ascending order hold an ascending sequence.
LEMMA AscendsTo ==
  ASSUME NEW h, NEW p, NEW s, Chain(h, p, s), Ascends(h, s), NEW g,
         \A x \in DOMAIN h : h[x].data \in Value /\ g[x].data = h[x].data
  PROVE  Sequences!Ascending(Vals(g, s))
<1>1. Len(s) \in Nat /\ \A i \in 1 .. Len(s) : s[i] \in DOMAIN h
  BY ChainFacts
<1> DEFINE w == Vals(g, s)
<1>2. Len(w) = Len(s) /\ \A i \in 1 .. Len(s) : w[i] = h[s[i]].data
  <2>1. s \in Seq(DOMAIN h)
    BY ChainFacts
  <2>2. Len(w) = Len(s) /\ \A i \in 1 .. Len(s) : w[i] = g[s[i]].data
    BY <1>1 DEF Vals
  <2> QED BY <1>1, <2>2
<1> HIDE DEF w
<1>3. ASSUME NEW i \in 1 .. Len(w) - 1 PROVE Rank[w[i]] <= Rank[w[i + 1]]
  <2>1. i \in 1 .. Len(s) /\ i + 1 \in 1 .. Len(s) /\ i <= i + 1
    BY <1>1, <1>2
  <2> QED BY <1>2, <2>1 DEF Ascends
<1> QED BY <1>3 DEF Sequences!Ascending, w

\* list_sort.
SortedD(h, s, r, t) ==
  /\ DOK(r.list, r.heap, t)
  /\ DOMAIN r.heap = DOMAIN h
  /\ Sequences!Permutes(Vals(r.heap, t), Vals(h, s))
  /\ Sequences!Ascending(Vals(r.heap, t))

\* list_sort leaves the same values in ascending order.
LEMMA SortD ==
  ASSUME NEW l, NEW h, NEW s, DOK(l, h, s)
  PROVE  \E t : SortedD(h, s, Doubly!SortInternal(h, l), t)
<1> DEFINE r == Doubly!SortInternal(h, l)
<1>1. DHeap(h) /\ Chain(h, l, s) /\ Back(h, s) /\ Range(s) = DOMAIN h
  BY DEF DOK
<1>2. IsFiniteSet(DOMAIN h)
  BY <1>1, OrderIs DEF DHeap
<1>3. SortsD(h, s, r)
  BY <1>1, <1>2, SortInternalD DEF DPart
<1> HIDE DEF r
<1>4. PICK t : /\ DPart(r.heap, r.list, t)
               /\ Range(t) = Range(s)
               /\ Ascends(h, t)
  BY <1>3 DEF SortsD
<1>5. /\ DHeap(r.heap) /\ DOMAIN r.heap = DOMAIN h
      /\ \A x \in DOMAIN h : h[x].data \in Value /\ r.heap[x].data = h[x].data
  BY <1>1, <1>3, DFields DEF SortsD, KeepsD
<1>6. Chain(r.heap, r.list, t) /\ Back(r.heap, t)
  BY <1>4 DEF DPart
<1>7. DOK(r.list, r.heap, t)
  BY <1>1, <1>4, <1>5, <1>6 DEF DOK
<1>8. Sequences!Permutes(Vals(r.heap, t), Vals(h, s))
  BY <1>1, <1>4, <1>5, <1>6, SamePermutes
<1>9. Sequences!Ascending(Vals(r.heap, t))
  <2>1. Ascends(r.heap, t)
    <3>1. \A i \in 1 .. Len(t) : t[i] \in DOMAIN r.heap
      BY <1>6, ChainFacts
    <3> QED BY <1>4, <1>5, <3>1 DEF Ascends
  <2>2. \A x \in DOMAIN r.heap : r.heap[x].data \in Value
    BY <1>5
  <2> QED BY <1>6, <2>1, <2>2, AscendsTo
<1> QED BY <1>5, <1>7, <1>8, <1>9 DEF r, SortedD

\* Part of a heap is rearranged: no value moves, and outside the part no
\* link changes.
SameEntryS(g, h, x) == g[x].data = h[x].data /\ g[x].next = h[x].next
KeepsS(g, h) ==
  SHeap(g) /\ DOMAIN g = DOMAIN h /\ \A x \in DOMAIN h : g[x].data = h[x].data
SPart(h, l, s) == Chain(h, l, s)

\* A sublist survives what leaves its entries alone.
LEMMA PartFrameS ==
  ASSUME NEW h, NEW l, NEW s, SPart(h, l, s), NEW g, DOMAIN g = DOMAIN h,
         \A x \in DOMAIN h : x \in Range(s) => SameEntryS(g, h, x)
  PROVE  SPart(g, l, s)
<1>1. s \in Seq(DOMAIN h) /\ \A i \in 1 .. Len(s) : s[i] \in DOMAIN h
  BY ChainFacts DEF SPart
<1>2. \A i \in 1 .. Len(s) : s[i] \in Range(s)
  BY <1>1, RangeIs
<1>3. \A i \in 1 .. Len(s) : s[i] \in DOMAIN g /\ g[s[i]].next = h[s[i]].next
  BY <1>1, <1>2 DEF SameEntryS
<1>4. Chain(g, l, s)
  BY <1>3, ChainFrame DEF SPart
<1> QED BY <1>4 DEF SPart

\* slist_sort_internal moves an entry to the front of a sublist.
LEMMA PushFrontS ==
  ASSUME NEW h, SHeap(h), NEW front, NEW s, SPart(h, front, s),
         NEW c \in DOMAIN h, c \notin Range(s)
  PROVE  LET g == Singly!SetNext(h, c, front)
         IN  /\ KeepsS(g, h)
             /\ SPart(g, c, Ahead(c, s))
             /\ \A x \in DOMAIN h : x # c /\ x \notin Range(s) => SameEntryS(g, h, x)
<1> DEFINE g == Singly!SetNext(h, c, front)
<1>0. Chain(h, front, s)
  BY DEF SPart
<1>1. /\ s \in Seq(DOMAIN h) /\ Len(s) \in Nat
      /\ \A i \in 1 .. Len(s) : s[i] \in DOMAIN h /\ s[i] \in Range(s)
      /\ front \in Singly!Pointer
  BY <1>0, PartStart DEF SHeap
<1>2. SHeap(g) /\ NextSIs(g, h, c, front)
  BY <1>1, SetNextS
<1> HIDE DEF g
<1>3. /\ DOMAIN g = DOMAIN h
      /\ \A x \in DOMAIN h :
           /\ g[x].data = h[x].data
           /\ g[x].next = IF x = c THEN front ELSE h[x].next
  BY <1>2 DEF NextSIs
<1>4. Chain(g, c, Ahead(c, s))
  <2>1. \A i \in 1 .. Len(s) : /\ s[i] # c
                               /\ s[i] \in DOMAIN g
                               /\ g[s[i]].next = h[s[i]].next
    BY <1>1, <1>3
  <2>2. c \in DOMAIN g /\ g[c].next = front
    BY <1>3
  <2> QED BY <1>0, <2>1, <2>2, ChainCons
<1>5. \A x \in DOMAIN h : x # c /\ x \notin Range(s) => SameEntryS(g, h, x)
  BY <1>1, <1>3 DEF SameEntryS
<1>6. KeepsS(g, h) /\ SPart(g, c, Ahead(c, s))
  BY <1>2, <1>3, <1>4 DEF KeepsS, SPart
<1> QED BY <1>5, <1>6 DEF g

\* The two sublists are joined around the pivot.
LEMMA JoinsS ==
  ASSUME NEW f, SHeap(f), NEW s, NEW t, NEW less, NEW more,
         SPart(f, less.list, s), SPart(f, more.list, t), Range(s) \cap Range(t) = {},
         NEW pivot \in DOMAIN f, pivot \notin Range(s) \cup Range(t),
         Len(s) # 0 => less.end = s[Len(s)]
  PROVE  LET g == Singly!Join(f, less, more, pivot)
             u == Glue(s, Ahead(pivot, t))
         IN  /\ KeepsS(g, f)
             /\ SPart(g, IF less.list = NULL THEN pivot ELSE less.list, u)
             /\ \A x \in DOMAIN f : x \notin Range(u) => SameEntryS(g, f, x)
<1> DEFINE D == DOMAIN f
           p == less.list
           q == more.list
           e == less.end
           f1 == IF p = NULL THEN f ELSE Singly!SetNext(f, e, pivot)
           g == Singly!Join(f, less, more, pivot)
           v == Ahead(pivot, t)
           u == Glue(s, v)
<1>1. /\ s \in Seq(D) /\ Len(s) \in Nat
      /\ \A i \in 1 .. Len(s) : s[i] \in D /\ s[i] \in Range(s)
      /\ p = NULL <=> Len(s) = 0
  BY PartStart DEF SPart, SHeap
<1>2. /\ t \in Seq(D) /\ Len(t) \in Nat
      /\ \A i \in 1 .. Len(t) : t[i] \in D /\ t[i] \in Range(t)
      /\ q \in Singly!Pointer
  BY PartStart DEF SPart, SHeap
<1>3. p # NULL => Len(s) \in 1 .. Len(s) /\ e = s[Len(s)] /\ e \in D /\ e \in Range(s)
  BY <1>1
<1>4. pivot \in Singly!Pointer
  BY DEF Singly!Pointer, SHeap
<1>0. g = Singly!SetNext(f1, pivot, q)
  BY DEF Singly!Join
<1> HIDE DEF p, q, e, D, g
<1>5. /\ SHeap(f1) /\ DOMAIN f1 = D
      /\ \A x \in D :
           /\ f1[x].data = f[x].data
           /\ f1[x].next = IF p # NULL /\ x = e THEN pivot ELSE f[x].next
  <2>1. CASE p = NULL
    BY <2>1 DEF D
  <2>2. CASE p # NULL
    <3>1. SHeap(f1) /\ NextSIs(f1, f, e, pivot)
      <4>1. e \in DOMAIN f
        BY <1>3, <2>2 DEF D
      <4> QED BY <1>4, <2>2, <4>1, SetNextS
    <3> HIDE DEF f1
    <3> QED BY <2>2, <3>1 DEF NextSIs, D
  <2> QED BY <2>1, <2>2
<1> HIDE DEF f1
<1>6. /\ SHeap(g) /\ DOMAIN g = D
      /\ \A x \in D :
           /\ g[x].data = f[x].data
           /\ g[x].next = IF x = pivot THEN q ELSE f1[x].next
  <2>1. pivot \in DOMAIN f1
    BY <1>5 DEF D
  <2>2. SHeap(g) /\ NextSIs(g, f1, pivot, q)
    BY <1>0, <1>2, <1>5, <2>1, SetNextS
  <2> QED BY <1>5, <2>2 DEF NextSIs
<1>7. /\ \A x \in Range(s) : x # pivot /\ x \notin Range(t)
      /\ \A x \in Range(t) : x # pivot /\ x \notin Range(s)
  OBVIOUS
<1>8. \A i \in 1 .. Len(s) : s[i] = s[Len(s)] <=> i = Len(s)
  <2>1. \A i, j \in 1 .. Len(s) : s[i] = s[j] => i = j
    BY ChainFacts DEF SPart
  <2>2. \A i \in 1 .. Len(s) : Len(s) \in 1 .. Len(s)
    BY <1>1
  <2> QED BY <2>1, <2>2
<1>9. \A i \in 1 .. Len(s) :
        /\ s[i] \in D
        /\ g[s[i]].next = IF i = Len(s) THEN pivot ELSE f[s[i]].next
  <2> SUFFICES ASSUME NEW i \in 1 .. Len(s)
               PROVE  /\ s[i] \in D
                      /\ g[s[i]].next = IF i = Len(s) THEN pivot ELSE f[s[i]].next
    OBVIOUS
  <2>1. s[i] \in D /\ s[i] \in Range(s) /\ p # NULL
    BY <1>1
  <2>2. s[i] # pivot
    BY <1>7, <2>1
  <2>3. s[i] = e <=> i = Len(s)
    BY <1>3, <1>8, <2>1
  <2> QED BY <1>5, <1>6, <2>1, <2>2, <2>3
<1>10. \A i \in 1 .. Len(t) :
         /\ t[i] \in D
         /\ t[i] # pivot
         /\ g[t[i]].next = f[t[i]].next
  <2> SUFFICES ASSUME NEW i \in 1 .. Len(t)
               PROVE  /\ t[i] \in D
                      /\ t[i] # pivot
                      /\ g[t[i]].next = f[t[i]].next
    OBVIOUS
  <2>1. t[i] \in D /\ t[i] \in Range(t)
    BY <1>2
  <2>2. t[i] # pivot /\ ~(p # NULL /\ t[i] = e)
    BY <1>3, <1>7, <2>1
  <2> QED BY <1>5, <1>6, <2>1, <2>2
<1>11. pivot \in D /\ g[pivot].next = q
  BY <1>6 DEF D
<1>13. /\ Len(v) = Len(t) + 1 /\ v[1] = pivot /\ v \in Seq(D)
       /\ \A i \in 2 .. Len(t) + 1 : v[i] = t[i - 1]
       /\ Range(v) = Range(t) \cup {pivot}
  <2>1. IsAhead(D, pivot, t)
    BY <1>2, <1>11, AheadFacts
  <2> QED BY <1>2, <1>11, <2>1, RangeCons DEF IsAhead
<1>14. Chain(g, pivot, v)
  <2>1. Chain(f, q, t)
    BY DEF SPart, q
  <2>2. pivot \in DOMAIN g
    BY <1>6, <1>11
  <2> QED BY <1>6, <1>10, <1>11, <2>1, <2>2, ChainCons
<1> HIDE DEF v
<1>16. \A i \in 1 .. Len(v) : v[i] \in D /\ v[i] \in Range(t) \cup {pivot}
  <2>1. \A i \in 1 .. Len(v) : i # 1 => i - 1 \in 1 .. Len(t) /\ v[i] = t[i - 1]
    BY <1>2, <1>13
  <2> QED BY <1>2, <1>11, <1>13, <2>1
<1>17. Chain(g, IF Len(s) = 0 THEN pivot ELSE p, u)
  <2>1. Chain(f, p, s)
    BY DEF SPart, p
  <2>2. \A i \in 1 .. Len(s), j \in 1 .. Len(v) : s[i] # v[j]
    BY <1>1, <1>7, <1>16
  <2>3. \A i \in 1 .. Len(s) : /\ s[i] \in DOMAIN g
                               /\ g[s[i]].next = IF i = Len(s) THEN pivot ELSE f[s[i]].next
    BY <1>6, <1>9
  <2>4. \A i \in 1 .. Len(v) : v[i] \in DOMAIN g /\ g[v[i]].next = g[v[i]].next
    BY <1>6, <1>16
  <2> HIDE DEF u
  <2> QED BY <1>14, <2>1, <2>2, <2>3, <2>4, ChainJoin DEF u
<1>19. \A x \in D : x \notin Range(u) => SameEntryS(g, f, x)
  <2>1. Range(u) = Range(s) \cup Range(v)
    BY <1>1, <1>13, RangeJoined
  <2> QED BY <1>3, <1>5, <1>6, <1>13, <2>1 DEF SameEntryS
<1>20. (IF Len(s) = 0 THEN pivot ELSE p) = IF p = NULL THEN pivot ELSE p
  BY <1>1
<1>21. SPart(g, IF p = NULL THEN pivot ELSE p, u)
  BY <1>17, <1>20 DEF SPart
<1>22. KeepsS(g, f)
  BY <1>5, <1>6 DEF KeepsS, D
<1> QED BY <1>19, <1>21, <1>22 DEF u, v, g, p, D

\* The state of the loop that splits, after n turns.
SplitTurnsS(h, pivot, rest, f) ==
  f = [n \in 0 .. Len(rest) |->
         IF n = 0 THEN [heap |-> h, less |-> NULL, more |-> NULL]
         ELSE Singly!SplitTurn(f[n - 1], rest[n], Singly!GoesLess(h, rest[n], pivot))]

SplitS(h, pivot, rest, n, q, A, B) ==
  /\ q = [heap |-> q.heap, less |-> q.less, more |-> q.more]
  /\ KeepsS(q.heap, h)
  /\ SPart(q.heap, q.less, A) /\ SPart(q.heap, q.more, B)
  /\ Range(A) \cap Range(B) = {}
  /\ Range(A) \cup Range(B) = {rest[i] : i \in 1 .. n}
  /\ \A x \in DOMAIN h : x \notin {rest[i] : i \in 1 .. n} => SameEntryS(q.heap, h, x)
  /\ \A x \in Range(A) : Rank[h[x].data] < Rank[h[pivot].data]
  /\ \A x \in Range(B) : ~(Rank[h[x].data] < Rank[h[pivot].data])
  /\ Len(A) <= n /\ Len(B) <= n

\* One turn of the loop that splits puts one entry into its sublist.
LEMMA SplitTurnKeepsS ==
  ASSUME NEW h, SHeap(h), NEW pivot \in DOMAIN h,
         NEW rest \in Seq(DOMAIN h), \A i, j \in 1 .. Len(rest) : rest[i] = rest[j] => i = j,
         NEW n \in 1 .. Len(rest), NEW q, NEW A, NEW B,
         SplitS(h, pivot, rest, n - 1, q, A, B)
  PROVE  \E A1, B1 : SplitS(h, pivot, rest, n,
           Singly!SplitTurn(q, rest[n], Singly!GoesLess(h, rest[n], pivot)), A1, B1)
<1> DEFINE c == rest[n]
           D == DOMAIN h
           past == {rest[i] : i \in 1 .. n - 1}
           now == {rest[i] : i \in 1 .. n}
           goes == Singly!GoesLess(h, c, pivot)
           p == Singly!SplitTurn(q, c, goes)
<1>1. Len(rest) \in Nat /\ \A i \in 1 .. Len(rest) : rest[i] \in D
  BY SeqIs
<1>2. c \in D /\ c \notin past /\ now = past \cup {c} /\ n - 1 \in Nat
  <2>1. c \notin past
    BY <1>1
  <2>2. now = past \cup {c}
    <3>1. 1 .. n = (1 .. n - 1) \cup {n}
      BY <1>1
    <3> QED BY <3>1
  <2> QED BY <1>1, <2>1, <2>2
<1>3. goes <=> Rank[h[c].data] < Rank[h[pivot].data]
  <2>1. h[c].data \in Value /\ h[pivot].data \in Value
    BY <1>2, SFields
  <2>2. Rank[h[c].data] \in Int /\ Rank[h[pivot].data] \in Int
    BY <2>1, ListAssumption DEF Doubly!Parameters
  <2> QED BY <2>2 DEF Singly!GoesLess, Singly!Compare
<1> HIDE DEF c, past, now, goes
<1>4. /\ q = [heap |-> q.heap, less |-> q.less, more |-> q.more]
      /\ KeepsS(q.heap, h)
      /\ SPart(q.heap, q.less, A) /\ SPart(q.heap, q.more, B)
      /\ Range(A) \cap Range(B) = {}
      /\ Range(A) \cup Range(B) = past
      /\ \A x \in D : x \notin past => SameEntryS(q.heap, h, x)
      /\ \A x \in Range(A) : Rank[h[x].data] < Rank[h[pivot].data]
      /\ \A x \in Range(B) : ~(Rank[h[x].data] < Rank[h[pivot].data])
      /\ Len(A) <= n - 1 /\ Len(B) <= n - 1
  BY DEF SplitS, past
<1>5. /\ SHeap(q.heap) /\ DOMAIN q.heap = D
      /\ A \in Seq(D) /\ B \in Seq(D) /\ Len(A) \in Nat /\ Len(B) \in Nat
  BY <1>4, ChainFacts DEF KeepsS, SPart
<1>6. CASE goes
  <2> DEFINE g == Singly!SetNext(q.heap, c, q.less)
             A1 == Ahead(c, A)
  <2>1. p = [heap |-> g, less |-> c, more |-> q.more]
    <3>1. p = [q EXCEPT !.heap = g, !.less = c]
      BY <1>6 DEF Singly!SplitTurn
    <3> HIDE DEF g, p
    <3> QED BY <1>4, <3>1
  <2>2. /\ KeepsS(g, q.heap)
        /\ SPart(g, c, A1)
        /\ \A x \in D : x # c /\ x \notin Range(A) => SameEntryS(g, q.heap, x)
    <3>1. c \in DOMAIN q.heap /\ c \notin Range(A)
      BY <1>2, <1>4, <1>5
    <3> QED BY <1>4, <1>5, <3>1, PushFrontS
  <2> HIDE DEF g
  <2>3. KeepsS(g, h)
    BY <1>4, <2>2 DEF KeepsS
  <2>4. SPart(g, q.more, B)
    <3>1. \A x \in D : x \in Range(B) => SameEntryS(g, q.heap, x)
      BY <1>2, <1>4, <2>2
    <3> QED BY <1>4, <1>5, <2>2, <3>1, PartFrameS DEF KeepsS
  <2>5. Range(A1) = Range(A) \cup {c} /\ Len(A1) = Len(A) + 1
    <3>1. IsAhead(D, c, A)
      BY <1>2, <1>5, AheadFacts
    <3> QED BY <1>2, <1>5, <3>1, RangeCons DEF IsAhead
  <2> HIDE DEF A1
  <2>6. \A x \in D : x \notin now => SameEntryS(g, h, x)
    BY <1>2, <1>4, <2>2 DEF SameEntryS
  <2>7. p.heap = g /\ p.less = c /\ p.more = q.more
        /\ p = [heap |-> p.heap, less |-> p.less, more |-> p.more]
    BY <2>1
  <2> HIDE DEF p
  <2>8. Range(A1) \cap Range(B) = {} /\ Range(A1) \cup Range(B) = now
    BY <1>2, <1>4, <2>5
  <2>9. \A x \in Range(A1) : Rank[h[x].data] < Rank[h[pivot].data]
    BY <1>3, <1>4, <1>6, <2>5
  <2>10. Len(A1) <= n /\ Len(B) <= n
    BY <1>2, <1>4, <1>5, <2>5
  <2>11. SplitS(h, pivot, rest, n, p, A1, B)
    BY <1>4, <2>2, <2>3, <2>4, <2>6, <2>7, <2>8, <2>9, <2>10 DEF SplitS, now
  <2> QED BY <2>11 DEF p, c, goes
<1>7. CASE ~goes
  <2> DEFINE g == Singly!SetNext(q.heap, c, q.more)
             B1 == Ahead(c, B)
  <2>1. p = [heap |-> g, less |-> q.less, more |-> c]
    <3>1. p = [q EXCEPT !.heap = g, !.more = c]
      BY <1>7 DEF Singly!SplitTurn
    <3> HIDE DEF g, p
    <3> QED BY <1>4, <3>1
  <2>2. /\ KeepsS(g, q.heap)
        /\ SPart(g, c, B1)
        /\ \A x \in D : x # c /\ x \notin Range(B) => SameEntryS(g, q.heap, x)
    <3>1. c \in DOMAIN q.heap /\ c \notin Range(B)
      BY <1>2, <1>4, <1>5
    <3> QED BY <1>4, <1>5, <3>1, PushFrontS
  <2> HIDE DEF g
  <2>3. KeepsS(g, h)
    BY <1>4, <2>2 DEF KeepsS
  <2>4. SPart(g, q.less, A)
    <3>1. \A x \in D : x \in Range(A) => SameEntryS(g, q.heap, x)
      BY <1>2, <1>4, <2>2
    <3> QED BY <1>4, <1>5, <2>2, <3>1, PartFrameS DEF KeepsS
  <2>5. Range(B1) = Range(B) \cup {c} /\ Len(B1) = Len(B) + 1
    <3>1. IsAhead(D, c, B)
      BY <1>2, <1>5, AheadFacts
    <3> QED BY <1>2, <1>5, <3>1, RangeCons DEF IsAhead
  <2> HIDE DEF B1
  <2>6. \A x \in D : x \notin now => SameEntryS(g, h, x)
    BY <1>2, <1>4, <2>2 DEF SameEntryS
  <2>7. p.heap = g /\ p.less = q.less /\ p.more = c
        /\ p = [heap |-> p.heap, less |-> p.less, more |-> p.more]
    BY <2>1
  <2> HIDE DEF p
  <2>8. Range(A) \cap Range(B1) = {} /\ Range(A) \cup Range(B1) = now
    BY <1>2, <1>4, <2>5
  <2>9. \A x \in Range(B1) : ~(Rank[h[x].data] < Rank[h[pivot].data])
    BY <1>3, <1>4, <1>7, <2>5
  <2>10. Len(A) <= n /\ Len(B1) <= n
    BY <1>2, <1>4, <1>5, <2>5
  <2>11. SplitS(h, pivot, rest, n, p, A, B1)
    BY <1>4, <2>2, <2>3, <2>4, <2>6, <2>7, <2>8, <2>9, <2>10 DEF SplitS, now
  <2> QED BY <2>11 DEF p, c, goes
<1> QED BY <1>6, <1>7

\* The recursive function of the loop that splits is one.
LEMMA SplitTurnsExistS ==
  ASSUME NEW h, NEW pivot, NEW rest, Len(rest) \in Nat
  PROVE  \E f : SplitTurnsS(h, pivot, rest, f)
<1> DEFINE N == Len(rest)
           m0 == [heap |-> h, less |-> NULL, more |-> NULL]
           Step(m, n) == Singly!SplitTurn(m, rest[n], Singly!GoesLess(h, rest[n], pivot))
           Till(k, f) == f = [n \in 0 .. k |-> IF n = 0 THEN m0 ELSE Step(f[n - 1], n)]
           Reached == {k \in 0 .. N : \E f : Till(k, f)}
<1>1. N \in Nat
  OBVIOUS
<1> HIDE DEF N, Step, m0
<1>2. 0 \in Reached
  <2>1. Till(0, [n \in 0 .. 0 |-> m0])
    OBVIOUS
  <2> HIDE DEF Till
  <2> QED BY <1>1, <2>1
<1>3. ASSUME NEW k \in 1 .. N, k - 1 \in Reached PROVE k \in Reached
  <2>1. PICK f : Till(k - 1, f)
    BY <1>3
  <2> DEFINE g == [n \in 0 .. k |-> IF n = k THEN Step(f[k - 1], k) ELSE f[n]]
  <2>2. \A n \in 0 .. k - 1 : f[n] = IF n = 0 THEN m0 ELSE Step(f[n - 1], n)
    BY <2>1
  <2>3. ASSUME NEW n \in 0 .. k PROVE g[n] = IF n = 0 THEN m0 ELSE Step(g[n - 1], n)
    <3>1. CASE n = k
      BY <1>1, <3>1
    <3>2. CASE n # k /\ n # 0
      <4>1. n \in 0 .. k - 1 /\ n - 1 \in 0 .. k /\ n - 1 # k
        BY <1>1, <3>2
      <4>2. g[n] = f[n] /\ g[n - 1] = f[n - 1]
        BY <3>2, <4>1
      <4> HIDE DEF g
      <4> QED BY <2>2, <3>2, <4>1, <4>2
    <3>3. CASE n = 0
      <4>1. n \in 0 .. k - 1 /\ n # k
        BY <1>1, <3>3
      <4> QED BY <2>2, <3>3, <4>1
    <3> QED BY <3>1, <3>2, <3>3
  <2>4. g = [n \in 0 .. k |-> IF n = 0 THEN m0 ELSE Step(g[n - 1], n)]
    <3>1. g = [n \in 0 .. k |-> g[n]]
      OBVIOUS
    <3> HIDE DEF g
    <3> QED BY <2>3, <3>1
  <2> HIDE DEF g
  <2>5. k \in 0 .. N
    BY <1>1
  <2> QED BY <2>4, <2>5
<1>4. N \in Reached
  <2>1. Reached \subseteq 0 .. N
    OBVIOUS
  <2> HIDE DEF Reached
  <2>2. Reached = 0 .. N
    BY <1>1, <1>2, <1>3, <2>1, UpTo
  <2> QED BY <1>1, <2>2
<1> QED BY <1>4 DEF SplitTurnsS, N, Step, m0

\* All turns of the loop that splits.
LEMMA SplitIsS ==
  ASSUME NEW h, SHeap(h), NEW pivot \in DOMAIN h,
         NEW rest \in Seq(DOMAIN h), \A i, j \in 1 .. Len(rest) : rest[i] = rest[j] => i = j
  PROVE  \E A, B : SplitS(h, pivot, rest, Len(rest), Singly!Split(h, pivot, rest), A, B)
<1> DEFINE N == Len(rest)
           g == CHOOSE f : SplitTurnsS(h, pivot, rest, f)
           Good == {n \in 0 .. N : \E A, B : SplitS(h, pivot, rest, n, g[n], A, B)}
<1>1. Singly!Split(h, pivot, rest) = g[N]
  BY DEF Singly!Split, SplitTurnsS
<1>2. N \in Nat
  BY SeqIs
<1>3. SplitTurnsS(h, pivot, rest, g)
  BY <1>2, SplitTurnsExistS
<1> HIDE DEF g, N
<1>4. /\ g[0] = [heap |-> h, less |-> NULL, more |-> NULL]
      /\ \A n \in 1 .. N :
           g[n] = Singly!SplitTurn(g[n - 1], rest[n], Singly!GoesLess(h, rest[n], pivot))
  <2>1. g = [n \in 0 .. N |->
               IF n = 0 THEN [heap |-> h, less |-> NULL, more |-> NULL]
               ELSE Singly!SplitTurn(g[n - 1], rest[n], Singly!GoesLess(h, rest[n], pivot))]
    BY <1>3 DEF SplitTurnsS, N
  <2>2. 0 \in 0 .. N /\ \A n \in 1 .. N : n \in 0 .. N /\ n # 0
    BY <1>2
  <2> QED BY <2>1, <2>2
<1>5. 0 \in Good
  <2>1. g[0].heap = h /\ g[0].less = NULL /\ g[0].more = NULL
        /\ g[0] = [heap |-> g[0].heap, less |-> g[0].less, more |-> g[0].more]
    BY <1>4
  <2>2. SPart(h, NULL, <<>>)
    BY EmptyChain DEF SPart
  <2>3. {rest[i] : i \in 1 .. 0} = {} /\ Range(<<>>) = {} /\ Len(<<>>) = 0
    BY DEF Range
  <2>4. KeepsS(h, h)
    BY DEF KeepsS
  <2>5. \A x \in DOMAIN h : SameEntryS(h, h, x)
    BY DEF SameEntryS
  <2>6. SplitS(h, pivot, rest, 0, g[0], <<>>, <<>>)
    <3> DEFINE e == <<>>
    <3>1. SPart(h, NULL, e) /\ Range(e) = {} /\ Len(e) = 0
      BY <2>2, <2>3
    <3> HIDE DEF e
    <3>2. SplitS(h, pivot, rest, 0, g[0], e, e)
      BY <2>1, <2>3, <2>4, <2>5, <3>1 DEF SplitS
    <3> QED BY <3>2 DEF e
  <2> QED BY <1>2, <2>6
<1>6. ASSUME NEW n \in 1 .. N, n - 1 \in Good PROVE n \in Good
  <2>1. PICK A, B : SplitS(h, pivot, rest, n - 1, g[n - 1], A, B)
    BY <1>6
  <2>2. n \in 1 .. Len(rest) /\ n \in 0 .. N
    BY <1>2 DEF N
  <2>3. \E A1, B1 : SplitS(h, pivot, rest, n,
          Singly!SplitTurn(g[n - 1], rest[n], Singly!GoesLess(h, rest[n], pivot)), A1, B1)
    BY <2>1, <2>2, SplitTurnKeepsS
  <2> QED BY <1>4, <2>2, <2>3
<1>7. N \in Good
  <2>1. Good \subseteq 0 .. N
    OBVIOUS
  <2> HIDE DEF Good
  <2>2. Good = 0 .. N
    BY <1>2, <1>5, <1>6, <2>1, UpTo
  <2> QED BY <1>2, <2>2
<1> QED BY <1>1, <1>7 DEF N

\* What a call of slist_sort_internal on the entries s promises.
SortsS(h, s, r) ==
  /\ KeepsS(r.heap, h)
  /\ \A x \in DOMAIN h : x \notin Range(s) => SameEntryS(r.heap, h, x)
  /\ \E t : /\ SPart(r.heap, r.list, t)
            /\ Range(t) = Range(s)
            /\ Ascends(h, t)
            /\ Len(t) # 0 => r.end = t[Len(t)]

\* A sublist of at most one entry is sorted.
LEMMA SortNoneS ==
  ASSUME NEW h, SHeap(h), NEW l, NEW s, SPart(h, l, s), Len(s) <= 1, NEW Inner
  PROVE  SortsS(h, s, Singly!SortCall(Inner, [list |-> l, heap |-> h]))
<1> DEFINE m == [list |-> l, heap |-> h]
           r == [list |-> l, end |-> l, heap |-> h]
<1>1. Chain(h, l, s)
  BY DEF SPart
<1>2. /\ s \in Seq(DOMAIN h) /\ Len(s) \in Nat
      /\ \A i \in 1 .. Len(s) : s[i] \in DOMAIN h
      /\ l = NULL <=> Len(s) = 0
      /\ l # NULL => l = s[1]
  BY <1>1, PartStart DEF SHeap
<1>3. l # NULL => h[l].next = NULL
  <2> DEFINE n == Len(s)
  <2>1. n \in Nat /\ n <= 1 /\ (l = NULL <=> n = 0)
    BY <1>2
  <2> HIDE DEF n
  <2>2. l # NULL => n = 1 /\ 1 \in 1 .. n
    BY <2>1
  <2> QED BY <1>1, <1>2, <2>2, ChainFacts DEF n
<1>4. Singly!SortCall(Inner, m) = r
  BY <1>3 DEF Singly!SortCall
<1>5. \A x \in DOMAIN h : SameEntryS(h, h, x)
  BY DEF SameEntryS
<1>6. KeepsS(h, h)
  BY DEF KeepsS
<1>7. Ascends(h, s)
  <2>1. ASSUME NEW i \in 1 .. Len(s), NEW j \in 1 .. Len(s), i <= j
        PROVE  Rank[h[s[i]].data] <= Rank[h[s[j]].data]
    <3>1. i = j
      BY <1>2, <2>1
    <3>2. h[s[i]].data \in Value
      BY <1>2, SFields
    <3>3. Rank[h[s[i]].data] \in Int
      BY <3>2, ListAssumption DEF Doubly!Parameters
    <3> QED BY <3>1, <3>3
  <2> QED BY <2>1 DEF Ascends
<1>8. Len(s) # 0 => l = s[Len(s)]
  BY <1>2
<1>9. r.heap = h /\ r.list = l /\ r.end = l
  OBVIOUS
<1> HIDE DEF r
<1>10. SortsS(h, s, r)
  BY <1>5, <1>6, <1>7, <1>8, <1>9 DEF SortsS
<1> QED BY <1>4, <1>10

\* What slist_sort_internal may assume of the calls of itself.
SortsShorterS(Inner, h, n) ==
  \A g, k, t : SHeap(g) /\ DOMAIN g = DOMAIN h /\ SPart(g, k, t) /\ Len(t) < n
                 => SortsS(g, t, Inner[[list |-> k, heap |-> g]])

\* A call keeps its promise when the shorter ones inside keep theirs.
LEMMA SortSomeS ==
  ASSUME NEW h, SHeap(h), IsFiniteSet(DOMAIN h), NEW l, NEW s, SPart(h, l, s),
         Len(s) > 1, NEW Inner, SortsShorterS(Inner, h, Len(s))
  PROVE  SortsS(h, s, Singly!SortCall(Inner, [list |-> l, heap |-> h]))
<1> DEFINE D == DOMAIN h
           m == [list |-> l, heap |-> h]
           rest == Tail(s)
           split == Singly!Split(h, l, rest)
           less == Inner[[list |-> split.less, heap |-> split.heap]]
           more == Inner[[list |-> split.more, heap |-> less.heap]]
           g == Singly!Join(more.heap, less, more, l)
           r == [list |-> IF less.list = NULL THEN l ELSE less.list,
                 end |-> IF more.list = NULL THEN l ELSE more.end,
                 heap |-> g]
           N == Len(s)
<1>1. Chain(h, l, s)
  BY DEF SPart
<1>2. /\ s \in Seq(D) /\ N \in Nat
      /\ \A i \in 1 .. N : s[i] \in D /\ s[i] \in Range(s)
      /\ l # NULL /\ l = s[1] /\ l \in D /\ l \in Range(s)
  BY <1>1, PartStart DEF SHeap
<1>3. /\ \A i, j \in 1 .. N : s[i] = s[j] => i = j
      /\ \A i \in 1 .. N : h[s[i]].next = IF i = N THEN NULL ELSE s[i + 1]
  BY <1>1, ChainFacts
<1>4. NULL \notin D
  BY NullOutside DEF SHeap
<1>5. h[l].next # NULL
  <2>0. N \in Nat /\ N > 1
    BY <1>2
  <2> HIDE DEF N
  <2>1. 1 \in 1 .. N /\ 2 \in 1 .. N /\ 1 # N /\ 1 + 1 = 2
    BY <2>0
  <2>2. h[s[1]].next = s[2] /\ s[2] \in D
    BY <1>2, <1>3, <2>1
  <2> QED BY <1>2, <1>4, <2>2
<1>6. Singly!Walk(h, l) = s
  BY <1>1, <1>4, WalkIs, SameWalk
<1>7. Singly!SortCall(Inner, m) = r
  <2>1. m.list = l /\ m.heap = h
    OBVIOUS
  <2> HIDE DEF m
  <2> QED BY <1>2, <1>5, <1>6, <2>1 DEF Singly!SortCall
<1>8. /\ rest \in Seq(D)
      /\ Len(rest) = N - 1
      /\ \A i \in 1 .. N - 1 : rest[i] = s[i + 1]
  <2>1. s # <<>>
    BY <1>2
  <2> QED BY <1>2, <2>1, HeadTailProperties
<1> HIDE DEF N, rest, m, D
<1>9. \A i, j \in 1 .. Len(rest) : rest[i] = rest[j] => i = j
  <2> SUFFICES ASSUME NEW i \in 1 .. Len(rest), NEW j \in 1 .. Len(rest), rest[i] = rest[j]
               PROVE  i = j
    OBVIOUS
  <2>1. N \in Nat /\ i \in 1 .. N - 1 /\ j \in 1 .. N - 1
    BY <1>2, <1>8
  <2>2. rest[i] = s[i + 1] /\ rest[j] = s[j + 1]
    BY <1>8, <2>1
  <2>3. i + 1 \in 1 .. N /\ j + 1 \in 1 .. N
    BY <2>1
  <2>4. i + 1 = j + 1
    BY <1>3, <2>2, <2>3
  <2> QED BY <2>1, <2>4
<1> DEFINE others == {rest[i] : i \in 1 .. Len(rest)}
<1>10. Range(s) = others \cup {l} /\ l \notin others
  <2>1. Range(s) = {s[i] : i \in 1 .. N}
    BY <1>2, RangeIs DEF N
  <2>2. others = {s[i] : i \in 2 .. N}
    <3>1. ASSUME NEW i \in 1 .. N - 1 PROVE i + 1 \in 2 .. N /\ rest[i] = s[i + 1]
      BY <1>2, <1>8
    <3>2. ASSUME NEW i \in 2 .. N PROVE i - 1 \in 1 .. N - 1 /\ rest[i - 1] = s[i]
      <4>1. i - 1 \in 1 .. N - 1 /\ (i - 1) + 1 = i
        BY <1>2
      <4> QED BY <1>8, <4>1
    <3>3. others = {rest[i] : i \in 1 .. N - 1}
      BY <1>8
    <3> HIDE DEF others
    <3> QED BY <3>1, <3>2, <3>3
  <2>3. 1 .. N = (2 .. N) \cup {1} /\ 1 \in 1 .. N
    BY <1>2 DEF N
  <2>4. \A i \in 2 .. N : s[i] # s[1]
    BY <1>2, <1>3, <2>3
  <2> HIDE DEF others
  <2> QED BY <1>2, <2>1, <2>2, <2>3, <2>4
<1>11. PICK A, B : SplitS(h, l, rest, Len(rest), split, A, B)
  <2>1. l \in DOMAIN h /\ rest \in Seq(DOMAIN h)
    BY <1>2, <1>8 DEF D
  <2> QED BY <1>9, <2>1, SplitIsS
<1> HIDE DEF split
<1>12. /\ KeepsS(split.heap, h)
       /\ SPart(split.heap, split.less, A) /\ SPart(split.heap, split.more, B)
       /\ Range(A) \cap Range(B) = {}
       /\ Range(A) \cup Range(B) = others
       /\ \A x \in D : x \notin others => SameEntryS(split.heap, h, x)
       /\ \A x \in Range(A) : Rank[h[x].data] < Rank[h[l].data]
       /\ \A x \in Range(B) : ~(Rank[h[x].data] < Rank[h[l].data])
       /\ Len(A) <= Len(rest) /\ Len(B) <= Len(rest)
  BY <1>11 DEF SplitS, D
<1> HIDE DEF others
<1>13. Len(A) < N /\ Len(B) < N
  <2>1. Len(A) \in Nat /\ Len(B) \in Nat
    BY <1>12, ChainFacts DEF SPart
  <2> QED BY <1>2, <1>8, <1>12, <2>1
<1>14. SortsS(split.heap, A, less)
  BY <1>12, <1>13 DEF SortsShorterS, KeepsS, N
<1> HIDE DEF less
<1>15. PICK t1 : /\ KeepsS(less.heap, split.heap)
                 /\ \A x \in DOMAIN split.heap : x \notin Range(A) =>
                      SameEntryS(less.heap, split.heap, x)
                 /\ SPart(less.heap, less.list, t1)
                 /\ Range(t1) = Range(A)
                 /\ Ascends(split.heap, t1)
                 /\ Len(t1) # 0 => less.end = t1[Len(t1)]
  BY <1>14 DEF SortsS
<1>16. DOMAIN split.heap = D /\ SHeap(split.heap) /\ DOMAIN less.heap = D /\ SHeap(less.heap)
  BY <1>12, <1>15 DEF KeepsS, D
<1>17. SPart(less.heap, split.more, B)
  <2>1. \A x \in DOMAIN split.heap : x \in Range(B) => SameEntryS(less.heap, split.heap, x)
    BY <1>12, <1>15
  <2> QED BY <1>12, <1>16, <2>1, PartFrameS
<1>18. SortsS(less.heap, B, more)
  BY <1>13, <1>16, <1>17 DEF SortsShorterS, N, D
<1> HIDE DEF more
<1>19. PICK t2 : /\ KeepsS(more.heap, less.heap)
                 /\ \A x \in DOMAIN less.heap : x \notin Range(B) =>
                      SameEntryS(more.heap, less.heap, x)
                 /\ SPart(more.heap, more.list, t2)
                 /\ Range(t2) = Range(B)
                 /\ Ascends(less.heap, t2)
                 /\ Len(t2) # 0 => more.end = t2[Len(t2)]
  BY <1>18 DEF SortsS
<1>20. DOMAIN more.heap = D /\ SHeap(more.heap)
  BY <1>16, <1>19 DEF KeepsS
<1>21. SPart(more.heap, less.list, t1)
  <2>1. \A x \in DOMAIN less.heap : x \in Range(t1) => SameEntryS(more.heap, less.heap, x)
    BY <1>12, <1>15, <1>19
  <2> QED BY <1>15, <1>16, <1>20, <2>1, PartFrameS
<1> DEFINE u == Glue(t1, Ahead(l, t2))
           k == IF less.list = NULL THEN l ELSE less.list
<1>22. /\ KeepsS(g, more.heap)
       /\ SPart(g, k, u)
       /\ \A x \in DOMAIN more.heap : x \notin Range(u) => SameEntryS(g, more.heap, x)
  <2>1. Range(t1) \cap Range(t2) = {} /\ l \notin Range(t1) \cup Range(t2)
    BY <1>10, <1>12, <1>15, <1>19
  <2>2. l \in DOMAIN more.heap
    BY <1>2, <1>20
  <2> QED BY <1>15, <1>19, <1>20, <1>21, <2>1, <2>2, JoinsS
<1> HIDE DEF g, k
<1>23. /\ t1 \in Seq(D) /\ t2 \in Seq(D) /\ Len(t2) \in Nat
       /\ more.list = NULL <=> Len(t2) = 0
  <2>1. Chain(more.heap, less.list, t1) /\ Chain(more.heap, more.list, t2)
    BY <1>19, <1>21 DEF SPart
  <2>2. D \subseteq Cell
    BY DEF SHeap, D
  <2> QED BY <1>20, <2>1, <2>2, PartStart
<1>24. IsAround(D, u, t1, l, t2)
  BY <1>2, <1>23, Around
<1>25. \A x \in D : /\ split.heap[x].data = h[x].data
                    /\ less.heap[x].data = h[x].data
                    /\ more.heap[x].data = h[x].data
  BY <1>12, <1>15, <1>16, <1>19 DEF KeepsS, D
<1>26. Ascends(h, u)
  <2>1. Ascends(h, t1)
    <3>1. \A i \in 1 .. Len(t1) : t1[i] \in D
      BY <1>23, SeqIs
    <3> QED BY <1>15, <1>25, <3>1 DEF Ascends
  <2>2. Ascends(h, t2)
    <3>1. \A i \in 1 .. Len(t2) : t2[i] \in D
      BY <1>23, SeqIs
    <3> QED BY <1>19, <1>25, <3>1 DEF Ascends
  <2>3. \A x \in D : h[x].data \in Value
    BY SFields DEF D
  <2>4. /\ \A x \in Range(t1) : Rank[h[x].data] < Rank[h[l].data]
        /\ \A x \in Range(t2) : ~(Rank[h[x].data] < Rank[h[l].data])
    BY <1>12, <1>15, <1>19
  <2> QED BY <1>2, <1>23, <2>1, <2>2, <2>3, <2>4, AroundAscends
<1> HIDE DEF u
<1>27. Range(u) = Range(s)
  BY <1>10, <1>12, <1>15, <1>19, <1>24 DEF IsAround
<1>28. r.heap = g /\ r.list = k /\ r.end = IF more.list = NULL THEN l ELSE more.end
  BY DEF k
<1> HIDE DEF r
<1>29. r.end = u[Len(u)]
  BY <1>19, <1>23, <1>24, <1>28 DEF IsAround
<1>30. \A x \in D : x \notin Range(s) => SameEntryS(g, h, x)
  <2> SUFFICES ASSUME NEW x \in D, x \notin Range(s) PROVE SameEntryS(g, h, x)
    OBVIOUS
  <2>1. SameEntryS(split.heap, h, x)
    BY <1>10, <1>12
  <2>2. SameEntryS(less.heap, split.heap, x)
    BY <1>10, <1>12, <1>15, <1>16
  <2>3. SameEntryS(more.heap, less.heap, x)
    BY <1>10, <1>12, <1>16, <1>19
  <2>4. SameEntryS(g, more.heap, x)
    BY <1>20, <1>22, <1>27
  <2> QED BY <2>1, <2>2, <2>3, <2>4 DEF SameEntryS
<1>31. KeepsS(g, h)
  BY <1>20, <1>22, <1>25 DEF KeepsS, D
<1>32. SortsS(h, s, r)
  BY <1>22, <1>26, <1>27, <1>28, <1>29, <1>30, <1>31 DEF SortsS, D
<1> QED BY <1>7, <1>32 DEF m

\* The nested calls of slist_sort_internal, innermost first.
MemoriesS(h) == [list : Singly!Pointer, heap : [DOMAIN h -> Singly!Entry]]
CallS(h, c) == [m \in MemoriesS(h) |-> Singly!SortCall(c, m)]
CallsS(h, f) ==
  f = [depth \in 0 .. Cardinality(DOMAIN h) |->
         CallS(h, IF depth = 0 THEN <<>> ELSE f[depth - 1])]

\* The recursive function of the nested calls is one.
LEMMA CallsExistS ==
  ASSUME NEW h, IsFiniteSet(DOMAIN h)
  PROVE  \E f : CallsS(h, f)
<1> DEFINE N == Cardinality(DOMAIN h)
           Give(f, n) == CallS(h, IF n = 0 THEN <<>> ELSE f[n - 1])
           Till(k, f) == f = [n \in 0 .. k |-> Give(f, n)]
           Reached == {k \in 0 .. N : \E f : Till(k, f)}
<1>1. N \in Nat
  BY FS_CardinalityType
<1> HIDE DEF N
<1>2. \A f, g, n : n = 0 \/ f[n - 1] = g[n - 1] => Give(f, n) = Give(g, n)
  OBVIOUS
<1>3. 0 \in Reached
  <2> DEFINE f == [n \in 0 .. 0 |-> CallS(h, <<>>)]
  <2>1. \A n \in 0 .. 0 : f[n] = Give(f, n)
    OBVIOUS
  <2> HIDE DEF Give
  <2>2. f = [n \in 0 .. 0 |-> f[n]]
    OBVIOUS
  <2> HIDE DEF f
  <2>3. Till(0, f)
    BY <2>1, <2>2
  <2> HIDE DEF Till
  <2> QED BY <1>1, <2>3
<1> HIDE DEF Give
<1>4. ASSUME NEW k \in 1 .. N, k - 1 \in Reached PROVE k \in Reached
  <2>1. PICK f : Till(k - 1, f)
    BY <1>4
  <2> DEFINE g == [n \in 0 .. k |-> IF n = k THEN Give(f, k) ELSE f[n]]
  <2>2. \A n \in 0 .. k - 1 : f[n] = Give(f, n)
    BY <2>1
  <2>3. ASSUME NEW n \in 0 .. k PROVE g[n] = Give(g, n)
    <3>1. n = 0 \/ f[n - 1] = g[n - 1]
      <4>1. CASE n # 0
        <5>1. n - 1 \in 0 .. k /\ n - 1 # k
          BY <1>1, <4>1
        <5> QED BY <5>1
      <4> QED BY <4>1
    <3>2. Give(f, n) = Give(g, n)
      BY <1>2, <3>1
    <3>3. g[n] = Give(f, n)
      <4>1. CASE n = k
        BY <4>1
      <4>2. CASE n # k
        <5>1. n \in 0 .. k - 1 /\ g[n] = f[n]
          BY <1>1, <4>2
        <5> QED BY <2>2, <5>1
      <4> QED BY <4>1, <4>2
    <3> QED BY <3>2, <3>3
  <2>4. g = [n \in 0 .. k |-> g[n]]
    OBVIOUS
  <2> HIDE DEF g
  <2>5. Till(k, g)
    BY <2>3, <2>4
  <2>6. k \in 0 .. N
    BY <1>1
  <2> HIDE DEF Till
  <2> QED BY <2>5, <2>6
<1>5. N \in Reached
  <2>1. Reached \subseteq 0 .. N
    OBVIOUS
  <2> HIDE DEF Reached
  <2>2. Reached = 0 .. N
    BY <1>1, <1>3, <1>4, <2>1, UpTo
  <2> QED BY <1>1, <2>2
<1> QED BY <1>5 DEF CallsS, N, Give

\* slist_sort_internal keeps its promise, by induction over the nesting.
LEMMA SortInternalS ==
  ASSUME NEW h, SHeap(h), IsFiniteSet(DOMAIN h), NEW l, NEW s, SPart(h, l, s)
  PROVE  SortsS(h, s, Singly!SortInternal(h, l))
<1> DEFINE N == Cardinality(DOMAIN h)
           call == CHOOSE f : CallsS(h, f)
           Good == {d \in 0 .. N : SortsShorterS(call[d], h, d + 2)}
<1>1. Singly!SortInternal(h, l) = call[N][[list |-> l, heap |-> h]]
  BY SameCardinality DEF Singly!SortInternal, CallsS, CallS, MemoriesS
<1>2. N \in Nat
  BY FS_CardinalityType
<1>3. CallsS(h, call)
  BY CallsExistS
<1> HIDE DEF call
<1>4. \A d \in 0 .. N : call[d] = CallS(h, IF d = 0 THEN <<>> ELSE call[d - 1])
  BY <1>3 DEF CallsS
<1> HIDE DEF N
<1>5. ASSUME NEW g, NEW k, NEW t, SHeap(g), DOMAIN g = DOMAIN h, SPart(g, k, t), NEW c
      PROVE  CallS(h, c)[[list |-> k, heap |-> g]]
               = Singly!SortCall(c, [list |-> k, heap |-> g])
  <2>1. k \in Singly!Pointer
    BY <1>5, PartStart DEF SPart, SHeap
  <2>2. g \in [DOMAIN h -> Singly!Entry]
    BY <1>5 DEF SHeap
  <2>3. [list |-> k, heap |-> g] \in MemoriesS(h)
    BY <2>1, <2>2 DEF MemoriesS
  <2> QED BY <2>3 DEF CallS
<1>6. \A g, k, t : SPart(g, k, t) => Len(t) \in Nat
  BY ChainFacts DEF SPart
<1>7. 0 \in Good
  <2>1. ASSUME NEW g, NEW k, NEW t, SHeap(g), DOMAIN g = DOMAIN h, SPart(g, k, t), Len(t) < 2
        PROVE  SortsS(g, t, call[0][[list |-> k, heap |-> g]])
    <3>1. call[0] = CallS(h, <<>>)
      BY <1>2, <1>4
    <3>2. Len(t) <= 1
      <4>1. Len(t) \in Nat
        BY <1>6, <2>1
      <4> QED BY <2>1, <4>1
    <3> DEFINE e == <<>>
    <3>3. call[0] = CallS(h, e)
      BY <3>1
    <3> HIDE DEF e
    <3>4. call[0][[list |-> k, heap |-> g]] = Singly!SortCall(e, [list |-> k, heap |-> g])
      BY <1>5, <2>1, <3>3
    <3>5. SortsS(g, t, Singly!SortCall(e, [list |-> k, heap |-> g]))
      BY <2>1, <3>2, SortNoneS
    <3> QED BY <3>4, <3>5
  <2>2. SortsShorterS(call[0], h, 2)
    BY <2>1 DEF SortsShorterS
  <2> QED BY <1>2, <2>2
<1>8. ASSUME NEW d \in 1 .. N, d - 1 \in Good PROVE d \in Good
  <2>1. d \in 0 .. N /\ d # 0 /\ d - 1 \in Nat /\ (d - 1) + 2 = d + 1
    BY <1>2
  <2>2. SortsShorterS(call[d - 1], h, d + 1)
    BY <1>8, <2>1
  <2>3. call[d] = CallS(h, call[d - 1])
    BY <1>4, <2>1
  <2>4. ASSUME NEW g, NEW k, NEW t, SHeap(g), DOMAIN g = DOMAIN h, SPart(g, k, t),
               Len(t) < d + 2
        PROVE  SortsS(g, t, call[d][[list |-> k, heap |-> g]])
    <3> DEFINE c == call[d - 1]
               n == Len(t)
    <3>1. call[d][[list |-> k, heap |-> g]] = Singly!SortCall(c, [list |-> k, heap |-> g])
      BY <1>5, <2>3, <2>4
    <3>2. n \in Nat
      BY <1>6, <2>4
    <3>3. CASE n <= 1
      BY <2>4, <3>1, <3>3, SortNoneS
    <3>4. CASE n > 1
      <4>1. \A i \in Nat : i < n => i < d + 1
        <5>1. n < d + 2
          BY <2>4
        <5> HIDE DEF n
        <5> QED BY <2>1, <3>2, <5>1
      <4>2. SortsShorterS(c, g, n)
        BY <1>6, <2>2, <2>4, <4>1 DEF SortsShorterS
      <4>3. IsFiniteSet(DOMAIN g)
        BY <2>4
      <4> QED BY <2>4, <3>1, <3>4, <4>2, <4>3, SortSomeS
    <3> QED
      <4> HIDE DEF n
      <4> QED BY <3>2, <3>3, <3>4
  <2>5. SortsShorterS(call[d], h, d + 2)
    BY <2>4 DEF SortsShorterS
  <2> QED BY <2>1, <2>5
<1>9. SortsShorterS(call[N], h, N + 2)
  <2>1. Good \subseteq 0 .. N
    OBVIOUS
  <2>2. Good = 0 .. N
    <3> HIDE DEF Good
    <3> QED BY <1>2, <1>7, <1>8, <2>1, UpTo
  <2>3. N \in Good
    BY <1>2, <2>2
  <2> QED BY <2>3
<1>10. Len(s) < N + 2
  <2>1. Len(s) \in 0 .. N
    BY ChainLength DEF SPart, N
  <2> QED BY <1>2, <2>1
<1>11. SortsS(h, s, call[N][[list |-> l, heap |-> h]])
  BY <1>9, <1>10 DEF SortsShorterS
<1> QED BY <1>1, <1>11 DEF N

\* slist_sort.
SortedS(h, s, r, t) ==
  /\ SOK(r.list, r.heap, t)
  /\ DOMAIN r.heap = DOMAIN h
  /\ Sequences!Permutes(Vals(r.heap, t), Vals(h, s))
  /\ Sequences!Ascending(Vals(r.heap, t))

\* slist_sort leaves the same values in ascending order.
LEMMA SortS ==
  ASSUME NEW l, NEW h, NEW s, SOK(l, h, s)
  PROVE  \E t : SortedS(h, s, Singly!SortInternal(h, l), t)
<1> DEFINE r == Singly!SortInternal(h, l)
<1>1. SHeap(h) /\ Chain(h, l, s) /\ Range(s) = DOMAIN h
  BY DEF SOK
<1>2. IsFiniteSet(DOMAIN h)
  BY <1>1, OrderIs DEF SHeap
<1>3. SortsS(h, s, r)
  BY <1>1, <1>2, SortInternalS DEF SPart
<1> HIDE DEF r
<1>4. PICK t : /\ SPart(r.heap, r.list, t)
               /\ Range(t) = Range(s)
               /\ Ascends(h, t)
  BY <1>3 DEF SortsS
<1>5. /\ SHeap(r.heap) /\ DOMAIN r.heap = DOMAIN h
      /\ \A x \in DOMAIN h : h[x].data \in Value /\ r.heap[x].data = h[x].data
  BY <1>1, <1>3, SFields DEF SortsS, KeepsS
<1>6. Chain(r.heap, r.list, t)
  BY <1>4 DEF SPart
<1>7. SOK(r.list, r.heap, t)
  BY <1>1, <1>4, <1>5, <1>6 DEF SOK
<1>8. Sequences!Permutes(Vals(r.heap, t), Vals(h, s))
  BY <1>1, <1>4, <1>5, <1>6, SamePermutes
<1>9. Sequences!Ascending(Vals(r.heap, t))
  <2>1. Ascends(r.heap, t)
    <3>1. \A i \in 1 .. Len(t) : t[i] \in DOMAIN r.heap
      BY <1>6, ChainFacts
    <3> QED BY <1>4, <1>5, <3>1 DEF Ascends
  <2>2. \A x \in DOMAIN r.heap : r.heap[x].data \in Value
    BY <1>5
  <2> QED BY <1>6, <2>1, <2>2, AscendsTo
<1> QED BY <1>5, <1>7, <1>8, <1>9 DEF r, SortedS

\* What a call may do to the sequence of values w of a linked list.
Does(w, u) ==
  \/ u = w /\ returned' \in {0, returned}
  \/ \E v \in Value : u = <<v>> \o w /\ returned' = 1
  \/ \E v \in Value : u = Append(w, v) /\ returned' = 1
  \/ \E v \in Value : /\ u = Sequences!Others(w, v)
                      /\ returned' = Len(Sequences!Matching(w, v))
  \/ \E i \in DOMAIN w : u = RemoveAt(w, i) /\ returned' \in {1, returned}
  \/ Sequences!Permutes(u, w) /\ Sequences!Ascending(u) /\ returned' = returned
  \/ u = <<>> /\ returned' = returned

\* The iterators, and the links they may point into.
IterD == [active : BOOLEAN, prev_next : Doubly!Pointer \cup {ROOT},
          current : Doubly!Pointer, returned : SUBSET Cell, dropped : BOOLEAN]
IterS == [active : BOOLEAN, prev_next : Singly!Pointer \cup {ROOT},
          current : Singly!Pointer, returned : SUBSET Cell]
Anchored == iter.active => iter.prev_next \in {ROOT} \cup DOMAIN heap

\* The place of an iterator's link in the order s.
Position(s, k) ==
  /\ k \in 1 .. Len(s) + 1
  /\ iter.prev_next = IF k = 1 THEN ROOT ELSE s[k - 1]
  /\ Doubly!Link(iter.prev_next) = NthOf(s, k)
  /\ Singly!Link(Singly!Memory, iter.prev_next) = NthOf(s, k)

\* An active iterator's link has a place in the order.
LEMMA PositionExists ==
  ASSUME NEW s, Chain(heap, list, s), Range(s) = DOMAIN heap, DOMAIN heap \subseteq Cell,
         iter.active, Anchored
  PROVE  \E k \in 1 .. Len(s) + 1 : Position(s, k)
<1>1. /\ Len(s) \in Nat
      /\ list = NthOf(s, 1)
      /\ \A i \in 1 .. Len(s) : heap[s[i]].next = NthOf(s, i + 1)
      /\ s \in Seq(DOMAIN heap)
  BY ChainFacts DEF Chain
<1>2. Singly!Memory.list = list /\ Singly!Memory.heap = heap
  BY DEF Singly!Memory
<1>3. CASE iter.prev_next = ROOT
  <2>1. Position(s, 1)
    BY <1>1, <1>2, <1>3 DEF Position, Doubly!Link, Singly!Link
  <2> QED BY <1>1, <2>1
<1>4. CASE iter.prev_next \in DOMAIN heap
  <2>0. s \in Seq(DOMAIN heap) /\ iter.prev_next \in Range(s)
    BY <1>1, <1>4
  <2>1. PICK i \in 1 .. Len(s) : iter.prev_next = s[i]
    BY <2>0, RangeIs
  <2>2. i + 1 \in 1 .. Len(s) + 1 /\ i + 1 # 1 /\ (i + 1) - 1 = i
    BY <1>1
  <2>3. iter.prev_next # ROOT
    BY <1>4, NullOutside
  <2>4. Position(s, i + 1)
    BY <1>1, <1>2, <2>1, <2>2, <2>3 DEF Position, Doubly!Link, Singly!Link
  <2> QED BY <2>2, <2>4
<1> QED BY <1>3, <1>4 DEF Anchored

\* The test for the current entry and the upcoming entry, by that place.
LEMMA AtCurrentIs ==
  ASSUME NEW s, Chain(heap, list, s), DOMAIN heap \subseteq Cell, NEW k, Position(s, k)
  PROVE  /\ Doubly!AtCurrent <=> k <= Len(s) /\ iter.current = s[k]
         /\ Singly!AtCurrent <=> k <= Len(s) /\ iter.current = s[k]
         /\ Doubly!Upcoming = NthOf(s, IF Doubly!AtCurrent THEN k + 1 ELSE k)
         /\ Singly!Upcoming = NthOf(s, IF Singly!AtCurrent THEN k + 1 ELSE k)
<1>1. /\ Len(s) \in Nat
      /\ \A i \in 1 .. Len(s) : /\ s[i] \in DOMAIN heap
                                /\ heap[s[i]].next = NthOf(s, i + 1)
  BY ChainFacts DEF Chain
<1>2. NULL \notin DOMAIN heap
  BY NullOutside
<1>3. k \in 1 .. Len(s) + 1
  BY DEF Position
<1>4. CASE k <= Len(s)
  <2>1. k \in 1 .. Len(s) /\ NthOf(s, k) = s[k] /\ s[k] # NULL
    BY <1>1, <1>2, <1>3, <1>4 DEF NthOf
  <2>2. /\ Doubly!AtCurrent <=> iter.current = s[k]
        /\ Singly!AtCurrent <=> iter.current = s[k]
    BY <2>1 DEF Doubly!AtCurrent, Singly!AtCurrent, Position
  <2> QED BY <1>1, <1>4, <2>1, <2>2 DEF Doubly!Upcoming, Singly!Upcoming, Position
<1>5. CASE ~(k <= Len(s))
  <2>1. NthOf(s, k) = NULL
    BY <1>1, <1>3, <1>5 DEF NthOf
  <2>2. ~Doubly!AtCurrent /\ ~Singly!AtCurrent
    BY <2>1 DEF Doubly!AtCurrent, Singly!AtCurrent, Position
  <2> QED BY <1>5, <2>2 DEF Doubly!Upcoming, Singly!Upcoming, Position
<1> QED BY <1>4, <1>5

\* What follows a place is an entry or NULL.
LEMMA UpcomingTyped ==
  ASSUME NEW s, Chain(heap, list, s), DOMAIN heap \subseteq Cell, NEW k
  PROVE  NthOf(s, k) \in Doubly!Pointer /\ NthOf(s, k) \in Singly!Pointer
<1>1. \A i \in 1 .. Len(s) : s[i] \in DOMAIN heap
  BY ChainFacts
<1> QED BY <1>1 DEF NthOf, Doubly!Pointer, Singly!Pointer

\* A call that touches no link.
LEMMA Unchanging ==
  ASSUME NEW s, UNCHANGED <<list, heap>>, returned' \in {0, returned}
  PROVE  /\ DOK(list, heap, s) => DOK(list', heap', s)
         /\ SOK(list, heap, s) => SOK(list', heap', s)
         /\ Does(Vals(heap, s), Vals(heap', s))
BY DEF Does

\* No iterator is an iterator that is not active.
LEMMA NoIteratorTyped ==
  /\ Doubly!NoIterator \in IterD /\ ~Doubly!NoIterator.active
  /\ Singly!NoIterator \in IterS /\ ~Singly!NoIterator.active
<1>1. NULL \in Doubly!Pointer /\ NULL \in Singly!Pointer
  BY DEF Doubly!Pointer, Singly!Pointer
<1> QED BY <1>1 DEF Doubly!NoIterator, Singly!NoIterator, IterD, IterS

\* Every step of either list keeps its shape, and is a step on its values.
MovesD(s) == /\ returned' \in Nat /\ iter' \in IterD /\ Anchored'
             /\ \E t : DOK(list', heap', t) /\ Does(Vals(heap, s), Vals(heap', t))

\* Taking one value out is one of the things a call may do.
LEMMA RemovalDoes ==
  ASSUME NEW h, NEW p, NEW s, Chain(h, p, s), NEW k \in 1 .. Len(s), NEW u,
         u = RemoveAt(Vals(h, s), k), returned' \in {1, returned}
  PROVE  Does(Vals(h, s), u)
<1>1. k \in DOMAIN Vals(h, s)
  BY DEF Vals
<1> QED BY <1>1 DEF Does

\* So is taking all of them out.
LEMMA EmptyDoes ==
  ASSUME NEW w, NEW g, returned' = returned
  PROVE  Does(w, Vals(g, <<>>))
<1>1. Vals(g, <<>>) = <<>>
  BY DEF Vals
<1> QED BY <1>1 DEF Does

\* The iterator's link stays allocated when another entry is freed.
LEMMA AnchorStays ==
  ASSUME Anchored, NEW s, \A i, j \in 1 .. Len(s) : s[i] = s[j] => i = j,
         NEW k \in 1 .. Len(s), Unlinked(heap', heap, s, k),
         iter'.active = iter.active, iter'.prev_next = iter.prev_next,
         iter.active => iter.prev_next # s[k]
  PROVE  Anchored'
BY DEF Anchored, Unlinked

\* Every step of the doubly linked list, one call after the other.
LEMMA DoublyMoves ==
  ASSUME NEW s, DOK(list, heap, s), iter \in IterD, Anchored, returned \in Nat, Doubly!Next
  PROVE  MovesD(s)
<1>0. DHeap(heap) /\ Chain(heap, list, s) /\ Range(s) = DOMAIN heap
      /\ DOMAIN heap \subseteq Cell
  BY DEF DOK, DHeap
<1>1. ASSUME NEW c \in Cell, NEW v \in Value, Doubly!Prepend(c, v) PROVE MovesD(s)
  <2>1. iter' = Doubly!NoIterator /\ returned' = 1
    BY <1>1 DEF Doubly!Prepend
  <2>2. iter' \in IterD /\ Anchored'
    BY <2>1, NoIteratorTyped DEF Anchored
  <2>3. DOK(list', heap', Ahead(c, s))
        /\ Vals(heap', Ahead(c, s)) = <<v>> \o Vals(heap, s)
    BY <1>1, PrependD
  <2>4. Does(Vals(heap, s), Vals(heap', Ahead(c, s)))
    BY <2>1, <2>3 DEF Does
  <2> QED BY <2>1, <2>2, <2>3, <2>4 DEF MovesD
<1>2. ASSUME NEW c \in Cell, NEW v \in Value, Doubly!AppendEntry(c, v) PROVE MovesD(s)
  <2>1. iter' = iter /\ returned' = 1
    BY <1>2 DEF Doubly!AppendEntry
  <2> DEFINE t == Glue(s, <<c>>)
  <2>2. /\ DOK(list', heap', t)
        /\ Vals(heap', t) = Append(Vals(heap, s), v)
        /\ DOMAIN heap' = DOMAIN heap \cup {c}
    BY <1>2, AppendD
  <2> HIDE DEF t
  <2>3. Does(Vals(heap, s), Vals(heap', t))
    BY <2>1, <2>2 DEF Does
  <2>4. iter' \in IterD /\ Anchored'
    BY <2>1, <2>2 DEF Anchored
  <2> QED BY <2>1, <2>2, <2>3, <2>4 DEF MovesD
<1>3. CASE UNCHANGED <<list, heap, iter>> /\ returned' = 0
  BY <1>3, Unchanging DEF MovesD, Anchored
<1>4. ASSUME NEW c \in Cell, Doubly!RemoveEntry(c) PROVE MovesD(s)
  <2>1. /\ c \in DOMAIN heap /\ returned' = 1
        /\ iter.active => c # iter.prev_next
        /\ iter' = [iter EXCEPT !.returned = @ \ {c},
                                !.dropped = @ \/ c = iter.current]
    BY <1>4 DEF Doubly!RemoveEntry
  <2>2. PICK k \in 1 .. Len(s) : c = s[k]
    BY <2>1, DAt
  <2>3. /\ DOK(list', heap', Cut(s, k))
        /\ Vals(heap', Cut(s, k)) = RemoveAt(Vals(heap, s), k)
        /\ Unlinked(heap', heap, s, k)
    BY <1>4, <2>2, RemoveEntryD
  <2>4. Does(Vals(heap, s), Vals(heap', Cut(s, k)))
    BY <1>0, <2>1, <2>3, RemovalDoes
  <2>5. /\ iter' \in IterD
        /\ iter'.active = iter.active /\ iter'.prev_next = iter.prev_next
    BY <2>1 DEF IterD
  <2>6. Anchored'
    BY <2>1, <2>2, <2>3, <2>5, AnchorStays, DCore
  <2> QED BY <2>1, <2>3, <2>4, <2>5, <2>6 DEF MovesD
<1>5. ASSUME NEW d \in Value, Doubly!RemoveData(d) PROVE MovesD(s)
  <2>1. iter' = Doubly!NoIterator
    BY <1>5 DEF Doubly!RemoveData
  <2>2. iter' \in IterD /\ Anchored'
    BY <2>1, NoIteratorTyped DEF Anchored
  <2>3. PICK K : /\ DOK(list', heap', K)
                 /\ Vals(heap', K) = Sequences!Others(Vals(heap, s), d)
    BY <1>5, RemoveDataD
  <2>4. /\ returned' = Len(Sequences!Matching(Vals(heap, s), d))
        /\ returned' \in Nat
    BY <1>5, RemoveDataD
  <2>5. Does(Vals(heap, s), Vals(heap', K))
    BY <2>3, <2>4 DEF Does
  <2> QED BY <2>2, <2>3, <2>4, <2>5 DEF MovesD
<1>6. CASE Doubly!Sort
  <2> DEFINE r == Doubly!SortInternal(heap, list)
  <2>1. iter' = Doubly!NoIterator /\ returned' = returned /\ list' = r.list /\ heap' = r.heap
    BY <1>6 DEF Doubly!Sort
  <2>2. iter' \in IterD /\ Anchored'
    BY <2>1, NoIteratorTyped DEF Anchored
  <2>3. PICK t : SortedD(heap, s, r, t)
    BY SortD
  <2> HIDE DEF r
  <2>4. DOK(list', heap', t) /\ Does(Vals(heap, s), Vals(heap', t))
    BY <2>1, <2>3 DEF SortedD, Does
  <2> QED BY <2>1, <2>2, <2>4 DEF MovesD
<1>7. CASE Doubly!Iterate
  <2>1. UNCHANGED <<list, heap, returned>>
        /\ iter' = [Doubly!NoIterator EXCEPT !.active = TRUE, !.prev_next = ROOT]
    BY <1>7 DEF Doubly!Iterate
  <2>2. iter' \in IterD /\ iter'.prev_next = ROOT
    BY <2>1, NoIteratorTyped DEF IterD
  <2>3. Anchored'
    BY <2>2 DEF Anchored
  <2>4. returned' \in {0, returned}
    BY <2>1
  <2> QED BY <2>1, <2>2, <2>3, <2>4, Unchanging DEF MovesD
<1>8. CASE Doubly!IterNext
  <2>1. UNCHANGED <<list, heap, returned>> /\ iter.active
        /\ iter' = [iter EXCEPT !.prev_next = Doubly!StepLink, !.current = Doubly!Upcoming,
                          !.returned = @ \cup ({Doubly!Upcoming} \ {NULL}),
                          !.dropped = FALSE]
    BY <1>8 DEF Doubly!IterNext
  <2>2. PICK k \in 1 .. Len(s) + 1 : Position(s, k)
    BY <1>0, <2>1, PositionExists
  <2>3. Doubly!Upcoming \in Doubly!Pointer
    BY <1>0, <2>2, AtCurrentIs, UpcomingTyped
  <2>4. Doubly!StepLink \in {ROOT} \cup DOMAIN heap
    <3>1. CASE Doubly!AtCurrent
      <4>1. k \in 1 .. Len(s) /\ iter.current = s[k]
        BY <1>0, <2>2, <3>1, AtCurrentIs
      <4>2. s[k] \in DOMAIN heap
        BY <4>1, DCore
      <4> QED BY <3>1, <4>1, <4>2 DEF Doubly!StepLink
    <3>2. CASE ~Doubly!AtCurrent
      BY <2>1, <3>2 DEF Doubly!StepLink, Anchored
    <3> QED BY <3>1, <3>2
  <2>5. Doubly!StepLink \in Doubly!Pointer \cup {ROOT}
    BY <1>0, <2>4 DEF Doubly!Pointer
  <2>6. iter' \in IterD /\ iter'.prev_next = Doubly!StepLink
    BY <2>1, <2>3, <2>5 DEF IterD, Doubly!Pointer
  <2>7. Anchored'
    BY <2>1, <2>4, <2>6 DEF Anchored
  <2>8. returned' \in {0, returned}
    BY <2>1
  <2> QED BY <2>1, <2>6, <2>7, <2>8, Unchanging DEF MovesD
<1>9. CASE Doubly!IterRemove
  <2>1. /\ iter.active /\ Doubly!AtCurrent /\ returned' = returned
        /\ iter' = [iter EXCEPT !.current = NULL, !.returned = @ \ {iter.current}]
    BY <1>9 DEF Doubly!IterRemove
  <2>2. PICK k \in 1 .. Len(s) + 1 : Position(s, k)
    BY <1>0, <2>1, PositionExists
  <2>3. k \in 1 .. Len(s) /\ iter.current = s[k]
    BY <1>0, <2>1, <2>2, AtCurrentIs
  <2>4. iter.prev_next = IF k = 1 THEN ROOT ELSE s[k - 1]
    BY <2>2 DEF Position
  <2>5. /\ DOK(list', heap', Cut(s, k))
        /\ Vals(heap', Cut(s, k)) = RemoveAt(Vals(heap, s), k)
        /\ Unlinked(heap', heap, s, k)
    BY <1>9, <2>3, <2>4, IterRemoveD
  <2>6. Does(Vals(heap, s), Vals(heap', Cut(s, k)))
    BY <1>0, <2>1, <2>3, <2>5, RemovalDoes
  <2>7. /\ iter' \in IterD
        /\ iter'.active = iter.active /\ iter'.prev_next = iter.prev_next
    BY <2>1 DEF IterD, Doubly!Pointer
  <2>8. iter.prev_next # s[k]
    <3>1. CASE k = 1
      BY <1>0, <2>3, <2>4, <3>1, DCore, NullOutside
    <3>2. CASE k # 1
      <4>1. k - 1 \in 1 .. Len(s) /\ k - 1 # k
        BY <2>3, <3>2, DCore
      <4> QED BY <2>3, <2>4, <3>2, <4>1, DCore
    <3> QED BY <3>1, <3>2
  <2>9. Anchored'
    BY <2>3, <2>5, <2>7, <2>8, AnchorStays, DCore
  <2> QED BY <2>1, <2>5, <2>6, <2>7, <2>9 DEF MovesD
<1>10. CASE Doubly!Free
  <2>1. iter' = Doubly!NoIterator /\ returned' = returned
    BY <1>10 DEF Doubly!Free
  <2>2. iter' \in IterD /\ Anchored'
    BY <2>1, NoIteratorTyped DEF Anchored
  <2>3. DOK(list', heap', <<>>)
    BY <1>10, FreeD
  <2>4. Does(Vals(heap, s), Vals(heap', <<>>))
    BY <2>1, EmptyDoes
  <2> QED BY <2>1, <2>2, <2>3, <2>4 DEF MovesD
<1> QED BY <1>1, <1>2, <1>3, <1>4, <1>5, <1>6, <1>7, <1>8, <1>9, <1>10
        DEF Doubly!Next, Doubly!InsertFails, Doubly!RemoveNothing

MovesS(s) == /\ returned' \in Nat /\ iter' \in IterS /\ Anchored'
             /\ \E t : SOK(list', heap', t) /\ Does(Vals(heap, s), Vals(heap', t))

\* Every step of the singly linked list, one call after the other.
LEMMA SinglyMoves ==
  ASSUME NEW s, SOK(list, heap, s), iter \in IterS, Anchored, returned \in Nat, Singly!Next
  PROVE  MovesS(s)
<1>0. SHeap(heap) /\ Chain(heap, list, s) /\ Range(s) = DOMAIN heap
      /\ DOMAIN heap \subseteq Cell
  BY DEF SOK, SHeap
<1>1. ASSUME NEW c \in Cell, NEW v \in Value, Singly!Prepend(c, v) PROVE MovesS(s)
  <2>1. iter' = Singly!NoIterator /\ returned' = 1
    BY <1>1 DEF Singly!Prepend
  <2>2. iter' \in IterS /\ Anchored'
    BY <2>1, NoIteratorTyped DEF Anchored
  <2>3. SOK(list', heap', Ahead(c, s))
        /\ Vals(heap', Ahead(c, s)) = <<v>> \o Vals(heap, s)
    BY <1>1, PrependS
  <2>4. Does(Vals(heap, s), Vals(heap', Ahead(c, s)))
    BY <2>1, <2>3 DEF Does
  <2> QED BY <2>1, <2>2, <2>3, <2>4 DEF MovesS
<1>2. ASSUME NEW c \in Cell, NEW v \in Value, Singly!AppendEntry(c, v) PROVE MovesS(s)
  <2>1. iter' = iter /\ returned' = 1
    BY <1>2 DEF Singly!AppendEntry
  <2> DEFINE t == Glue(s, <<c>>)
  <2>2. /\ SOK(list', heap', t)
        /\ Vals(heap', t) = Append(Vals(heap, s), v)
        /\ DOMAIN heap' = DOMAIN heap \cup {c}
    BY <1>2, AppendS
  <2> HIDE DEF t
  <2>3. Does(Vals(heap, s), Vals(heap', t))
    BY <2>1, <2>2 DEF Does
  <2>4. iter' \in IterS /\ Anchored'
    BY <2>1, <2>2 DEF Anchored
  <2> QED BY <2>1, <2>2, <2>3, <2>4 DEF MovesS
<1>3. CASE UNCHANGED <<list, heap, iter>> /\ returned' = 0
  BY <1>3, Unchanging DEF MovesS, Anchored
<1>4. ASSUME NEW c \in Cell, Singly!RemoveEntry(c) PROVE MovesS(s)
  <2>1. /\ c \in DOMAIN heap /\ returned' = 1
        /\ iter.active => c # iter.prev_next
        /\ iter' = [iter EXCEPT !.returned = @ \ {c}]
    BY <1>4 DEF Singly!RemoveEntry
  <2>2. PICK k \in 1 .. Len(s) : c = s[k]
    BY <2>1, SAt
  <2>3. /\ SOK(list', heap', Cut(s, k))
        /\ Vals(heap', Cut(s, k)) = RemoveAt(Vals(heap, s), k)
        /\ Unlinked(heap', heap, s, k)
    BY <1>4, <2>2, RemoveEntryS
  <2>4. Does(Vals(heap, s), Vals(heap', Cut(s, k)))
    BY <1>0, <2>1, <2>3, RemovalDoes
  <2>5. /\ iter' \in IterS
        /\ iter'.active = iter.active /\ iter'.prev_next = iter.prev_next
    BY <2>1 DEF IterS
  <2>6. Anchored'
    <3>1. \A i, j \in 1 .. Len(s) : s[i] = s[j] => i = j
      BY SCore
    <3> QED BY <2>1, <2>2, <2>3, <2>5, <3>1, AnchorStays
  <2> QED BY <2>1, <2>3, <2>4, <2>5, <2>6 DEF MovesS
<1>5. ASSUME NEW d \in Value, Singly!RemoveData(d) PROVE MovesS(s)
  <2>1. iter' = Singly!NoIterator
    BY <1>5 DEF Singly!RemoveData
  <2>2. iter' \in IterS /\ Anchored'
    BY <2>1, NoIteratorTyped DEF Anchored
  <2>3. PICK K : /\ SOK(list', heap', K)
                 /\ Vals(heap', K) = Sequences!Others(Vals(heap, s), d)
    BY <1>5, RemoveDataS
  <2>4. /\ returned' = Len(Sequences!Matching(Vals(heap, s), d))
        /\ returned' \in Nat
    BY <1>5, RemoveDataS
  <2>5. Does(Vals(heap, s), Vals(heap', K))
    BY <2>3, <2>4 DEF Does
  <2> QED BY <2>2, <2>3, <2>4, <2>5 DEF MovesS
<1>6. CASE Singly!Sort
  <2> DEFINE r == Singly!SortInternal(heap, list)
  <2>1. iter' = Singly!NoIterator /\ returned' = returned /\ list' = r.list /\ heap' = r.heap
    BY <1>6 DEF Singly!Sort
  <2>2. iter' \in IterS /\ Anchored'
    BY <2>1, NoIteratorTyped DEF Anchored
  <2>3. PICK t : SortedS(heap, s, r, t)
    BY SortS
  <2> HIDE DEF r
  <2>4. SOK(list', heap', t) /\ Does(Vals(heap, s), Vals(heap', t))
    BY <2>1, <2>3 DEF SortedS, Does
  <2> QED BY <2>1, <2>2, <2>4 DEF MovesS
<1>7. CASE Singly!Iterate
  <2>1. UNCHANGED <<list, heap, returned>>
        /\ iter' = [Singly!NoIterator EXCEPT !.active = TRUE, !.prev_next = ROOT]
    BY <1>7 DEF Singly!Iterate
  <2>2. iter' \in IterS /\ iter'.prev_next = ROOT
    BY <2>1, NoIteratorTyped DEF IterS
  <2>3. Anchored'
    BY <2>2 DEF Anchored
  <2>4. returned' \in {0, returned}
    BY <2>1
  <2> QED BY <2>1, <2>2, <2>3, <2>4, Unchanging DEF MovesS
<1>8. CASE Singly!IterNext
  <2> DEFINE link == IF Singly!AtCurrent THEN iter.current ELSE iter.prev_next
  <2>1. UNCHANGED <<list, heap, returned>> /\ iter.active
        /\ iter' = [iter EXCEPT !.prev_next = link, !.current = Singly!Upcoming,
                          !.returned = @ \cup ({Singly!Upcoming} \ {NULL})]
    BY <1>8 DEF Singly!IterNext
  <2>2. PICK k \in 1 .. Len(s) + 1 : Position(s, k)
    BY <1>0, <2>1, PositionExists
  <2>3. Singly!Upcoming \in Singly!Pointer
    BY <1>0, <2>2, AtCurrentIs, UpcomingTyped
  <2>4. link \in {ROOT} \cup DOMAIN heap
    <3>1. CASE Singly!AtCurrent
      <4>1. k \in 1 .. Len(s) /\ iter.current = s[k]
        BY <1>0, <2>2, <3>1, AtCurrentIs
      <4>2. s[k] \in DOMAIN heap
        BY <4>1, SCore
      <4> QED BY <3>1, <4>1, <4>2
    <3>2. CASE ~Singly!AtCurrent
      BY <2>1, <3>2 DEF Anchored
    <3> QED BY <3>1, <3>2
  <2> HIDE DEF link
  <2>5. link \in Singly!Pointer \cup {ROOT}
    BY <1>0, <2>4 DEF Singly!Pointer
  <2>6. iter' \in IterS /\ iter'.prev_next = link
    BY <2>1, <2>3, <2>5 DEF IterS, Singly!Pointer
  <2>7. Anchored'
    BY <2>1, <2>4, <2>6 DEF Anchored
  <2>8. returned' \in {0, returned}
    BY <2>1
  <2> QED BY <2>1, <2>6, <2>7, <2>8, Unchanging DEF MovesS
<1>9. CASE Singly!IterRemove
  <2>1. /\ iter.active /\ Singly!AtCurrent /\ returned' = returned
        /\ iter' = [iter EXCEPT !.current = NULL, !.returned = @ \ {iter.current}]
    BY <1>9 DEF Singly!IterRemove, Singly!CurrentAfterRemove
  <2>2. PICK k \in 1 .. Len(s) + 1 : Position(s, k)
    BY <1>0, <2>1, PositionExists
  <2>3. k \in 1 .. Len(s) /\ iter.current = s[k]
    BY <1>0, <2>1, <2>2, AtCurrentIs
  <2>4. iter.prev_next = IF k = 1 THEN ROOT ELSE s[k - 1]
    BY <2>2 DEF Position
  <2>5. /\ SOK(list', heap', Cut(s, k))
        /\ Vals(heap', Cut(s, k)) = RemoveAt(Vals(heap, s), k)
        /\ Unlinked(heap', heap, s, k)
    BY <1>9, <2>3, <2>4, IterRemoveS
  <2>6. Does(Vals(heap, s), Vals(heap', Cut(s, k)))
    BY <1>0, <2>1, <2>3, <2>5, RemovalDoes
  <2>7. /\ iter' \in IterS
        /\ iter'.active = iter.active /\ iter'.prev_next = iter.prev_next
    BY <2>1 DEF IterS, Singly!Pointer
  <2>8. iter.prev_next # s[k]
    <3>1. CASE k = 1
      BY <1>0, <2>3, <2>4, <3>1, SCore, NullOutside
    <3>2. CASE k # 1
      <4>1. k - 1 \in 1 .. Len(s) /\ k - 1 # k
        BY <2>3, <3>2, SCore
      <4> QED BY <2>3, <2>4, <3>2, <4>1, SCore
    <3> QED BY <3>1, <3>2
  <2>9. Anchored'
    BY <2>3, <2>5, <2>7, <2>8, AnchorStays, SCore
  <2> QED BY <2>1, <2>5, <2>6, <2>7, <2>9 DEF MovesS
<1>10. CASE Singly!Free
  <2>1. iter' = Singly!NoIterator /\ returned' = returned
    BY <1>10 DEF Singly!Free
  <2>2. iter' \in IterS /\ Anchored'
    BY <2>1, NoIteratorTyped DEF Anchored
  <2>3. SOK(list', heap', <<>>)
    BY <1>10, FreeS
  <2>4. Does(Vals(heap, s), Vals(heap', <<>>))
    BY <2>1, EmptyDoes
  <2> QED BY <2>1, <2>2, <2>3, <2>4 DEF MovesS
<1> QED BY <1>1, <1>2, <1>3, <1>4, <1>5, <1>6, <1>7, <1>8, <1>9, <1>10
        DEF Singly!Next, Singly!InsertFails, Singly!RemoveNothing

\* A call of the stack is one of the list, or only reads.
LEMMA StackCallsS ==
  ASSUME NEW s, SOK(list, heap, s), Singly!StackNext
  PROVE  Singly!Next \/ UNCHANGED <<list, heap, iter, returned>>
<1>1. list # NULL => list \in Cell
  <2>1. Chain(heap, list, s) /\ DOMAIN heap \subseteq Cell
    BY DEF SOK, SHeap
  <2> QED BY <2>1, PartStart
<1>2. ASSUME NEW c \in Cell, NEW v \in Value, Singly!Push(c, v) PROVE Singly!Next
  BY <1>2 DEF Singly!Push, Singly!Next
<1>3. CASE Singly!PushFails
  BY <1>3 DEF Singly!PushFails, Singly!Next
<1>4. CASE Singly!Pop
  <2>1. CASE list = NULL
    <3>1. NULL \in Singly!Pointer
      BY DEF Singly!Pointer
    <3>2. Singly!RemoveNothing(NULL)
      BY <1>4, <2>1 DEF Singly!Pop
    <3> QED BY <3>1, <3>2 DEF Singly!Next
  <2>2. CASE list # NULL
    <3>1. Singly!RemoveEntry(list)
      BY <1>4, <2>2 DEF Singly!Pop
    <3> QED BY <1>1, <2>2, <3>1 DEF Singly!Next
  <2> QED BY <2>1, <2>2
<1>5. CASE Singly!Peek
  BY <1>5 DEF Singly!Peek, Singly!vars
<1>6. CASE Singly!Free
  BY <1>6 DEF Singly!Next
<1> QED BY <1>2, <1>3, <1>4, <1>5, <1>6 DEF Singly!StackNext

(* The inductive invariant: the links of a linked list are those of some   *)
(* order of all its entries, its iterator's link is allocated, and a kind  *)
(* that has no links leaves them as they were.                             *)
ListsInv ==
  /\ kind \in Kinds
  /\ returned \in Nat
  /\ Anchored
  /\ kind = "doubly" => iter \in IterD /\ \E s : DOK(list, heap, s)
  /\ kind \in {"singly", "lstack"} => iter \in IterS /\ \E s : SOK(list, heap, s)
  /\ kind \in Arrays => list = NULL /\ heap = Doubly!NoHeap /\ ~iter.active
  /\ IInv

\* The three sorts of kinds exclude each other.
LEMMA KindCases ==
  ASSUME kind \in Kinds
  PROVE  \/ kind = "doubly" /\ kind \notin {"singly", "lstack"} /\ kind \notin Arrays
         \/ kind \in {"singly", "lstack"} /\ kind # "doubly" /\ kind \notin Arrays
         \/ kind \in Arrays /\ kind # "doubly" /\ kind \notin {"singly", "lstack"}
BY KindsAssumption DEF Arrays

\* The inductive invariant holds at first.
LEMMA ListsInitInv == ASSUME ListsInit PROVE ListsInv
<1>1. IInv
  BY ArrayAssumption, InitIInv DEF ListsInit, StackInit
<1>2. /\ list = NULL /\ heap = Doubly!NoHeap /\ returned = 0
      /\ kind = "doubly" => iter = Doubly!NoIterator
      /\ kind # "doubly" => iter = Singly!NoIterator
  BY DEF ListsInit, Doubly!Init, Singly!StackInit, Singly!Init, Doubly!NoHeap, Singly!NoHeap
<1>3. \E s : DOK(list, heap, s)
  BY <1>2, EmptyD
<1>4. \E s : SOK(list, heap, s)
  BY <1>2, EmptyD DEF Doubly!NoHeap, Singly!NoHeap
<1>5. ~iter.active
  BY <1>2, NoIteratorTyped
<1> QED BY <1>1, <1>2, <1>3, <1>4, <1>5, NoIteratorTyped
        DEF ListsInv, ListsInit, Anchored, Arrays

\* The values of a linked list, in the terms of its order.
LEMMA ContentsAre ==
  ASSUME NEW s, DOK(list, heap, s) \/ SOK(list, heap, s)
  PROVE  Doubly!Contents = Vals(heap, s)
<1>1. Chain(heap, list, s) /\ Range(s) = DOMAIN heap /\ DOMAIN heap \subseteq Cell
  BY DEF DOK, SOK, DHeap, SHeap
<1>2. Doubly!Order = s
  BY <1>1, OrderIs DEF Doubly!Order
<1>3. DOMAIN s = 1 .. Len(s)
  BY <1>1, ChainFacts
<1> QED BY <1>2, <1>3 DEF Doubly!Contents, Vals

\* The same after the step.
LEMMA ContentsAreNext ==
  ASSUME NEW s, DOK(list', heap', s) \/ SOK(list', heap', s)
  PROVE  Doubly!Contents' = Vals(heap', s)
<1>1. Chain(heap', list', s) /\ Range(s) = DOMAIN heap' /\ DOMAIN heap' \subseteq Cell
  BY DEF DOK, SOK, DHeap, SHeap
<1>2. Doubly!Order' = s
  BY <1>1, OrderIs DEF Doubly!Order
<1>3. DOMAIN s = 1 .. Len(s)
  BY <1>1, ChainFacts
<1> QED BY <1>2, <1>3 DEF Doubly!Contents, Vals

\* What a call does to the values is a call of the abstract list.
LEMMA DoesIsCall ==
  ASSUME NEW w, NEW u, Doubly!Contents = w, Doubly!Contents' = u, Does(w, u)
  PROVE  [Sequences!Next]_(Sequences!vars)
<1>1. CASE u = w /\ returned' \in {0, returned}
  BY <1>1 DEF Sequences!Next, Sequences!Refused, Sequences!vars
<1>2. ASSUME NEW v \in Value, u = <<v>> \o w, returned' = 1 PROVE Sequences!Next
  BY <1>2 DEF Sequences!Next, Sequences!Prepend
<1>3. ASSUME NEW v \in Value, u = Append(w, v), returned' = 1 PROVE Sequences!Next
  BY <1>3 DEF Sequences!Next, Sequences!Add
<1>4. ASSUME NEW v \in Value, u = Sequences!Others(w, v),
             returned' = Len(Sequences!Matching(w, v))
      PROVE  Sequences!Next
  BY <1>4 DEF Sequences!Next, Sequences!DeleteAll
<1>5. ASSUME NEW i \in DOMAIN w, u = RemoveAt(w, i), returned' \in {1, returned}
      PROVE  Sequences!Next
  BY <1>5 DEF Sequences!Next, Sequences!DeleteAt, RemoveAt
<1>6. CASE Sequences!Permutes(u, w) /\ Sequences!Ascending(u) /\ returned' = returned
  BY <1>6 DEF Sequences!Next, Sequences!Sort
<1>7. CASE u = <<>> /\ returned' = returned
  BY <1>7 DEF Sequences!Next, Sequences!Destroy
<1> QED BY <1>1, <1>2, <1>3, <1>4, <1>5, <1>6, <1>7 DEF Does

\* A call of a list leaves the array as it was.
LEMMA ArrayStays ==
  ASSUME IInv, UNCHANGED stackVars PROVE IInv'
<1>1. [Next]_vars
  BY DEF stackVars
<1> QED BY <1>1, ArrayAssumption, NextKeeps

\* Every step keeps the inductive invariant and is one of the sequence.
LEMMA ListsNextInv ==
  ASSUME ListsInv, [ListsNext]_<<links, stackVars, kind>>
  PROVE  ListsInv' /\ [Sequences!Next]_(Sequences!vars)
<1> DEFINE C == Doubly!Contents
<1>0. /\ kind \in Kinds /\ kind' = kind /\ returned \in Nat /\ Anchored /\ IInv
      /\ kind = "doubly" => iter \in IterD /\ \E s : DOK(list, heap, s)
      /\ kind \in {"singly", "lstack"} => iter \in IterS /\ \E s : SOK(list, heap, s)
      /\ kind \in Arrays => list = NULL /\ heap = Doubly!NoHeap /\ ~iter.active
  BY DEF ListsInv, ListsNext
<1>1. ASSUME UNCHANGED <<list, heap, iter, returned>>, IInv'
      PROVE  ListsInv' /\ [Sequences!Next]_(Sequences!vars)
  <2>1. C' = C
    BY <1>1 DEF Doubly!Contents, Doubly!Order
  <2>2. [Sequences!Next]_(Sequences!vars)
    BY <1>1, <2>1 DEF Sequences!vars
  <2>3. Anchored'
    BY <1>0, <1>1 DEF Anchored
  <2>4. kind = "doubly" => iter' \in IterD /\ \E s : DOK(list', heap', s)
    BY <1>0, <1>1
  <2>5. kind \in {"singly", "lstack"} => iter' \in IterS /\ \E s : SOK(list', heap', s)
    BY <1>0, <1>1
  <2>6. kind \in Arrays => list' = NULL /\ heap' = Doubly!NoHeap /\ ~iter'.active
    BY <1>0, <1>1
  <2> QED BY <1>0, <1>1, <2>2, <2>3, <2>4, <2>5, <2>6 DEF ListsInv
<1>2. CASE kind = "doubly" /\ Doubly!Next /\ UNCHANGED stackVars
  <2>1. PICK s : DOK(list, heap, s)
    BY <1>0, <1>2
  <2>2. MovesD(s)
    BY <1>0, <1>2, <2>1, DoublyMoves
  <2>3. PICK t : DOK(list', heap', t) /\ Does(Vals(heap, s), Vals(heap', t))
    BY <2>2 DEF MovesD
  <2>4. C = Vals(heap, s) /\ C' = Vals(heap', t)
    BY <2>1, <2>3, ContentsAre, ContentsAreNext
  <2> HIDE DEF C
  <2>5. [Sequences!Next]_(Sequences!vars)
    BY <2>3, <2>4, DoesIsCall DEF C
  <2>6. /\ kind' \notin {"singly", "lstack"} /\ kind' \notin Arrays
    BY <1>0, <1>2, KindCases
  <2>7. ListsInv'
    BY <1>0, <1>2, <2>2, <2>3, <2>6, ArrayStays DEF ListsInv, MovesD
  <2> QED BY <2>5, <2>7
<1>3. CASE kind \in {"singly", "lstack"} /\ Singly!Next /\ UNCHANGED stackVars
  <2>1. PICK s : SOK(list, heap, s)
    BY <1>0, <1>3
  <2>2. MovesS(s)
    BY <1>0, <1>3, <2>1, SinglyMoves
  <2>3. PICK t : SOK(list', heap', t) /\ Does(Vals(heap, s), Vals(heap', t))
    BY <2>2 DEF MovesS
  <2>4. C = Vals(heap, s) /\ C' = Vals(heap', t)
    BY <2>1, <2>3, ContentsAre, ContentsAreNext
  <2> HIDE DEF C
  <2>5. [Sequences!Next]_(Sequences!vars)
    BY <2>3, <2>4, DoesIsCall DEF C
  <2>6. kind' # "doubly" /\ kind' \notin Arrays
    BY <1>0, <1>3, KindCases
  <2>7. ListsInv'
    BY <1>0, <1>3, <2>2, <2>3, <2>6, ArrayStays DEF ListsInv, MovesS
  <2> QED BY <2>5, <2>7
<1>4. CASE kind = "lstack" /\ Singly!StackNext /\ UNCHANGED stackVars
  <2>1. PICK s : SOK(list, heap, s)
    BY <1>0, <1>4
  <2>2. Singly!Next \/ UNCHANGED <<list, heap, iter, returned>>
    BY <1>4, <2>1, StackCallsS
  <2> QED BY <1>0, <1>1, <1>3, <1>4, <2>2, ArrayStays
<1>5. CASE kind = "array" /\ Next /\ UNCHANGED <<links, top>>
  <2>1. IInv'
    BY <1>0, <1>5, ArrayAssumption, NextKeeps
  <2> QED BY <1>1, <1>5, <2>1 DEF links
<1>6. CASE kind = "seqstack" /\ StackNext /\ UNCHANGED links
  <2>1. IInv'
    BY <1>0, <1>6, ArrayAssumption, StackNextArray, NextKeeps
  <2> QED BY <1>1, <1>6, <2>1 DEF links
<1>7. CASE UNCHANGED <<links, stackVars, kind>>
  BY <1>0, <1>1, <1>7, ArrayStays DEF links
<1> QED BY <1>2, <1>3, <1>4, <1>5, <1>6, <1>7 DEF ListsNext

\* The inductive invariant gives the shape the runs check.
LEMMA ListsInvMeans == ASSUME ListsInv PROVE ListsWellFormed
<1>1. CASE kind = "doubly"
  <2>1. PICK s : DOK(list, heap, s)
    BY <1>1 DEF ListsInv
  <2>2. Doubly!Order = s
    BY <2>1, OrderIs DEF Doubly!Order, DOK, DHeap
  <2>3. /\ s \in Seq(DOMAIN heap) /\ DOMAIN s = 1 .. Len(s)
        /\ \A i, j \in 1 .. Len(s) : s[i] = s[j] => i = j
        /\ \A i \in 1 .. Len(s) : heap[s[i]].prev = IF i = 1 THEN NULL ELSE s[i - 1]
    BY <2>1, DCore, DLinks
  <2>4. list \in Doubly!Pointer
    BY <2>1, PartStart DEF DOK, DHeap
  <2>5. Doubly!WellLinked
    BY <2>1, <2>2, <2>3
       DEF Doubly!WellLinked, Doubly!IsInjective, Doubly!Range, Range, DOK
  <2>6. Doubly!TypeOK
    BY <1>1, <2>1, <2>4 DEF Doubly!TypeOK, ListsInv, DOK, DHeap, IterD
  <2> QED BY <1>1, <2>5, <2>6, KindCases DEF ListsWellFormed, ListsInv
<1>2. CASE kind \in {"singly", "lstack"}
  <2>1. PICK s : SOK(list, heap, s)
    BY <1>2 DEF ListsInv
  <2>2. Singly!Order = s
    BY <2>1, OrderIs DEF Singly!Order, SOK, SHeap
  <2>3. /\ s \in Seq(DOMAIN heap) /\ DOMAIN s = 1 .. Len(s)
        /\ \A i, j \in 1 .. Len(s) : s[i] = s[j] => i = j
    BY <2>1, SCore
  <2>4. list \in Singly!Pointer
    BY <2>1, PartStart DEF SOK, SHeap
  <2>5. Singly!WellLinked
    BY <2>1, <2>2, <2>3
       DEF Singly!WellLinked, Singly!IsInjective, Singly!Range, Range, SOK
  <2>6. Singly!TypeOK
    BY <1>2, <2>1, <2>4 DEF Singly!TypeOK, ListsInv, SOK, SHeap, IterS
  <2> QED BY <1>2, <2>5, <2>6, KindCases DEF ListsWellFormed, ListsInv
<1>3. CASE kind \in Arrays
  <2>1. TypeOK
    BY DEF ListsInv, IInv
  <2> QED BY <1>3, <2>1, KindCases DEF ListsWellFormed, ListsInv
<1> QED BY <1>1, <1>2, <1>3, KindCases DEF ListsInv

(* Whatever the calls, the entries of either linked list are exactly those *)
(* that following next from the list pointer meets, each once, and prev    *)
(* leads back.                                                             *)
THEOREM ListsAreWellFormed == ListsSpec => []ListsWellFormed
<1>1. ListsInit => ListsInv
  BY ListsInitInv
<1>2. ListsInv /\ [ListsNext]_<<links, stackVars, kind>> => ListsInv'
  BY ListsNextInv
<1>3. ListsInv => ListsWellFormed
  BY ListsInvMeans
<1> QED BY <1>1, <1>2, <1>3, PTL DEF ListsSpec

(* Every call on either linked list is one operation on the sequence of    *)
(* its values, list_remove_data and the sort among them.                   *)
THEOREM ListsRefineList == ListsSpec => ListsImplementList
<1>1. ListsInit => ListsInv /\ Sequences!Init
  <2>1. ASSUME ListsInit PROVE Sequences!Init
    <3>1. list = NULL /\ heap = Doubly!NoHeap /\ returned = 0
      BY <2>1 DEF ListsInit, Doubly!Init, Singly!StackInit, Singly!Init,
                  Doubly!NoHeap, Singly!NoHeap
    <3>2. Doubly!Contents = Vals(heap, <<>>)
      BY <3>1, EmptyD, ContentsAre
    <3>3. Vals(heap, <<>>) = <<>>
      BY DEF Vals
    <3> QED BY <3>1, <3>2, <3>3 DEF Sequences!Init
  <2> QED BY <2>1, ListsInitInv
<1>2. ListsInv /\ [ListsNext]_<<links, stackVars, kind>> => ListsInv'
  BY ListsNextInv
<1>3. ListsInv /\ [ListsNext]_<<links, stackVars, kind>> => [Sequences!Next]_(Sequences!vars)
  BY ListsNextInv
<1> QED BY <1>1, <1>2, <1>3, PTL DEF ListsSpec, ListsImplementList, Sequences!Spec

(* Where an exact iteration is: its link leads out of the first j entries, *)
(* and the first m entries have been returned, the current one, when there *)
(* is one, last.                                                           *)
At(s, it, j, m) ==
  /\ j \in 0 .. Len(s) /\ m \in 0 .. Len(s)
  /\ it.prev_next = IF j = 0 THEN ROOT ELSE s[j]
  /\ \/ m = j /\ it.current = NULL
     \/ m = j + 1 /\ it.current = s[m]
  /\ it.returned = {s[i] : i \in 1 .. m}

Exact(s, it) == \E j, m \in 0 .. Len(s) : At(s, it, j, m)

\* A new iterator is exact.
LEMMA ExactStart ==
  ASSUME NEW s, Len(s) \in Nat, NEW it, it.prev_next = ROOT, it.current = NULL,
         it.returned = {}
  PROVE  Exact(s, it)
<1>1. {s[i] : i \in 1 .. 0} = {}
  OBVIOUS
<1>2. At(s, it, 0, 0)
  BY <1>1 DEF At
<1> QED BY <1>2 DEF Exact

\* An exact iterator stays so when an entry is appended.
LEMMA ExactAppend ==
  ASSUME NEW S, NEW s \in Seq(S), NEW c, NEW it, Exact(s, it)
  PROVE  Exact(Glue(s, <<c>>), it)
<1> DEFINE T == S \cup {c}
           t == Glue(s, <<c>>)
<1>1. s \in Seq(T) /\ <<c>> \in Seq(T) /\ Len(s) \in Nat /\ Len(<<c>>) = 1
  BY SeqIs, One, InAnother
<1>2. IsGlue(T, s, <<c>>)
  BY <1>1, GlueFacts
<1>3. Len(t) = Len(s) + 1 /\ \A i \in 1 .. Len(s) : t[i] = s[i]
  BY <1>1, <1>2 DEF IsGlue
<1> HIDE DEF t
<1>4. PICK j \in 0 .. Len(s), m \in 0 .. Len(s) : At(s, it, j, m)
  BY DEF Exact
<1>5. {s[i] : i \in 1 .. m} = {t[i] : i \in 1 .. m}
  <2>1. \A i \in 1 .. m : t[i] = s[i]
    BY <1>1, <1>3
  <2> QED BY <2>1
<1>6. j # 0 => j \in 1 .. Len(s)
  BY <1>1
<1>7. m # 0 => m \in 1 .. Len(s)
  BY <1>1
<1>8. j \in 0 .. Len(t) /\ m \in 0 .. Len(t)
  BY <1>1, <1>3
<1>9. m = j + 1 => m # 0
  BY <1>1
<1>10. At(t, it, j, m)
  BY <1>3, <1>4, <1>5, <1>6, <1>7, <1>8, <1>9 DEF At
<1> QED BY <1>8, <1>10 DEF Exact, t

\* A sequence without its k-th member.
LEMMA CutAt ==
  ASSUME NEW S, NEW s \in Seq(S), NEW k \in 1 .. Len(s)
  PROVE  /\ Len(Cut(s, k)) = Len(s) - 1 /\ Len(s) \in Nat
         /\ \A i \in 1 .. Len(s) - 1 : Cut(s, k)[i] = IF i < k THEN s[i] ELSE s[i + 1]
<1>1. Len(s) \in Nat /\ Len(s) - 1 \in Nat
  BY SeqIs
<1> QED BY <1>1 DEF Cut

\* An entry that was returned, or is still to come, is removed.
LEMMA ExactCut ==
  ASSUME NEW S, NEW s \in Seq(S), \A i, j \in 1 .. Len(s) : s[i] = s[j] => i = j,
         NEW k \in 1 .. Len(s), NEW it, Exact(s, it),
         it.prev_next # s[k], it.current # s[k],
         NEW it2, it2.prev_next = it.prev_next, it2.current = it.current,
         it2.returned = it.returned \ {s[k]}
  PROVE  Exact(Cut(s, k), it2)
<1> DEFINE t == Cut(s, k)
<1>1. /\ Len(t) = Len(s) - 1 /\ Len(s) \in Nat
      /\ \A i \in 1 .. Len(s) - 1 : t[i] = IF i < k THEN s[i] ELSE s[i + 1]
  BY CutAt
<1> HIDE DEF t
<1>2. PICK j \in 0 .. Len(s), m \in 0 .. Len(s) : At(s, it, j, m)
  BY DEF Exact
<1>3. /\ it.prev_next = IF j = 0 THEN ROOT ELSE s[j]
      /\ \/ m = j /\ it.current = NULL
         \/ m = j + 1 /\ it.current = s[m]
      /\ it.returned = {s[i] : i \in 1 .. m}
  BY <1>2 DEF At
<1>4. j # k /\ (m = j + 1 => m # k) /\ j <= m
  <2>1. j # k
    BY <1>3
  <2>2. m = j + 1 => m # k
    BY <1>3
  <2> QED BY <1>3, <2>1, <2>2
<1>5. CASE k < j
  <2>0. j - 1 \in 0 .. Len(t) /\ m - 1 \in 0 .. Len(t) /\ k < m
    BY <1>1, <1>3, <1>4, <1>5
  <2>1. j - 1 # 0 => t[j - 1] = s[j]
    <3>1. ASSUME j - 1 # 0 PROVE j - 1 \in 1 .. Len(s) - 1 /\ ~(j - 1 < k) /\ (j - 1) + 1 = j
      BY <1>1, <1>5, <3>1
    <3> QED BY <1>1, <3>1
  <2>2. j - 1 # 0
    BY <1>5
  <2>3. m - 1 \in 1 .. Len(s) - 1 /\ t[m - 1] = s[m]
    <3>1. m - 1 \in 1 .. Len(s) - 1 /\ ~(m - 1 < k) /\ (m - 1) + 1 = m
      BY <1>1, <1>4, <1>5
    <3> QED BY <1>1, <3>1
  <2>4. {s[i] : i \in 1 .. m} \ {s[k]} = {t[i] : i \in 1 .. m - 1}
    <3>1. ASSUME NEW i \in 1 .. m, i # k
          PROVE  \E n \in 1 .. m - 1 : t[n] = s[i]
      <4>1. CASE i < k
        <5>1. i \in 1 .. m - 1 /\ i \in 1 .. Len(s) - 1
          BY <1>1, <2>0, <4>1
        <5> QED BY <1>1, <4>1, <5>1
      <4>2. CASE ~(i < k)
        <5>1. i - 1 \in 1 .. m - 1 /\ i - 1 \in 1 .. Len(s) - 1 /\ ~(i - 1 < k) /\ (i - 1) + 1 = i
          BY <1>1, <2>0, <3>1, <4>2
        <5> QED BY <1>1, <5>1
      <4> QED BY <4>1, <4>2
    <3>2. ASSUME NEW n \in 1 .. m - 1
          PROVE  \E i \in 1 .. m : i # k /\ t[n] = s[i]
      <4>1. n \in 1 .. Len(s) - 1 /\ n \in 1 .. m /\ n + 1 \in 1 .. m
        BY <1>1
      <4>2. CASE n < k
        BY <1>1, <4>1, <4>2
      <4>3. CASE ~(n < k)
        <5>1. n + 1 # k
          BY <4>3
        <5> QED BY <1>1, <4>1, <4>3, <5>1
      <4> QED BY <4>2, <4>3
    <3>3. \A i \in 1 .. m : i \in 1 .. Len(s)
      BY <1>1
    <3>4. \A i \in 1 .. m : s[i] = s[k] <=> i = k
      BY <3>3
    <3>5. ASSUME NEW x \in {s[i] : i \in 1 .. m} \ {s[k]}
          PROVE  x \in {t[i] : i \in 1 .. m - 1}
      <4>1. PICK i \in 1 .. m : x = s[i] /\ i # k
        OBVIOUS
      <4>2. PICK n \in 1 .. m - 1 : t[n] = s[i]
        BY <3>1, <4>1
      <4> QED BY <4>1, <4>2
    <3>6. ASSUME NEW x \in {t[i] : i \in 1 .. m - 1}
          PROVE  x \in {s[i] : i \in 1 .. m} \ {s[k]}
      <4>1. PICK n \in 1 .. m - 1 : x = t[n]
        OBVIOUS
      <4>2. PICK i \in 1 .. m : i # k /\ t[n] = s[i]
        BY <3>2
      <4>3. s[i] # s[k]
        BY <3>4, <4>2
      <4> QED BY <4>1, <4>2, <4>3
    <3> QED BY <3>5, <3>6
  <2>5. j = j - 1 + 1 /\ (m = j + 1 => m - 1 = (j - 1) + 1) /\ (m = j => m - 1 = j - 1)
    OBVIOUS
  <2>6. At(t, it2, j - 1, m - 1)
    <3>1. it2.prev_next = t[j - 1]
      BY <1>3, <1>5, <2>1, <2>2
    <3>2. \/ m - 1 = j - 1 /\ it2.current = NULL
          \/ m - 1 = (j - 1) + 1 /\ it2.current = t[m - 1]
      BY <1>3, <2>3, <2>5
    <3>3. it2.returned = {t[i] : i \in 1 .. m - 1}
      BY <1>3, <2>4
    <3> QED BY <2>0, <2>2, <3>1, <3>2, <3>3 DEF At
  <2> QED BY <2>0, <2>6 DEF Exact, t
<1>6. CASE m < k
  <2>1. \A i \in 1 .. m : /\ t[i] = s[i] /\ i \in 1 .. Len(s) /\ i # k
    BY <1>1, <1>6
  <2>2. j \in 0 .. Len(t) /\ m \in 0 .. Len(t)
    BY <1>1, <1>4, <1>6
  <2>3. {s[i] : i \in 1 .. m} \ {s[k]} = {t[i] : i \in 1 .. m}
    BY <2>1
  <2>4. (j # 0 => j \in 1 .. m) /\ (m = j + 1 => m \in 1 .. m)
    BY <1>4
  <2>5. At(t, it2, j, m)
    BY <1>3, <2>1, <2>2, <2>3, <2>4 DEF At
  <2> QED BY <2>2, <2>5 DEF Exact, t
<1>7. k < j \/ m < k
  BY <1>3, <1>4
<1> QED BY <1>5, <1>6, <1>7

\* The iterator removes its current entry.
LEMMA ExactRemove ==
  ASSUME NEW S, NEW s \in Seq(S), \A i, j \in 1 .. Len(s) : s[i] = s[j] => i = j,
         NULL \notin Range(s), NEW k \in 1 .. Len(s), NEW it, Exact(s, it),
         it.prev_next = (IF k = 1 THEN ROOT ELSE s[k - 1]), ROOT \notin Range(s),
         it.current = s[k],
         NEW it2, it2.prev_next = it.prev_next, it2.current = NULL,
         it2.returned = it.returned \ {s[k]}
  PROVE  Exact(Cut(s, k), it2)
<1> DEFINE t == Cut(s, k)
<1>1. /\ Len(t) = Len(s) - 1 /\ Len(s) \in Nat
      /\ \A i \in 1 .. Len(s) - 1 : t[i] = IF i < k THEN s[i] ELSE s[i + 1]
  BY CutAt
<1> HIDE DEF t
<1>2. PICK j \in 0 .. Len(s), m \in 0 .. Len(s) : At(s, it, j, m)
  BY DEF Exact
<1>3. \A i \in 1 .. Len(s) : s[i] \in Range(s) /\ s[i] # NULL /\ s[i] # ROOT
  BY RangeIs
<1>4. m = k
  <2>1. m = j + 1 /\ s[m] = s[k]
    BY <1>2, <1>3 DEF At
  <2>2. m \in 1 .. Len(s)
    BY <1>1, <2>1
  <2> QED BY <2>1, <2>2
<1>5. \A i \in 1 .. k - 1 : t[i] = s[i] /\ i \in 1 .. Len(s) /\ i # k
  <2>1. \A i \in 1 .. k - 1 : i \in 1 .. Len(s) - 1 /\ i < k /\ i \in 1 .. Len(s)
    BY <1>1
  <2> QED BY <1>1, <2>1
<1>6. {s[i] : i \in 1 .. k} \ {s[k]} = {t[i] : i \in 1 .. k - 1}
  <2>1. \A i \in 1 .. k : i = k \/ i \in 1 .. k - 1
    BY <1>1
  <2>2. \A i \in 1 .. k - 1 : i \in 1 .. k
    BY <1>1
  <2> QED BY <1>5, <2>1, <2>2
<1>7. k - 1 \in 0 .. Len(t) /\ (k # 1 => k - 1 \in 1 .. k - 1) /\ (k - 1 = 0 <=> k = 1)
  BY <1>1
<1>8. At(t, it2, k - 1, k - 1)
  <2>1. it2.returned = {t[i] : i \in 1 .. k - 1}
    BY <1>2, <1>4, <1>6 DEF At
  <2>2. it2.prev_next = IF k - 1 = 0 THEN ROOT ELSE t[k - 1]
    BY <1>5, <1>7
  <2> QED BY <1>7, <2>1, <2>2 DEF At
<1> QED BY <1>7, <1>8 DEF Exact, t

\* The iterator goes on to the next entry.
LEMMA ExactNext ==
  ASSUME NEW S, NEW s \in Seq(S), NULL \notin Range(s), NEW it, Exact(s, it),
         NEW it2, NEW j \in 0 .. Len(s), NEW m \in 0 .. Len(s), At(s, it, j, m),
         it2.prev_next = (IF m = j + 1 THEN it.current ELSE it.prev_next),
         it2.current = NthOf(s, m + 1),
         it2.returned = it.returned \cup ({NthOf(s, m + 1)} \ {NULL})
  PROVE  Exact(s, it2)
<1>1. Len(s) \in Nat /\ \A i \in 1 .. Len(s) : s[i] \in Range(s) /\ s[i] # NULL
  BY SeqIs, RangeIs
<1>2. it2.prev_next = IF m = 0 THEN ROOT ELSE s[m]
  <2>1. CASE m = j
    <3>1. m # j + 1
      BY <2>1
    <3> QED BY <2>1, <3>1 DEF At
  <2>2. CASE m = j + 1
    <3>1. m # 0 /\ m # j
      BY <2>2
    <3> QED BY <2>2, <3>1 DEF At
  <2> QED BY <2>1, <2>2 DEF At
<1>3. it.returned = {s[i] : i \in 1 .. m}
  BY DEF At
<1>4. CASE m = Len(s)
  <2>1. NthOf(s, m + 1) = NULL
    BY <1>1, <1>4 DEF NthOf
  <2>2. At(s, it2, m, m)
    BY <1>2, <1>3, <2>1 DEF At
  <2> QED BY <2>2 DEF Exact
<1>5. CASE m # Len(s)
  <2>1. m + 1 \in 1 .. Len(s) /\ m + 1 \in 0 .. Len(s)
    BY <1>1, <1>5
  <2>2. NthOf(s, m + 1) = s[m + 1] /\ s[m + 1] # NULL
    BY <1>1, <2>1 DEF NthOf
  <2>3. 1 .. m + 1 = (1 .. m) \cup {m + 1}
    BY <1>1
  <2>4. {s[i] : i \in 1 .. m + 1} = {s[i] : i \in 1 .. m} \cup {s[m + 1]}
    BY <2>3
  <2>5. it2.returned = {s[i] : i \in 1 .. m + 1}
    BY <1>3, <2>2, <2>4
  <2>6. At(s, it2, m, m + 1)
    BY <1>2, <2>1, <2>2, <2>5 DEF At
  <2> QED BY <2>1, <2>6 DEF Exact
<1> QED BY <1>4, <1>5

IterInv == iter.active => Exact(Doubly!Order, iter)

\* The entries an exact iteration has returned are those before its upcoming one.
LEMMA AtUpcoming ==
  ASSUME NEW s, Chain(heap, list, s), DOMAIN heap \subseteq Cell, NEW k, Position(s, k),
         NEW j, NEW m, At(s, iter, j, m)
  PROVE  /\ k = j + 1
         /\ Doubly!AtCurrent <=> m = j + 1
         /\ Singly!AtCurrent <=> m = j + 1
         /\ Doubly!Upcoming = NthOf(s, m + 1)
         /\ Singly!Upcoming = NthOf(s, m + 1)
<1>1. /\ Len(s) \in Nat
      /\ \A i \in 1 .. Len(s) : s[i] \in DOMAIN heap
      /\ \A i, n \in 1 .. Len(s) : s[i] = s[n] => i = n
  BY ChainFacts
<1>2. \A i \in 1 .. Len(s) : s[i] # NULL /\ s[i] # ROOT
  BY <1>1, NullOutside
<1>3. /\ k \in 1 .. Len(s) + 1 /\ j \in 0 .. Len(s) /\ m \in 0 .. Len(s)
      /\ iter.prev_next = IF k = 1 THEN ROOT ELSE s[k - 1]
      /\ iter.prev_next = IF j = 0 THEN ROOT ELSE s[j]
      /\ \/ m = j /\ iter.current = NULL
         \/ m = j + 1 /\ iter.current = s[m]
  BY DEF Position, At
<1>4. k = j + 1
  <2>1. k # 1 => k - 1 \in 1 .. Len(s)
    BY <1>1, <1>3
  <2>2. j # 0 => j \in 1 .. Len(s)
    BY <1>1, <1>3
  <2>3. CASE k = 1
    BY <1>2, <1>3, <2>2, <2>3
  <2>4. CASE k # 1
    <3>1. j # 0 /\ s[k - 1] = s[j]
      BY <1>2, <1>3, <2>1, <2>4
    <3>2. k - 1 = j
      BY <1>1, <2>1, <2>2, <2>4, <3>1
    <3> QED BY <1>3, <3>2
  <2> QED BY <2>3, <2>4
<1>5. (k <= Len(s) /\ iter.current = s[k]) <=> m = j + 1
  <2>1. k <= Len(s) => k \in 1 .. Len(s)
    BY <1>1, <1>3
  <2>2. m = j => m # j + 1
    BY <1>3
  <2>3. m = j + 1 => k <= Len(s) /\ k = m
    BY <1>3, <1>4
  <2> QED BY <1>2, <1>3, <2>1, <2>2, <2>3
<1>6. /\ Doubly!AtCurrent <=> m = j + 1
      /\ Singly!AtCurrent <=> m = j + 1
      /\ Doubly!Upcoming = NthOf(s, IF Doubly!AtCurrent THEN k + 1 ELSE k)
      /\ Singly!Upcoming = NthOf(s, IF Singly!AtCurrent THEN k + 1 ELSE k)
  BY <1>5, AtCurrentIs
<1> QED BY <1>3, <1>4, <1>6

\* The order of a list after the step.
LEMMA OrderNext ==
  ASSUME NEW t, DOK(list', heap', t) \/ SOK(list', heap', t)
  PROVE  Doubly!Order' = t
<1>1. Chain(heap', list', t) /\ Range(t) = DOMAIN heap' /\ DOMAIN heap' \subseteq Cell
  BY DEF DOK, SOK, DHeap, SHeap
<1> QED BY <1>1, OrderIs DEF Doubly!Order

\* The order of a list.
LEMMA OrderNow ==
  ASSUME NEW s, DOK(list, heap, s) \/ SOK(list, heap, s)
  PROVE  /\ Doubly!Order = s /\ Singly!Order = s
         /\ Chain(heap, list, s) /\ Range(s) = DOMAIN heap /\ DOMAIN heap \subseteq Cell
         /\ NULL \notin Range(s) /\ ROOT \notin Range(s)
<1>1. Chain(heap, list, s) /\ Range(s) = DOMAIN heap /\ DOMAIN heap \subseteq Cell
  BY DEF DOK, SOK, DHeap, SHeap
<1> QED BY <1>1, OrderIs, NullOutside DEF Doubly!Order, Singly!Order

\* Every step of the doubly linked list keeps its iterator exact.
LEMMA DoublyExact ==
  ASSUME NEW s, DOK(list, heap, s), iter \in IterD, Anchored, IterInv, Doubly!Next,
         DropsCurrent = FALSE
  PROVE  IterInv'
<1>0. /\ Doubly!Order = s /\ Chain(heap, list, s) /\ Range(s) = DOMAIN heap
      /\ DOMAIN heap \subseteq Cell /\ NULL \notin Range(s) /\ ROOT \notin Range(s)
      /\ s \in Seq(DOMAIN heap) /\ Len(s) \in Nat
      /\ \A i, j \in 1 .. Len(s) : s[i] = s[j] => i = j
      /\ iter.active => Exact(s, iter)
  BY OrderNow, DCore DEF IterInv
<1>1. ASSUME iter' = Doubly!NoIterator PROVE IterInv'
  BY <1>1, NoIteratorTyped DEF IterInv
<1>2. ASSUME UNCHANGED <<list, heap>>, ~iter'.active \/ Exact(s, iter') PROVE IterInv'
  <2>1. Doubly!Order' = s
    BY <1>0, <1>2 DEF Doubly!Order
  <2> QED BY <1>2, <2>1 DEF IterInv
<1>3. ASSUME NEW c \in Cell, NEW v \in Value, Doubly!AppendEntry(c, v) PROVE IterInv'
  <2>1. iter' = iter
    BY <1>3 DEF Doubly!AppendEntry
  <2> DEFINE t == Glue(s, <<c>>)
  <2>2. DOK(list', heap', t)
    BY <1>3, AppendD
  <2>3. iter.active => Exact(t, iter)
    BY <1>0, ExactAppend
  <2> HIDE DEF t
  <2>4. Doubly!Order' = t
    BY <2>2, OrderNext
  <2> QED BY <2>1, <2>3, <2>4 DEF IterInv
<1>4. ASSUME NEW c \in Cell, Doubly!RemoveEntry(c) PROVE IterInv'
  <2>1. /\ c \in DOMAIN heap
        /\ iter.active => c # iter.prev_next /\ c # iter.current
        /\ iter' = [iter EXCEPT !.returned = @ \ {c},
                                !.dropped = @ \/ c = iter.current]
    BY <1>4 DEF Doubly!RemoveEntry
  <2>2. PICK k \in 1 .. Len(s) : c = s[k]
    BY <2>1, DAt
  <2> DEFINE t == Cut(s, k)
  <2>3. DOK(list', heap', t)
    BY <1>4, <2>2, RemoveEntryD
  <2>4. /\ iter'.active = iter.active /\ iter'.prev_next = iter.prev_next
        /\ iter'.current = iter.current /\ iter'.returned = iter.returned \ {s[k]}
    BY <2>1, <2>2 DEF IterD
  <2>5. iter.active => Exact(t, iter')
    BY <1>0, <2>1, <2>2, <2>4, ExactCut
  <2> HIDE DEF t
  <2>6. Doubly!Order' = t
    BY <2>3, OrderNext
  <2> QED BY <2>4, <2>5, <2>6 DEF IterInv
<1>5. CASE Doubly!Iterate
  <2>1. UNCHANGED <<list, heap>>
        /\ iter' = [Doubly!NoIterator EXCEPT !.active = TRUE, !.prev_next = ROOT]
    BY <1>5 DEF Doubly!Iterate
  <2>2. iter'.prev_next = ROOT /\ iter'.current = NULL /\ iter'.returned = {}
    BY <2>1 DEF Doubly!NoIterator
  <2>3. Exact(s, iter')
    BY <1>0, <2>2, ExactStart
  <2> QED BY <1>2, <2>1, <2>3
<1>6. CASE Doubly!IterNext
  <2> DEFINE link == IF Doubly!AtCurrent THEN iter.current ELSE iter.prev_next
  <2>1. /\ UNCHANGED <<list, heap>> /\ iter.active
        /\ iter' = [iter EXCEPT !.prev_next = link, !.current = Doubly!Upcoming,
                          !.returned = @ \cup ({Doubly!Upcoming} \ {NULL}),
                          !.dropped = FALSE]
    BY <1>6 DEF Doubly!IterNext, Doubly!StepLink
  <2>2. PICK k \in 1 .. Len(s) + 1 : Position(s, k)
    BY <1>0, <2>1, PositionExists
  <2>3. PICK j \in 0 .. Len(s), m \in 0 .. Len(s) : At(s, iter, j, m)
    BY <1>0, <2>1 DEF Exact
  <2>4. (Doubly!AtCurrent <=> m = j + 1) /\ Doubly!Upcoming = NthOf(s, m + 1)
    BY <1>0, <2>2, <2>3, AtUpcoming
  <2>5. link = IF m = j + 1 THEN iter.current ELSE iter.prev_next
    BY <2>4
  <2> HIDE DEF link
  <2>6. /\ iter'.prev_next = link /\ iter'.current = Doubly!Upcoming
        /\ iter'.returned = iter.returned \cup ({Doubly!Upcoming} \ {NULL})
    BY <2>1 DEF IterD
  <2>7. Exact(s, iter')
    BY <1>0, <2>1, <2>3, <2>4, <2>5, <2>6, ExactNext
  <2> QED BY <1>2, <2>1, <2>7
<1>7. CASE Doubly!IterRemove
  <2>1. /\ iter.active /\ Doubly!AtCurrent
        /\ iter' = [iter EXCEPT !.current = NULL, !.returned = @ \ {iter.current}]
    BY <1>7 DEF Doubly!IterRemove
  <2>2. PICK k \in 1 .. Len(s) + 1 : Position(s, k)
    BY <1>0, <2>1, PositionExists
  <2>3. k \in 1 .. Len(s) /\ iter.current = s[k]
    BY <1>0, <2>1, <2>2, AtCurrentIs
  <2>4. iter.prev_next = IF k = 1 THEN ROOT ELSE s[k - 1]
    BY <2>2 DEF Position
  <2> DEFINE t == Cut(s, k)
  <2>5. DOK(list', heap', t)
    BY <1>7, <2>3, <2>4, IterRemoveD
  <2>6. /\ iter'.prev_next = iter.prev_next
        /\ iter'.current = NULL /\ iter'.returned = iter.returned \ {s[k]}
    BY <2>1, <2>3 DEF IterD
  <2>7. Exact(t, iter')
    BY <1>0, <2>1, <2>3, <2>4, <2>6, ExactRemove
  <2> HIDE DEF t
  <2>8. Doubly!Order' = t
    BY <2>5, OrderNext
  <2> QED BY <2>7, <2>8 DEF IterInv
<1>8. CASE UNCHANGED <<list, heap, iter>>
  BY <1>0, <1>2, <1>8
<1>9. ASSUME NEW c \in Cell, NEW v \in Value, Doubly!Prepend(c, v) PROVE IterInv'
  BY <1>1, <1>9 DEF Doubly!Prepend
<1>10. ASSUME NEW d \in Value, Doubly!RemoveData(d) PROVE IterInv'
  BY <1>1, <1>10 DEF Doubly!RemoveData
<1>11. CASE Doubly!Sort
  BY <1>1, <1>11 DEF Doubly!Sort
<1>12. CASE Doubly!Free
  BY <1>1, <1>12 DEF Doubly!Free
<1> QED BY <1>3, <1>4, <1>5, <1>6, <1>7, <1>8, <1>9, <1>10, <1>11, <1>12
        DEF Doubly!Next, Doubly!InsertFails, Doubly!RemoveNothing

\* Every step of the singly linked list keeps its iterator exact.
LEMMA SinglyExact ==
  ASSUME NEW s, SOK(list, heap, s), iter \in IterS, Anchored, IterInv, Singly!Next
  PROVE  IterInv'
<1>0. /\ Doubly!Order = s /\ Chain(heap, list, s) /\ Range(s) = DOMAIN heap
      /\ DOMAIN heap \subseteq Cell /\ NULL \notin Range(s) /\ ROOT \notin Range(s)
      /\ s \in Seq(DOMAIN heap) /\ Len(s) \in Nat
      /\ \A i, j \in 1 .. Len(s) : s[i] = s[j] => i = j
      /\ iter.active => Exact(s, iter)
  BY OrderNow, SCore DEF IterInv
<1>1. ASSUME iter' = Singly!NoIterator PROVE IterInv'
  BY <1>1, NoIteratorTyped DEF IterInv
<1>2. ASSUME UNCHANGED <<list, heap>>, ~iter'.active \/ Exact(s, iter') PROVE IterInv'
  <2>1. Doubly!Order' = s
    BY <1>0, <1>2 DEF Doubly!Order
  <2> QED BY <1>2, <2>1 DEF IterInv
<1>3. ASSUME NEW c \in Cell, NEW v \in Value, Singly!AppendEntry(c, v) PROVE IterInv'
  <2>1. iter' = iter
    BY <1>3 DEF Singly!AppendEntry
  <2> DEFINE t == Glue(s, <<c>>)
  <2>2. SOK(list', heap', t)
    BY <1>3, AppendS
  <2>3. iter.active => Exact(t, iter)
    BY <1>0, ExactAppend
  <2> HIDE DEF t
  <2>4. Doubly!Order' = t
    BY <2>2, OrderNext
  <2> QED BY <2>1, <2>3, <2>4 DEF IterInv
<1>4. ASSUME NEW c \in Cell, Singly!RemoveEntry(c) PROVE IterInv'
  <2>1. /\ c \in DOMAIN heap
        /\ iter.active => c # iter.prev_next /\ c # iter.current
        /\ iter' = [iter EXCEPT !.returned = @ \ {c}]
    BY <1>4 DEF Singly!RemoveEntry
  <2>2. PICK k \in 1 .. Len(s) : c = s[k]
    BY <2>1, SAt
  <2> DEFINE t == Cut(s, k)
  <2>3. SOK(list', heap', t)
    BY <1>4, <2>2, RemoveEntryS
  <2>4. /\ iter'.active = iter.active /\ iter'.prev_next = iter.prev_next
        /\ iter'.current = iter.current /\ iter'.returned = iter.returned \ {s[k]}
    BY <2>1, <2>2 DEF IterS
  <2>5. iter.active => Exact(t, iter')
    BY <1>0, <2>1, <2>2, <2>4, ExactCut
  <2> HIDE DEF t
  <2>6. Doubly!Order' = t
    BY <2>3, OrderNext
  <2> QED BY <2>4, <2>5, <2>6 DEF IterInv
<1>5. CASE Singly!Iterate
  <2>1. UNCHANGED <<list, heap>>
        /\ iter' = [Singly!NoIterator EXCEPT !.active = TRUE, !.prev_next = ROOT]
    BY <1>5 DEF Singly!Iterate
  <2>2. iter'.prev_next = ROOT /\ iter'.current = NULL /\ iter'.returned = {}
    BY <2>1 DEF Singly!NoIterator
  <2>3. Exact(s, iter')
    BY <1>0, <2>2, ExactStart
  <2> QED BY <1>2, <2>1, <2>3
<1>6. CASE Singly!IterNext
  <2> DEFINE link == IF Singly!AtCurrent THEN iter.current ELSE iter.prev_next
  <2>1. /\ UNCHANGED <<list, heap>> /\ iter.active
        /\ iter' = [iter EXCEPT !.prev_next = link, !.current = Singly!Upcoming,
                          !.returned = @ \cup ({Singly!Upcoming} \ {NULL})]
    BY <1>6 DEF Singly!IterNext
  <2>2. PICK k \in 1 .. Len(s) + 1 : Position(s, k)
    BY <1>0, <2>1, PositionExists
  <2>3. PICK j \in 0 .. Len(s), m \in 0 .. Len(s) : At(s, iter, j, m)
    BY <1>0, <2>1 DEF Exact
  <2>4. (Singly!AtCurrent <=> m = j + 1) /\ Singly!Upcoming = NthOf(s, m + 1)
    BY <1>0, <2>2, <2>3, AtUpcoming
  <2>5. link = IF m = j + 1 THEN iter.current ELSE iter.prev_next
    BY <2>4
  <2> HIDE DEF link
  <2>6. /\ iter'.prev_next = link /\ iter'.current = Singly!Upcoming
        /\ iter'.returned = iter.returned \cup ({Singly!Upcoming} \ {NULL})
    BY <2>1 DEF IterS
  <2>7. Exact(s, iter')
    BY <1>0, <2>1, <2>3, <2>4, <2>5, <2>6, ExactNext
  <2> QED BY <1>2, <2>1, <2>7
<1>7. CASE Singly!IterRemove
  <2>1. /\ iter.active /\ Singly!AtCurrent
        /\ iter' = [iter EXCEPT !.current = NULL, !.returned = @ \ {iter.current}]
    BY <1>7 DEF Singly!IterRemove, Singly!CurrentAfterRemove
  <2>2. PICK k \in 1 .. Len(s) + 1 : Position(s, k)
    BY <1>0, <2>1, PositionExists
  <2>3. k \in 1 .. Len(s) /\ iter.current = s[k]
    BY <1>0, <2>1, <2>2, AtCurrentIs
  <2>4. iter.prev_next = IF k = 1 THEN ROOT ELSE s[k - 1]
    BY <2>2 DEF Position
  <2> DEFINE t == Cut(s, k)
  <2>5. SOK(list', heap', t)
    BY <1>7, <2>3, <2>4, IterRemoveS
  <2>6. /\ iter'.prev_next = iter.prev_next
        /\ iter'.current = NULL /\ iter'.returned = iter.returned \ {s[k]}
    BY <2>1, <2>3 DEF IterS
  <2>7. Exact(t, iter')
    BY <1>0, <2>1, <2>3, <2>4, <2>6, ExactRemove
  <2> HIDE DEF t
  <2>8. Doubly!Order' = t
    BY <2>5, OrderNext
  <2> QED BY <2>7, <2>8 DEF IterInv
<1>8. CASE UNCHANGED <<list, heap, iter>>
  BY <1>0, <1>2, <1>8
<1>9. ASSUME NEW c \in Cell, NEW v \in Value, Singly!Prepend(c, v) PROVE IterInv'
  BY <1>1, <1>9 DEF Singly!Prepend
<1>10. ASSUME NEW d \in Value, Singly!RemoveData(d) PROVE IterInv'
  BY <1>1, <1>10 DEF Singly!RemoveData
<1>11. CASE Singly!Sort
  BY <1>1, <1>11 DEF Singly!Sort
<1>12. CASE Singly!Free
  BY <1>1, <1>12 DEF Singly!Free
<1> QED BY <1>3, <1>4, <1>5, <1>6, <1>7, <1>8, <1>9, <1>10, <1>11, <1>12
        DEF Singly!Next, Singly!InsertFails, Singly!RemoveNothing

\* Every step keeps the iterators exact.
LEMMA IterInvKept ==
  ASSUME DropsCurrent = FALSE, ListsInv, IterInv,
         [ListsNext]_<<links, stackVars, kind>>
  PROVE  IterInv'
<1>0. /\ kind \in Kinds /\ Anchored
      /\ kind = "doubly" => iter \in IterD /\ \E s : DOK(list, heap, s)
      /\ kind \in {"singly", "lstack"} => iter \in IterS /\ \E s : SOK(list, heap, s)
  BY DEF ListsInv
<1>1. ASSUME UNCHANGED <<list, heap, iter>> PROVE IterInv'
  BY <1>1 DEF IterInv, Doubly!Order
<1>2. CASE kind = "doubly" /\ Doubly!Next
  <2>1. PICK s : DOK(list, heap, s)
    BY <1>0, <1>2
  <2> QED BY <1>0, <1>2, <2>1, DoublyExact
<1>3. CASE kind \in {"singly", "lstack"} /\ Singly!Next
  <2>1. PICK s : SOK(list, heap, s)
    BY <1>0, <1>3
  <2> QED BY <1>0, <1>3, <2>1, SinglyExact
<1>4. CASE kind = "lstack" /\ Singly!StackNext
  <2>1. PICK s : SOK(list, heap, s)
    BY <1>0, <1>4
  <2>2. Singly!Next \/ UNCHANGED <<list, heap, iter, returned>>
    BY <1>4, <2>1, StackCallsS
  <2> QED BY <1>1, <1>3, <1>4, <2>2
<1>5. CASE UNCHANGED links
  BY <1>1, <1>5 DEF links
<1> QED BY <1>2, <1>3, <1>4, <1>5 DEF ListsNext

\* An exact iterator is one the runs call exact.
LEMMA IterInvMeans == ASSUME ListsInv, IterInv PROVE ListsIterationExact
<1>1. CASE ~iter.active
  BY <1>1 DEF ListsIterationExact, Doubly!IterationExact, Singly!IterationExact
<1>2. CASE iter.active
  <2>1. PICK s : DOK(list, heap, s) \/ SOK(list, heap, s)
    BY <1>2, KindCases DEF ListsInv
  <2>2. /\ Doubly!Order = s /\ Singly!Order = s /\ Chain(heap, list, s)
        /\ Range(s) = DOMAIN heap /\ DOMAIN heap \subseteq Cell
    BY <2>1, OrderNow
  <2>3. Exact(s, iter) /\ Anchored
    BY <1>2, <2>2 DEF IterInv, ListsInv
  <2>4. PICK j \in 0 .. Len(s), m \in 0 .. Len(s) : At(s, iter, j, m)
    BY <2>3 DEF Exact
  <2>5. PICK k \in 1 .. Len(s) + 1 : Position(s, k)
    BY <1>2, <2>2, <2>3, PositionExists
  <2>6. Doubly!Upcoming = NthOf(s, m + 1) /\ Singly!Upcoming = NthOf(s, m + 1)
    BY <2>2, <2>4, <2>5, AtUpcoming
  <2>7. NthOf(s, m + 1) = IF m < Len(s) THEN s[m + 1] ELSE NULL
    <3>1. Len(s) \in Nat
      BY <2>2, ChainFacts
    <3>2. m + 1 \in 1 .. Len(s) <=> m < Len(s)
      BY <3>1
    <3> QED BY <3>2 DEF NthOf
  <2>8. /\ Doubly!Upcoming = Doubly!NthEntry(m)
        /\ Singly!Upcoming = Singly!NthEntry(m)
    BY <2>2, <2>6, <2>7
       DEF Doubly!NthEntry, Doubly!Length, Singly!NthEntry, Singly!Length
  <2>9. iter.returned = {s[i] : i \in 1 .. m}
    BY <2>4 DEF At
  <2>10. iter.prev_next \in {ROOT} \cup DOMAIN heap
    BY <1>2, <2>3 DEF Anchored
  <2>11. m \in 0 .. Doubly!Length /\ m \in 0 .. Singly!Length
    BY <2>2 DEF Doubly!Length, Singly!Length
  <2> QED BY <2>2, <2>8, <2>9, <2>10, <2>11
          DEF ListsIterationExact, Doubly!IterationExact, Singly!IterationExact
<1> QED BY <1>1, <1>2

(* As long as the caller leaves the iterator's current entry alone, an     *)
(* iterator of either list returns every entry once and in order, whatever *)
(* the caller removes and appends on the way.                              *)
THEOREM ListsIterateExactly ==
  ASSUME DropsCurrent = FALSE PROVE ListsSpec => []ListsIterationExact
<1>1. ListsInit => ListsInv /\ IterInv
  <2>1. ASSUME ListsInit PROVE IterInv
    <3>1. ~iter.active
      BY <2>1, NoIteratorTyped DEF ListsInit, Doubly!Init, Singly!StackInit, Singly!Init
    <3> QED BY <3>1 DEF IterInv
  <2> QED BY <2>1, ListsInitInv
<1>2. ListsInv /\ [ListsNext]_<<links, stackVars, kind>> => ListsInv'
  BY ListsNextInv
<1>3. ListsInv /\ IterInv /\ [ListsNext]_<<links, stackVars, kind>> => IterInv'
  BY IterInvKept
<1>4. ListsInv /\ IterInv => ListsIterationExact
  BY IterInvMeans
<1> QED BY <1>1, <1>2, <1>3, <1>4, PTL DEF ListsSpec

\* The values of a list from the last to the first.
LEMMA ReverseIs ==
  ASSUME NEW S, NEW w \in Seq(S)
  PROVE  /\ Reverse(w) \in Seq(S)
         /\ Len(Reverse(w)) = Len(w)
         /\ \A i \in 1 .. Len(w) : Reverse(w)[i] = w[(Len(w) - i) + 1]
<1> DEFINE n == Len(w)
           f == [i \in 1 .. n |-> w[(n - i) + 1]]
<1>1. n \in Nat /\ \A i \in 1 .. n : w[i] \in S
  BY SeqIs
<1>2. \A i \in 1 .. n : (n - i) + 1 \in 1 .. n
  BY <1>1
<1>3. f \in [1 .. n -> S]
  BY <1>1, <1>2
<1>4. Reverse(w) = f
  BY DEF Reverse
<1>5. \A i \in 1 .. n : f[i] = w[(n - i) + 1]
  OBVIOUS
<1> HIDE DEF f
<1>6. f \in Seq(S) /\ Len(f) = n
  BY <1>1, <1>3, SeqMade
<1> QED BY <1>4, <1>5, <1>6

ReversesAhead(w, v) == Reverse(Ahead(v, w)) = Append(Reverse(w), v)

\* A value in front of w comes last in its reverse.
LEMMA ReverseAhead ==
  ASSUME NEW S, NEW w \in Seq(S), NEW v \in S
  PROVE  ReversesAhead(w, v)
<1> DEFINE a1 == Ahead(v, w)
           n == Len(w)
           r == Reverse(w)
           t == Reverse(a1)
           u == Append(r, v)
<1>1. IsAhead(S, v, w)
  BY AheadFacts
<1>2. /\ a1 \in Seq(S) /\ Len(a1) = n + 1 /\ a1[1] = v
      /\ \A i \in 2 .. n + 1 : a1[i] = w[i - 1]
  BY <1>1 DEF IsAhead
<1> HIDE DEF a1
<1>3. n \in Nat
  BY SeqIs
<1>4. /\ r \in Seq(S) /\ Len(r) = n
      /\ \A i \in 1 .. n : r[i] = w[(n - i) + 1]
  BY ReverseIs
<1>5. /\ t \in Seq(S) /\ Len(t) = n + 1
      /\ \A i \in 1 .. n + 1 : t[i] = a1[((n + 1) - i) + 1]
  <2>1. /\ t \in Seq(S) /\ Len(t) = Len(a1)
        /\ \A i \in 1 .. Len(a1) : t[i] = a1[(Len(a1) - i) + 1]
    BY <1>2, ReverseIs
  <2> HIDE DEF t, n
  <2> QED BY <1>2, <2>1
<1> HIDE DEF r, t, n
<1>6. /\ u \in Seq(S) /\ Len(u) = n + 1
      /\ \A i \in 1 .. n : u[i] = r[i]
      /\ u[n + 1] = v
  BY <1>4, AppendProperties
<1> HIDE DEF u
<1>7. ASSUME NEW i \in 1 .. n + 1 PROVE t[i] = u[i]
  <2>1. CASE i = n + 1
    <3>1. ((n + 1) - i) + 1 = 1
      BY <1>3, <2>1
    <3> QED BY <1>2, <1>5, <1>6, <2>1, <3>1
  <2>2. CASE i # n + 1
    <3> DEFINE k == ((n + 1) - i) + 1
    <3>1. i \in 1 .. n /\ k \in 2 .. n + 1 /\ k - 1 = (n - i) + 1
      BY <1>3, <2>2
    <3> HIDE DEF k
    <3>2. t[i] = a1[k]
      BY <1>5 DEF k
    <3> QED BY <1>2, <1>4, <1>6, <3>1, <3>2
  <2> QED BY <2>1, <2>2
<1>8. t = u
  BY <1>5, <1>6, <1>7, SeqEqual
<1> QED BY <1>8 DEF t, u, r, a1, ReversesAhead

PopsReverse(w) ==
  /\ Reverse(w) # <<>>
  /\ Last(Reverse(w)) = w[1]
  /\ Reverse(RemoveAt(w, 1)) = Front(Reverse(w))

\* The first value of w is the last of its reverse.
LEMMA ReversePop ==
  ASSUME NEW S, NEW w \in Seq(S), w # <<>>
  PROVE  PopsReverse(w)
<1> DEFINE n == Len(w)
           c == Cut(w, 1)
           r == Reverse(w)
           t == Reverse(c)
           u == SubSeq(r, 1, n - 1)
<1>1. n \in Nat /\ n # 0 /\ n - 1 \in Nat
  <2>1. Len(w) \in Nat /\ Len(w) # 0
    BY SeqIs, EmptySeq
  <2> HIDE DEF n
  <2>2. n \in Nat /\ n # 0
    BY <2>1 DEF n
  <2> QED BY <2>2
<1>2. 1 \in 1 .. Len(w)
  <2> HIDE DEF n
  <2>1. 1 \in 1 .. n
    BY <1>1
  <2> QED BY <2>1 DEF n
<1>3. /\ c \in Seq(S) /\ Len(c) = n - 1 /\ c = RemoveAt(w, 1)
      /\ \A i \in 1 .. n - 1 : c[i] = IF i < 1 THEN w[i] ELSE w[i + 1]
  BY <1>2, CutFacts
<1>4. /\ r \in Seq(S) /\ Len(r) = n
      /\ \A i \in 1 .. n : r[i] = w[(n - i) + 1]
  BY ReverseIs
<1> HIDE DEF c
<1>5. /\ t \in Seq(S) /\ Len(t) = n - 1
      /\ \A i \in 1 .. n - 1 : t[i] = c[((n - 1) - i) + 1]
  <2>1. /\ t \in Seq(S) /\ Len(t) = Len(c)
        /\ \A i \in 1 .. Len(c) : t[i] = c[(Len(c) - i) + 1]
    BY <1>3, ReverseIs
  <2> HIDE DEF t, n
  <2> QED BY <1>3, <2>1
<1> HIDE DEF r, t, n
<1>6. /\ u \in Seq(S) /\ Len(u) = n - 1
      /\ \A i \in 1 .. n - 1 : u[i] = r[i]
  <2>1. \A i \in 1 .. n - 1 : r[i] \in S
    <3>1. \A i \in 1 .. n - 1 : i \in 1 .. n
      BY <1>1
    <3> QED BY <1>4, <3>1, SeqIs
  <2> DEFINE f == [i \in 1 .. n - 1 |-> r[i]]
  <2>2. f \in [1 .. n - 1 -> S]
    BY <2>1
  <2>3. u = f
    <3>1. 1 .. (n - 1) - 1 + 1 = 1 .. n - 1 /\ \A i \in 1 .. n - 1 : 1 + i - 1 = i
      BY <1>1
    <3> QED BY <1>1, <1>4, <3>1
  <2>4. \A i \in 1 .. n - 1 : f[i] = r[i]
    OBVIOUS
  <2> HIDE DEF f, u
  <2>5. f \in Seq(S) /\ Len(f) = n - 1
    BY <1>1, <2>2, SeqMade
  <2> QED BY <2>3, <2>4, <2>5
<1> HIDE DEF u
<1>7. ASSUME NEW i \in 1 .. n - 1 PROVE t[i] = u[i]
  <2> DEFINE k == ((n - 1) - i) + 1
  <2>1. k \in 1 .. n - 1 /\ ~(k < 1) /\ k + 1 = (n - i) + 1 /\ i \in 1 .. n
    BY <1>1
  <2> HIDE DEF k
  <2>2. t[i] = c[k]
    BY <1>5 DEF k
  <2> QED BY <1>3, <1>4, <1>6, <2>1, <2>2
<1>8. t = u
  BY <1>1, <1>5, <1>6, <1>7, SeqEqual
<1>9. r # <<>> /\ r[n] = w[1]
  <2>1. n \in 1 .. n /\ (n - n) + 1 = 1
    BY <1>1
  <2> QED BY <1>1, <1>4, <2>1
<1>10. Last(r) = w[1]
  BY <1>4, <1>9 DEF Last
<1>11. Front(r) = u
  BY <1>4 DEF Front, u
<1> QED BY <1>3, <1>8, <1>9, <1>10, <1>11 DEF t, r, PopsReverse

\* The step of a stack that holds w from its top down.
Turns(w, u) == Pushed = Reverse(w) /\ Pushed' = Reverse(u) /\ Answer = popped /\ Answer' = popped'

\* Nothing reversed.
LEMMA EmptyReverse == Reverse(<<>>) = <<>>
BY DEF Reverse

\* What the stack made of a linked list reads.
LEMMA TopIsFirst ==
  ASSUME NEW s, SOK(list, heap, s)
  PROVE  /\ Vals(heap, s) \in Seq(Value)
         /\ list = NULL => Vals(heap, s) = <<>> /\ Singly!FirstData = NULL
         /\ list # NULL => /\ Vals(heap, s) # <<>> /\ 1 \in 1 .. Len(s) /\ list = s[1]
                           /\ Singly!FirstData = Vals(heap, s)[1]
<1>1. /\ s \in Seq(DOMAIN heap) /\ Len(s) \in Nat
      /\ list = NULL <=> Len(s) = 0
      /\ list # NULL => list = s[1]
  BY PartStart DEF SOK, SHeap
<1>2. \A x \in DOMAIN heap : heap[x].data \in Value
  BY SFields DEF SOK
<1>3. /\ Vals(heap, s) \in Seq(Value)
      /\ Len(Vals(heap, s)) = Len(s)
      /\ \A i \in 1 .. Len(s) : Vals(heap, s)[i] = heap[s[i]].data
  BY <1>1, <1>2, ValsSeq
<1>4. Vals(heap, s) = <<>> <=> Len(s) = 0
  BY <1>3, EmptySeq
<1>5. Len(s) # 0 => 1 \in 1 .. Len(s)
  BY <1>1
<1> QED BY <1>1, <1>3, <1>4, <1>5 DEF Singly!FirstData

\* What the two variables of the abstract stack are, of lstack.c.
LEMMA LStackTurns ==
  ASSUME kind = "lstack", kind' = kind,
         NEW s, SOK(list, heap, s), NEW t, SOK(list', heap', t)
  PROVE  Turns(Vals(heap, s), Vals(heap', t))
<1>1. Doubly!Contents = Vals(heap, s) /\ Doubly!Contents' = Vals(heap', t)
  BY ContentsAre, ContentsAreNext
<1> QED BY <1>1 DEF Turns, Pushed, Answer

\* lstack_pop is the pop of a stack.
LEMMA LStackPop ==
  ASSUME kind = "lstack", kind' = kind, NEW s, SOK(list, heap, s), Singly!Pop
  PROVE  Stacks!Pop
<1> DEFINE w == Vals(heap, s)
<1>1. popped' = Singly!FirstData /\ w \in Seq(Value)
  BY TopIsFirst DEF Singly!Pop
<1>2. CASE list = NULL
  <2>1. UNCHANGED <<list, heap>>
    BY <1>2 DEF Singly!Pop, Singly!RemoveNothing
  <2>2. Turns(w, w)
    <3>1. SOK(list', heap', s) /\ Vals(heap', s) = w
      BY <2>1
    <3> QED BY <3>1, LStackTurns
  <2>3. w = <<>> /\ popped' = NULL
    BY <1>1, <1>2, TopIsFirst
  <2>4. Reverse(w) = <<>>
    BY <2>3, EmptyReverse
  <2> QED BY <2>2, <2>3, <2>4 DEF Turns, Stacks!Pop, Stacks!TopOfItems
<1>3. CASE list # NULL
  <2> DEFINE u == Vals(heap', Cut(s, 1))
  <2>1. w # <<>> /\ 1 \in 1 .. Len(s) /\ list = s[1] /\ popped' = w[1]
    BY <1>1, <1>3, TopIsFirst
  <2>2. Singly!RemoveEntry(s[1])
    BY <1>3, <2>1 DEF Singly!Pop
  <2>3. SOK(list', heap', Cut(s, 1)) /\ u = RemoveAt(w, 1)
    BY <2>1, <2>2, RemoveEntryS
  <2>4. Turns(w, u)
    BY <2>3, LStackTurns
  <2>5. PopsReverse(w)
    BY <1>1, <2>1, ReversePop
  <2> HIDE DEF w, u
  <2> DEFINE r == Reverse(w)
  <2>6. r # <<>> /\ Last(r) = w[1] /\ Reverse(u) = Front(r)
    BY <2>3, <2>5 DEF PopsReverse
  <2>7. Pushed = r /\ Pushed' = Reverse(u) /\ Answer' = popped'
    BY <2>4 DEF Turns
  <2> HIDE DEF r
  <2> QED BY <2>1, <2>6, <2>7 DEF Stacks!Pop, Stacks!TopOfItems, Last, Front
<1> QED BY <1>2, <1>3

\* Every call of lstack.c is one of a stack.
LEMMA LStackStep ==
  ASSUME kind = "lstack", kind' = kind, NEW s, SOK(list, heap, s), Singly!StackNext
  PROVE  Stacks!Next \/ UNCHANGED Stacks!vars
<1> DEFINE w == Vals(heap, s)
<1>0. w \in Seq(Value)
  BY TopIsFirst
<1>1. ASSUME NEW c \in Cell, NEW v \in Value, Singly!Push(c, v) PROVE Stacks!Push(v)
  <2> DEFINE u == Vals(heap', Ahead(c, s))
  <2>1. Singly!Prepend(c, v) /\ popped' = popped
    BY <1>1 DEF Singly!Push
  <2>2. SOK(list', heap', Ahead(c, s)) /\ u = <<v>> \o w
    BY <2>1, PrependS
  <2>3. Turns(w, u)
    BY <2>2, LStackTurns
  <2> HIDE DEF u, w
  <2>4. ReversesAhead(w, v)
    BY <1>0, ReverseAhead
  <2>5. Reverse(u) = Append(Reverse(w), v)
    BY <2>2, <2>4 DEF ReversesAhead, Ahead, Glue
  <2> QED BY <2>1, <2>3, <2>5 DEF Turns, Stacks!Push
<1>2. ASSUME UNCHANGED <<list, heap>> PROVE Turns(w, w)
  <2>1. SOK(list', heap', s) /\ Vals(heap', s) = w
    BY <1>2
  <2> QED BY <2>1, LStackTurns
<1>3. CASE Singly!PushFails
  BY <1>2, <1>3 DEF Singly!PushFails, Singly!InsertFails, Turns, Stacks!vars
<1>4. CASE Singly!Pop
  BY <1>4, LStackPop DEF Stacks!Next
<1>5. CASE Singly!Peek
  <2>1. UNCHANGED <<list, heap>> /\ popped' = Singly!FirstData
    BY <1>5 DEF Singly!Peek, Singly!vars
  <2>2. Pushed = Reverse(w) /\ Pushed' = Pushed /\ Answer' = popped'
    BY <1>2, <2>1 DEF Turns
  <2>3. popped' = Stacks!TopOfItems
    <3>1. CASE list = NULL
      <4>1. w = <<>> /\ popped' = NULL
        BY <2>1, <3>1, TopIsFirst
      <4> QED BY <2>2, <4>1, EmptyReverse DEF Stacks!TopOfItems
    <3>2. CASE list # NULL
      <4>1. w # <<>> /\ popped' = w[1]
        BY <2>1, <3>2, TopIsFirst
      <4> HIDE DEF w
      <4>2. PopsReverse(w)
        BY <1>0, <4>1, ReversePop
      <4> DEFINE r == Reverse(w)
      <4>3. r # <<>> /\ Last(r) = w[1] /\ Pushed = r
        BY <2>2, <4>2 DEF PopsReverse
      <4> HIDE DEF r
      <4> QED BY <4>1, <4>3 DEF Stacks!TopOfItems, Last
    <3> QED BY <3>1, <3>2
  <2> QED BY <2>2, <2>3 DEF Stacks!Next, Stacks!Peek
<1>6. CASE Singly!Free /\ UNCHANGED popped
  <2>1. SOK(list', heap', <<>>)
    BY <1>6, FreeS
  <2>2. Turns(w, Vals(heap', <<>>))
    BY <2>1, LStackTurns
  <2>3. Vals(heap', <<>>) = <<>>
    BY DEF Vals
  <2>4. Pushed' = <<>> /\ Answer' = Answer
    BY <1>6, <2>2, <2>3, EmptyReverse DEF Turns
  <2> QED BY <2>4 DEF Stacks!Next, Stacks!Destroy
<1> QED BY <1>1, <1>3, <1>4, <1>5, <1>6 DEF Singly!StackNext, Stacks!Next

\* The stack made of a growing array, seen as one of the two.
LEMMA SeqStackTurns ==
  ASSUME kind = "seqstack", kind' = kind, SeqStackStep
  PROVE  [Stacks!Next]_(Stacks!vars) /\ (Pop => Stacks!Pop)
<1>1. /\ Pushed = Contents /\ Pushed' = Contents'
      /\ Answer = top /\ Answer' = top'
  BY DEF Pushed, Answer
<1> DEFINE r == Contents
<1> HIDE DEF r
<1>2. Pushed = r /\ Contents = r
  BY <1>1 DEF r
<1>3. Stacks!TopOfItems = Stack!TopOfItems
  BY <1>1, <1>2 DEF Stacks!TopOfItems, Stack!TopOfItems
<1>4. Stack!Pop => Stacks!Pop
  BY <1>1, <1>2, <1>3 DEF Stacks!Pop, Stack!Pop
<1>5. Stack!Peek => Stacks!Peek
  BY <1>1, <1>3 DEF Stacks!Peek, Stack!Peek
<1>6. Stack!Destroy => Stacks!Destroy
  BY <1>1 DEF Stacks!Destroy, Stack!Destroy
<1>7. ASSUME NEW v \in Value, Stack!Push(v) PROVE Stacks!Push(v)
  BY <1>1, <1>7 DEF Stacks!Push, Stack!Push
<1>8. UNCHANGED Stack!vars => UNCHANGED Stacks!vars
  BY <1>1 DEF Stacks!vars, Stack!vars
<1> QED BY <1>4, <1>5, <1>6, <1>7, <1>8 DEF SeqStackStep, Stack!Next, Stacks!Next

\* Both stacks are empty at first.
LEMMA StacksInit ==
  ASSUME ListsInit PROVE Stacks!Init
<1>1. CASE kind = "seqstack"
  <2>1. Contents = <<>> /\ top = NULL
    BY EmptyStored, Quiet DEF ListsInit, StackInit, Init, Sorting, Parting
  <2> QED BY <1>1, <2>1 DEF Stacks!Init, Pushed, Answer
<1>2. CASE kind # "seqstack"
  <2>1. list = NULL /\ heap = Doubly!NoHeap /\ popped = NULL
    BY DEF ListsInit, Doubly!Init, Singly!StackInit, Singly!Init,
           Doubly!NoHeap, Singly!NoHeap
  <2>2. Doubly!Contents = Vals(heap, <<>>)
    BY <2>1, EmptyD, ContentsAre
  <2>3. Vals(heap, <<>>) = <<>>
    BY DEF Vals
  <2> QED BY <1>2, <2>1, <2>2, <2>3, EmptyReverse DEF Stacks!Init, Pushed, Answer
<1> QED BY <1>1, <1>2

\* Every step of either stack is a step of a stack.
LEMMA ListsNextStack ==
  ASSUME ReadsEmpty = FALSE, ListsInv, ListsInv',
         [ListsNext]_<<links, stackVars, kind>>
  PROVE  [StackStep]_<<links, stackVars>>
<1>1. CASE UNCHANGED <<links, stackVars, kind>>
  BY <1>1
<1>2. CASE ListsNext /\ kind = "seqstack"
  <2>1. StackNext /\ kind' = kind
    BY <1>2 DEF ListsNext
  <2>2. IInv /\ IInv'
    BY DEF ListsInv
  <2>3. SeqStackStep
    BY <2>1, <2>2, ArrayAssumption, NextIsStackStep
  <2>4. [Stacks!Next]_(Stacks!vars) /\ (Pop => Stacks!Pop)
    BY <1>2, <2>1, <2>3, SeqStackTurns
  <2> QED BY <1>2, <2>4 DEF StackStep, PopCall
<1>3. CASE ListsNext /\ kind = "lstack"
  <2>1. Singly!StackNext /\ kind' = kind
    BY <1>3 DEF ListsNext
  <2>2. PICK s : SOK(list, heap, s)
    BY <1>3 DEF ListsInv
  <2>3. [Stacks!Next]_(Stacks!vars)
    BY <1>3, <2>1, <2>2, LStackStep
  <2>4. Singly!Pop => Stacks!Pop
    BY <1>3, <2>1, <2>2, LStackPop
  <2> QED BY <1>3, <2>3, <2>4 DEF StackStep, PopCall
<1>4. CASE ListsNext /\ kind \notin {"lstack", "seqstack"}
  BY <1>4 DEF StackStep
<1> QED BY <1>1, <1>2, <1>3, <1>4

(* As long as nobody reads an empty stack of seqstack.c, each of the two   *)
(* stacks gives back the values in the reverse of the order in which they  *)
(* were pushed, and every pop takes the one it returns away.               *)
THEOREM StacksAreStacks ==
  ASSUME ReadsEmpty = FALSE PROVE ListsSpec => StacksImplementStack
<1>1. ListsInit => ListsInv /\ Stacks!Init
  BY ListsInitInv, StacksInit
<1>2. ListsInv /\ [ListsNext]_<<links, stackVars, kind>> => ListsInv'
  BY ListsNextInv
<1>3. ListsInv /\ ListsInv' /\ [ListsNext]_<<links, stackVars, kind>>
        => [StackStep]_<<links, stackVars>>
  BY ListsNextStack
<1> QED BY <1>1, <1>2, <1>3, PTL DEF ListsSpec, StacksImplementStack
=============================================================================
