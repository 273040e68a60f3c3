------------------------- MODULE BinaryHeap_proofs -------------------------
(***************************************************************************)
(* Proofs about the binary heap: no slot outside its block is written, its *)
(* values stay in order but around the one on its way, and it implements   *)
(* the abstract priority queue, for every set of values, every initial     *)
(* size and every bound.                                                   *)
(***************************************************************************)
EXTENDS BinaryHeap, FiniteSetTheorems, WellFoundedInduction, TLAPS

(* Which variables are in use when: in particular the slot of a loop is    *)
(* one of the heap, unless the only value was popped.                      *)
Control ==
  /\ heap_type = "none" => num_values = 0 /\ pc = "idle"
  /\ heap_type # "none" => alloced_size > 0
  /\ pc = "idle" => index = 0
  /\ pc = "up" => index < num_values
  /\ pc = "down" => index < num_values \/ index = 0
  /\ pc # "idle" => new_value \in Value

(* The values below the slot of a loop do not come before the one above:   *)
(* where a loop passes a value on it leaves order behind.                  *)
Passed ==
  pc # "idle" /\ index > 0 =>
    \A i \in 1 .. num_values - 1 :
      Parent(i) = index => Cmp(Content(Parent(index)), Content(i)) <= 0

Inv == TypeOK /\ Control
IInv == Inv /\ HeapOrdered /\ Passed

-----------------------------------------------------------------------------
(* The slots of a complete tree. *)
LEMMA ParentBelow ==
  ASSUME NEW i \in Nat, i > 0
  PROVE  /\ Parent(i) \in Nat
         /\ Parent(i) < i
         /\ i = Child1(Parent(i)) \/ i = Child2(Parent(i))
BY DEF Parent, Child1, Child2

LEMMA ChildAbove ==
  ASSUME NEW i \in Nat
  PROVE  /\ Child1(i) \in Nat /\ Child2(i) \in Nat
         /\ Child1(i) > i /\ Child2(i) > i
         /\ Parent(Child1(i)) = i /\ Parent(Child2(i)) = i
BY DEF Parent, Child1, Child2

-----------------------------------------------------------------------------
LEMMA InitInv == Init => IInv
<1> SUFFICES ASSUME Init PROVE IInv
  OBVIOUS
<1>1. TypeOK
  BY DEF Init, TypeOK, NoValues
<1>2. 1 .. num_values - 1 = {}
  BY DEF Init
<1>3. HeapOrdered /\ Passed /\ Control
  BY <1>2 DEF Init, HeapOrdered, Passed, Control
<1> QED BY <1>1, <1>3 DEF IInv, Inv

(* A loop stores into the block. *)
LEMMA IndexInBlock ==
  ASSUME Inv, pc # "idle"
  PROVE  index \in DOMAIN values /\ index \in 0 .. alloced_size - 1
BY DEF Inv, TypeOK, Control

(* The child at which the loop down goes on: one that comes before the     *)
(* value on its way and not after its sibling.                             *)
LEMMA NextDownIs ==
  ASSUME Inv, pc = "down", Sinks(Child1(index)) \/ Sinks(Child2(index))
  PROVE  /\ NextDown \in 0 .. num_values - 1
         /\ Parent(NextDown) = index
         /\ NextDown > index
         /\ Cmp(Content(NextDown), new_value) <= 0
         /\ \A i \in 1 .. num_values - 1 :
              Parent(i) = index => Cmp(Content(NextDown), Content(i)) <= 0
<1>1. index \in Nat /\ num_values \in Nat
  BY DEF Inv, TypeOK
<1>2. /\ Child1(index) \in Nat /\ Child2(index) \in Nat
      /\ Child1(index) > index /\ Child2(index) > index
      /\ Parent(Child1(index)) = index /\ Parent(Child2(index)) = index
  BY <1>1, ChildAbove
<1>3. NextDown \in {Child1(index), Child2(index)} /\ NextDown < num_values
  BY <1>1, <1>2 DEF NextDown, Sinks
<1>4. /\ \A i \in 0 .. num_values - 1 : Content(i) \in Int
      /\ new_value \in Int
      /\ \A i \in 0 .. num_values - 1 : i # index => Content(i) = values[i]
  BY BinaryHeapAssumption DEF Inv, TypeOK, Control, Content
<1>5. \A i \in 1 .. num_values - 1 :
        Parent(i) = index => i = Child1(index) \/ i = Child2(index)
  BY <1>1, ParentBelow
<1>6. /\ Child1(index) < num_values =>
           Content(Child1(index)) = values[Child1(index)] /\ Content(Child1(index)) \in Int
      /\ Child2(index) < num_values =>
           Content(Child2(index)) = values[Child2(index)] /\ Content(Child2(index)) \in Int
  BY <1>1, <1>2, <1>4
<1>7. Cmp(Content(NextDown), new_value) <= 0
  BY <1>1, <1>2, <1>4, <1>6 DEF NextDown, Sinks, Cmp
<1>8. /\ Child1(index) < num_values => Cmp(Content(NextDown), Content(Child1(index))) <= 0
      /\ Child2(index) < num_values => Cmp(Content(NextDown), Content(Child2(index))) <= 0
  BY <1>1, <1>2, <1>4, <1>6 DEF NextDown, Sinks, Cmp
<1>9. ASSUME NEW i \in 1 .. num_values - 1, Parent(i) = index
      PROVE  Cmp(Content(NextDown), Content(i)) <= 0
  BY <1>1, <1>5, <1>8, <1>9
<1> QED BY <1>1, <1>2, <1>3, <1>7, <1>9

-----------------------------------------------------------------------------
(* What a step does to the values of the heap, wherever they are: the      *)
(* value on its way changes places with another, and nothing else moves.   *)
Swaps(j) ==
  /\ j \in 0 .. num_values - 1
  /\ index \in 0 .. num_values - 1
  /\ j # index
  /\ num_values' = num_values
  /\ \A i \in 0 .. num_values - 1 :
       Content(i)' = IF i = index THEN Content(j)
                     ELSE IF i = j THEN new_value ELSE Content(i)

Keeps ==
  /\ num_values' = num_values
  /\ \A i \in 0 .. num_values - 1 : Content(i)' = Content(i)

Adds(v) ==
  /\ num_values' = num_values + 1
  /\ \A i \in 0 .. num_values :
       Content(i)' = IF i = num_values THEN v ELSE Content(i)

(* The last value is put in the place of the first. *)
TakesFirst ==
  /\ num_values > 0
  /\ num_values' = num_values - 1
  /\ \A i \in 0 .. num_values - 2 :
       Content(i)' = IF i = 0 THEN Content(num_values - 1) ELSE Content(i)

LEMMA MoveUpSwaps ==
  ASSUME Inv, MoveUp
  PROVE  Swaps(Parent(index))
<1>1. /\ index \in 0 .. num_values - 1 /\ index > 0
      /\ index \in DOMAIN values /\ num_values \in Nat
      /\ num_values' = num_values
      /\ pc # "idle" /\ pc' = pc /\ new_value' = new_value
      /\ index' = Parent(index)
      /\ values' = [j \in DOMAIN values \cup {index} |->
                      IF j = index THEN values[Parent(index)] ELSE values[j]]
  BY IndexInBlock DEF Inv, TypeOK, Control, MoveUp, Rises, Store
<1>2. Parent(index) \in 0 .. num_values - 1 /\ Parent(index) # index
  BY <1>1, ParentBelow
<1>3. 0 .. num_values - 1 \subseteq DOMAIN values
  BY DEF Inv, TypeOK
<1>4. ASSUME NEW i \in 0 .. num_values - 1
      PROVE  Content(i)' = IF i = index THEN Content(Parent(index))
                           ELSE IF i = Parent(index) THEN new_value ELSE Content(i)
  BY <1>1, <1>2, <1>3 DEF Content
<1> QED BY <1>1, <1>2, <1>4 DEF Swaps

LEMMA MoveDownSwaps ==
  ASSUME Inv, MoveDown
  PROVE  Swaps(NextDown)
<1>1. /\ pc = "down" /\ pc' = pc /\ new_value' = new_value
      /\ num_values' = num_values
      /\ index' = NextDown
      /\ values' = [j \in DOMAIN values \cup {index} |->
                      IF j = index THEN values[NextDown] ELSE values[j]]
      /\ Sinks(Child1(index)) \/ Sinks(Child2(index))
  BY DEF MoveDown, Store
<1>2. NextDown \in 0 .. num_values - 1 /\ NextDown > index
  BY <1>1, NextDownIs
<1>3. index \in 0 .. num_values - 1
  BY <1>1, <1>2 DEF Inv, TypeOK
<1>4. 0 .. num_values - 1 \subseteq DOMAIN values
  BY DEF Inv, TypeOK
<1> HIDE DEF NextDown
<1>5. ASSUME NEW i \in 0 .. num_values - 1
      PROVE  Content(i)' = IF i = index THEN Content(NextDown)
                           ELSE IF i = NextDown THEN new_value ELSE Content(i)
  BY <1>1, <1>2, <1>3, <1>4 DEF Content
<1> QED BY <1>1, <1>2, <1>3, <1>5 DEF Swaps

LEMMA SettleKeeps ==
  ASSUME Inv, Settle
  PROVE  Keeps
<1>1. /\ pc # "idle" /\ pc' = "idle" /\ num_values' = num_values
      /\ values' = [j \in DOMAIN values \cup {index} |->
                      IF j = index THEN new_value ELSE values[j]]
  BY DEF Settle, Store
<1>2. 0 .. num_values - 1 \subseteq DOMAIN values
  BY DEF Inv, TypeOK
<1> QED BY <1>1, <1>2 DEF Keeps, Content

(* Both ways, the slot of the new value is free: a full array has been     *)
(* enlarged.                                                               *)
LEMMA InsertAdds ==
  ASSUME Inv, NEW v \in Value, Insert(v)
  PROVE  Adds(v) /\ num_values < alloced_size'
<1>1. /\ pc = "idle" /\ pc' = "up" /\ index' = num_values /\ new_value' = v
      /\ num_values' = num_values + 1
  BY DEF Insert, Ready
<1>2. /\ alloced_size \in Nat /\ alloced_size > 0 /\ num_values \in Nat
      /\ num_values <= alloced_size
      /\ DOMAIN values = 0 .. alloced_size - 1
  BY DEF Inv, TypeOK, Control, Insert, Ready
<1>3. num_values < alloced_size'
  <2>1. CASE num_values >= alloced_size
    BY <1>2, <2>1 DEF Insert, Full
  <2>2. CASE num_values < alloced_size
    BY <1>2, <2>2 DEF Insert, Full
  <2> QED BY <1>2, <2>1, <2>2
<1>4. \A i \in 0 .. num_values - 1 : values'[i] = values[i]
  <2>1. CASE Full(num_values, alloced_size)
    <3>1. values' = Enlarged
      BY <2>1 DEF Insert
    <3> QED BY <1>2, <3>1 DEF Enlarged
  <2>2. CASE ~Full(num_values, alloced_size)
    BY <2>2 DEF Insert
  <2> QED BY <2>1, <2>2
<1>5. ASSUME NEW i \in 0 .. num_values
      PROVE  Content(i)' = IF i = num_values THEN v ELSE Content(i)
  BY <1>1, <1>2, <1>4 DEF Content
<1> QED BY <1>1, <1>3, <1>5 DEF Adds

LEMMA PopTakesFirst ==
  ASSUME Inv, Pop
  PROVE  TakesFirst
<1>1. /\ pc = "idle" /\ pc' = "down" /\ index' = 0
      /\ new_value' = values[num_values - 1]
      /\ num_values > 0 /\ num_values' = num_values - 1
      /\ values' = values
  BY DEF Pop, Ready
<1> QED BY <1>1 DEF TakesFirst, Content

-----------------------------------------------------------------------------
(* The types and the use of the variables, one step per action. *)
LEMMA StoreTypes ==
  ASSUME Inv, pc # "idle", NEW v \in Value, Store(index, v),
         alloced_size' = alloced_size
  PROVE  /\ DOMAIN values' = 0 .. alloced_size' - 1
         /\ \A i \in DOMAIN values' : values'[i] \in Value \cup {NULL}
<1>1. index \in DOMAIN values
  BY IndexInBlock
<1> QED BY <1>1 DEF Inv, TypeOK, Store

LEMMA SwapsTypes ==
  ASSUME Inv, NEW j, Swaps(j), pc # "idle"
  PROVE  \A i \in 0 .. num_values' - 1 : Content(i)' \in Value
<1>1. Content(j) \in Value /\ new_value \in Value
  BY DEF Inv, TypeOK, Control, Swaps
<1> QED BY <1>1 DEF Swaps, Inv, TypeOK

LEMMA StepInv ==
  ASSUME Inv, [Next]_vars
  PROVE  Inv'
<1> USE DEF Inv
<1>1. ASSUME NEW t \in {"min", "max"}, New(t) PROVE Inv'
  <2>1. TypeOK'
    <3>1. num_values' = 0 /\ 0 .. num_values' - 1 = {}
      BY <1>1 DEF New
    <3>2. index' = 0 /\ pc' = "idle" /\ new_value' = new_value
      BY <1>1 DEF New, Control, loop
    <3>3. /\ heap_type' \in {"min", "max"}
          /\ alloced_size' \in Nat
          /\ DOMAIN values' = 0 .. alloced_size' - 1
          /\ \A i \in DOMAIN values' : values'[i] \in Value \cup {NULL}
      BY <1>1, BinaryHeapAssumption DEF New
    <3> QED BY <3>1, <3>2, <3>3 DEF TypeOK
  <2>2. Control'
    BY <1>1, BinaryHeapAssumption DEF New, Control, loop
  <2> QED BY <2>1, <2>2
<1>2. ASSUME NEW v \in Value, Insert(v) PROVE Inv'
  <2>1. Adds(v) /\ num_values < alloced_size'
    BY <1>2, InsertAdds
  <2>2. /\ alloced_size' \in Nat
        /\ DOMAIN values' = 0 .. alloced_size' - 1
        /\ \A i \in DOMAIN values' : values'[i] \in Value \cup {NULL}
    <3>1. CASE Full(num_values, alloced_size)
      <4>1. values' = Enlarged /\ alloced_size' = 2 * alloced_size
        BY <1>2, <3>1 DEF Insert
      <4> QED BY <4>1 DEF Enlarged, TypeOK
    <3>2. CASE ~Full(num_values, alloced_size)
      BY <1>2, <3>2 DEF Insert, TypeOK
    <3> QED BY <3>1, <3>2
  <2>3. /\ num_values' = num_values + 1 /\ pc' = "up" /\ index' = num_values
        /\ new_value' = v /\ heap_type' = heap_type /\ heap_type # "none"
    BY <1>2 DEF Insert, Ready
  <2>4. \A i \in 0 .. num_values' - 1 : Content(i)' \in Value
    BY <2>1, <2>3 DEF Adds, TypeOK
  <2>5. TypeOK'
    BY <2>1, <2>2, <2>3, <2>4 DEF TypeOK
  <2>6. Control'
    BY <2>1, <2>2, <2>3 DEF TypeOK, Control
  <2> QED BY <2>5, <2>6
<1>3. CASE InsertFails
  BY <1>3 DEF InsertFails, TypeOK, Control, Content, loop
<1>4. CASE MoveUp
  <2>1. Swaps(Parent(index)) /\ pc = "up"
    BY <1>4, MoveUpSwaps DEF MoveUp
  <2>2. values[Parent(index)] = Content(Parent(index))
    BY <2>1 DEF Swaps, Content
  <2>3. values[Parent(index)] \in Value
    BY <2>1, <2>2 DEF Swaps, TypeOK
  <2>4. /\ DOMAIN values' = 0 .. alloced_size' - 1
        /\ \A i \in DOMAIN values' : values'[i] \in Value \cup {NULL}
    BY <1>4, <2>1, <2>3, StoreTypes DEF MoveUp
  <2>5. \A i \in 0 .. num_values' - 1 : Content(i)' \in Value
    BY <2>1, SwapsTypes
  <2>6. index' \in 0 .. num_values - 1
    BY <1>4, <2>1 DEF MoveUp, Swaps
  <2>7. TypeOK'
    BY <1>4, <2>4, <2>5, <2>6 DEF MoveUp, TypeOK
  <2>8. Control'
    BY <1>4, <2>6 DEF MoveUp, Control, TypeOK
  <2> QED BY <2>7, <2>8
<1>5. CASE Settle
  <2>1. Keeps /\ pc # "idle"
    BY <1>5, SettleKeeps DEF Settle
  <2>2. /\ DOMAIN values' = 0 .. alloced_size' - 1
        /\ \A i \in DOMAIN values' : values'[i] \in Value \cup {NULL}
    BY <1>5, <2>1, StoreTypes DEF Settle, Control
  <2>3. TypeOK'
    BY <1>5, <2>1, <2>2 DEF Settle, TypeOK, Keeps
  <2>4. Control'
    BY <1>5 DEF Settle, Control
  <2> QED BY <2>3, <2>4
<1>6. CASE Pop
  <2>1. TakesFirst
    BY <1>6, PopTakesFirst
  <2>2. /\ num_values > 0 /\ num_values' = num_values - 1 /\ pc = "idle"
        /\ pc' = "down" /\ index' = 0 /\ new_value' = values[num_values - 1]
        /\ UNCHANGED <<heap_type, values, alloced_size>> /\ heap_type # "none"
    BY <1>6 DEF Pop, Ready
  <2>3. new_value' \in Value
    BY <2>2 DEF TypeOK, Content
  <2>4. \A i \in 0 .. num_values' - 1 : Content(i)' \in Value
    BY <2>1, <2>2 DEF TakesFirst, TypeOK
  <2>5. TypeOK'
    BY <2>2, <2>3, <2>4 DEF TypeOK
  <2>6. Control'
    BY <2>2, <2>3 DEF Control
  <2> QED BY <2>5, <2>6
<1>7. CASE PopEmpty
  BY <1>7 DEF PopEmpty, TypeOK, Control, Content, loop
<1>8. CASE MoveDown
  <2>1. Swaps(NextDown) /\ pc = "down"
    BY <1>8, MoveDownSwaps DEF MoveDown
  <2>2. values[NextDown] = Content(NextDown)
    BY <2>1 DEF Swaps, Content
  <2>3. values[NextDown] \in Value
    BY <2>1, <2>2 DEF Swaps, TypeOK
  <2>4. /\ DOMAIN values' = 0 .. alloced_size' - 1
        /\ \A i \in DOMAIN values' : values'[i] \in Value \cup {NULL}
    BY <1>8, <2>1, <2>3, StoreTypes DEF MoveDown
  <2>5. \A i \in 0 .. num_values' - 1 : Content(i)' \in Value
    BY <2>1, SwapsTypes
  <2>6. index' \in 0 .. num_values - 1
    BY <1>8, <2>1 DEF MoveDown, Swaps
  <2>7. TypeOK'
    BY <1>8, <2>4, <2>5, <2>6 DEF MoveDown, TypeOK
  <2>8. Control'
    BY <1>8, <2>6 DEF MoveDown, Control, TypeOK
  <2> QED BY <2>7, <2>8
<1>9. CASE Free
  <2>1. /\ heap_type' = "none" /\ values' = NoValues /\ num_values' = 0
        /\ alloced_size' = 0 /\ pc = "idle" /\ UNCHANGED loop
    BY <1>9 DEF Free, Ready
  <2>2. TypeOK'
    <3>1. 0 .. num_values' - 1 = {} /\ 0 .. alloced_size' - 1 = {}
      BY <2>1
    <3> QED BY <2>1, <3>1 DEF TypeOK, NoValues, loop
  <2>3. Control'
    BY <2>1 DEF Control, loop
  <2> QED BY <2>2, <2>3
<1>10. CASE UNCHANGED vars
  BY <1>10 DEF vars, loop, TypeOK, Control, Content
<1> QED
  BY <1>1, <1>2, <1>3, <1>4, <1>5, <1>6, <1>7, <1>8, <1>9, <1>10 DEF Next

-----------------------------------------------------------------------------
(* The values of the heap as a function, and the order between two. *)
Contents == [i \in 0 .. num_values - 1 |-> Content(i)]
InOrder(t, a, b) == IF t = "min" THEN a <= b ELSE b <= a

(* The arrays on the way of a value: order but at slot k, above it or      *)
(* below it, and order between what is above and what is below.            *)
OrderedAbove(t, n, C, k) ==
  \A i \in 1 .. n - 1 : Parent(i) # k => InOrder(t, C[Parent(i)], C[i])
OrderedBelow(t, n, C, k) ==
  \A i \in 1 .. n - 1 : i # k => InOrder(t, C[Parent(i)], C[i])
OrderedAcross(t, n, C, k) ==
  k > 0 => \A i \in 1 .. n - 1 : Parent(i) = k => InOrder(t, C[Parent(k)], C[i])
Ordered(t, n, C) == \A i \in 1 .. n - 1 : InOrder(t, C[Parent(i)], C[i])

(* C with the values at j and k exchanged. *)
Exchanged(n, C, j, k) ==
  [i \in 0 .. n - 1 |-> IF i = j THEN C[k] ELSE IF i = k THEN C[j] ELSE C[i]]

LEMMA Transitive ==
  ASSUME NEW t, NEW a \in Int, NEW b \in Int, NEW c \in Int,
         InOrder(t, a, b), InOrder(t, b, c)
  PROVE  InOrder(t, a, c)
BY DEF InOrder

LEMMA ParentIn ==
  ASSUME NEW n \in Nat, NEW i \in 1 .. n - 1
  PROVE  Parent(i) \in 0 .. n - 1 /\ Parent(i) # i /\ i \in 0 .. n - 1
BY ParentBelow

(* A value on its way up that comes before its parent leaves the parent's  *)
(* behind, with order above and below.                                     *)
LEMMA UpStep ==
  ASSUME NEW t, NEW n \in Nat, NEW C \in [0 .. n - 1 -> Int], NEW k \in 1 .. n - 1,
         NEW p, p = Parent(k), NEW D, D = Exchanged(n, C, k, p),
         OrderedBelow(t, n, C, k), OrderedAcross(t, n, C, k),
         InOrder(t, C[k], C[p])
  PROVE  OrderedBelow(t, n, D, p) /\ OrderedAcross(t, n, D, p)
<1>1. p \in 0 .. n - 1 /\ p # k /\ k \in 0 .. n - 1
  BY ParentIn
<1>2. \A i \in 1 .. n - 1 : Parent(i) \in 0 .. n - 1 /\ Parent(i) # i /\ i \in 0 .. n - 1
  BY ParentIn
<1>3. /\ D[k] = C[p] /\ D[p] = C[k]
      /\ \A i \in 0 .. n - 1 : i # k /\ i # p => D[i] = C[i]
  BY <1>1 DEF Exchanged
<1>4. \A i \in 0 .. n - 1 : C[i] \in Int
  OBVIOUS
<1>5. \A i \in 1 .. n - 1 : i # k => InOrder(t, C[Parent(i)], C[i])
  BY DEF OrderedBelow
<1>6. \A i \in 1 .. n - 1 : Parent(i) = k => InOrder(t, C[p], C[i])
  BY DEF OrderedAcross
<1>7. ASSUME NEW i \in 1 .. n - 1, i # p
      PROVE  InOrder(t, D[Parent(i)], D[i])
  <2>1. CASE i = k
    BY <1>3, <2>1
  <2>2. CASE i # k /\ Parent(i) = k
    BY <1>2, <1>3, <1>6, <1>7, <2>2
  <2>3. CASE i # k /\ Parent(i) = p
    <3>1. InOrder(t, C[p], C[i])
      BY <1>5, <2>3
    <3>2. InOrder(t, C[k], C[i])
      BY <1>1, <1>2, <1>4, <3>1, Transitive
    <3> QED BY <1>2, <1>3, <1>7, <2>3, <3>2
  <2>4. CASE i # k /\ Parent(i) # k /\ Parent(i) # p
    BY <1>2, <1>3, <1>5, <1>7, <2>4
  <2> QED BY <2>1, <2>2, <2>3, <2>4
<1>8. ASSUME p > 0, NEW i \in 1 .. n - 1, Parent(i) = p
      PROVE  InOrder(t, D[Parent(p)], D[i])
  <2>1. p \in 1 .. n - 1 /\ Parent(p) \in 0 .. n - 1 /\ Parent(p) # p
    BY <1>1, <1>2, <1>8
  <2>2. InOrder(t, C[Parent(p)], C[p])
    BY <1>1, <1>5, <2>1
  <2>3. Parent(p) # k
    BY <1>1, <2>1, ParentBelow
  <2>4. D[Parent(p)] = C[Parent(p)]
    BY <1>3, <2>1, <2>3
  <2>5. CASE i = k
    BY <1>3, <2>2, <2>4, <2>5
  <2>6. CASE i # k
    <3>1. InOrder(t, C[p], C[i])
      BY <1>5, <1>8, <2>6
    <3>2. InOrder(t, C[Parent(p)], C[i])
      BY <1>1, <1>2, <1>4, <2>1, <2>2, <3>1, Transitive
    <3>3. i # p
      BY <1>2, <1>8
    <3> QED BY <1>2, <1>3, <2>4, <2>6, <3>2, <3>3
  <2> QED BY <2>5, <2>6
<1> QED BY <1>7, <1>8 DEF OrderedBelow, OrderedAcross

(* A value on its way down after which its least child c comes changes     *)
(* places with it.                                                         *)
LEMMA DownStep ==
  ASSUME NEW t, NEW n \in Nat, NEW C \in [0 .. n - 1 -> Int], NEW k \in 0 .. n - 1,
         NEW c \in 1 .. n - 1, Parent(c) = k, NEW D, D = Exchanged(n, C, k, c),
         OrderedAbove(t, n, C, k), OrderedAcross(t, n, C, k),
         InOrder(t, C[c], C[k]),
         \A i \in 1 .. n - 1 : Parent(i) = k => InOrder(t, C[c], C[i])
  PROVE  OrderedAbove(t, n, D, c) /\ OrderedAcross(t, n, D, c)
<1>1. c \in 0 .. n - 1 /\ c # k /\ c > 0
  BY ParentIn
<1>2. \A i \in 1 .. n - 1 : Parent(i) \in 0 .. n - 1 /\ Parent(i) # i /\ i \in 0 .. n - 1
  BY ParentIn
<1>3. /\ D[k] = C[c] /\ D[c] = C[k]
      /\ \A i \in 0 .. n - 1 : i # k /\ i # c => D[i] = C[i]
  BY <1>1 DEF Exchanged
<1>4. \A i \in 1 .. n - 1 : Parent(i) # k => InOrder(t, C[Parent(i)], C[i])
  BY DEF OrderedAbove
<1>5. k > 0 => InOrder(t, C[Parent(k)], C[c])
  BY DEF OrderedAcross
<1>6. ASSUME NEW i \in 1 .. n - 1, Parent(i) # c
      PROVE  InOrder(t, D[Parent(i)], D[i])
  <2>1. CASE i = c
    BY <1>3, <2>1
  <2>2. CASE i # c /\ Parent(i) = k
    BY <1>2, <1>3, <2>2
  <2>3. CASE i = k
    BY <1>2, <1>3, <1>5, <1>6, <2>3, SMTT(20)
  <2>4. CASE i # c /\ i # k /\ Parent(i) # k
    BY <1>2, <1>3, <1>4, <1>6, <2>4
  <2> QED BY <2>1, <2>2, <2>3, <2>4
<1>7. ASSUME NEW i \in 1 .. n - 1, Parent(i) = c
      PROVE  InOrder(t, D[Parent(c)], D[i])
  <2>1. InOrder(t, C[c], C[i])
    BY <1>1, <1>4, <1>7
  <2>2. i # k
    <3>1. k \in Nat /\ Parent(c) < c
      BY <1>1, ParentBelow
    <3>2. Parent(i) < i
      BY ParentBelow
    <3> QED BY <1>1, <1>7, <3>1, <3>2
  <2> QED BY <1>2, <1>3, <1>7, <2>1, <2>2
<1> QED BY <1>6, <1>7 DEF OrderedAbove, OrderedAcross

-----------------------------------------------------------------------------
(* What the invariant says of the function of the values. *)
OrderedBut(t, n, C, how, k) ==
  /\ how = "idle" => Ordered(t, n, C)
  /\ how = "up" => OrderedBelow(t, n, C, k) /\ OrderedAcross(t, n, C, k)
  /\ how = "down" => OrderedAbove(t, n, C, k) /\ OrderedAcross(t, n, C, k)

LEMMA ContentsType ==
  ASSUME Inv
  PROVE  /\ Contents \in [0 .. num_values - 1 -> Int]
         /\ \A i \in 0 .. num_values - 1 : Contents[i] \in Value
         /\ num_values \in Nat /\ index \in Nat
         /\ pc # "idle" /\ index < num_values => Contents[index] = new_value
<1>1. \A i \in 0 .. num_values - 1 : Contents[i] = Content(i) /\ Content(i) \in Value
  BY DEF Contents, Inv, TypeOK
<1>2. num_values \in Nat /\ index \in Nat
  BY DEF Inv, TypeOK
<1>3. pc # "idle" /\ index < num_values => Content(index) = new_value
  BY DEF Content
<1>4. Contents \in [0 .. num_values - 1 -> Int]
  BY <1>1, BinaryHeapAssumption DEF Contents
<1>5. pc # "idle" /\ index < num_values => Contents[index] = new_value
  BY <1>1, <1>2, <1>3
<1> QED BY <1>1, <1>2, <1>4, <1>5

LEMMA CmpIsOrder ==
  ASSUME NEW a \in Int, NEW b \in Int
  PROVE  Cmp(a, b) <= 0 <=> InOrder(heap_type, a, b)
BY DEF Cmp, InOrder

LEMMA OrderIs ==
  Inv => (HeapOrdered /\ Passed
            <=> OrderedBut(heap_type, num_values, Contents, pc, index))
<1> SUFFICES ASSUME Inv
             PROVE  HeapOrdered /\ Passed
                      <=> OrderedBut(heap_type, num_values, Contents, pc, index)
  OBVIOUS
<1> DEFINE n == num_values
<1>1. /\ n \in Nat /\ index \in Nat
      /\ \A i \in 0 .. n - 1 : Contents[i] = Content(i) /\ Contents[i] \in Int
  BY ContentsType DEF Contents
<1>2. \A i \in 1 .. n - 1 : Parent(i) \in 0 .. n - 1 /\ Parent(i) # i /\ i \in 0 .. n - 1
  BY <1>1, ParentIn
<1>3. \A i \in 1 .. n - 1 :
        Cmp(Content(Parent(i)), Content(i)) <= 0
          <=> InOrder(heap_type, Contents[Parent(i)], Contents[i])
  BY <1>1, <1>2, CmpIsOrder
<1>4. \A i \in 1 .. n - 1 : Parent(i) = index <=> i \in {Child1(index), Child2(index)}
  BY <1>1, ParentBelow, ChildAbove
<1>5. pc \in {"idle", "up", "down"}
  BY DEF Inv, TypeOK
<1>6. HeapOrdered <=> /\ pc = "idle" => Ordered(heap_type, n, Contents)
                      /\ pc = "up" => OrderedBelow(heap_type, n, Contents, index)
                      /\ pc = "down" => OrderedAbove(heap_type, n, Contents, index)
  <2>1. CASE pc = "idle"
    BY <1>3, <2>1 DEF HeapOrdered, Unsettled, Ordered
  <2>2. CASE pc = "up"
    BY <1>3, <2>2 DEF HeapOrdered, Unsettled, OrderedBelow
  <2>3. CASE pc = "down"
    BY <1>3, <1>4, <2>3 DEF HeapOrdered, Unsettled, OrderedAbove
  <2> QED BY <1>5, <2>1, <2>2, <2>3
<1>7. Passed <=> (pc # "idle" => OrderedAcross(heap_type, n, Contents, index))
  <2>1. ASSUME pc # "idle", index > 0, NEW i \in 1 .. n - 1, Parent(i) = index
        PROVE  Cmp(Content(Parent(index)), Content(i)) <= 0
                 <=> InOrder(heap_type, Contents[Parent(index)], Contents[i])
    <3>1. index \in 1 .. n - 1
      BY <1>1, <1>2, <2>1
    <3>2. Parent(index) \in 0 .. n - 1
      BY <1>2, <3>1
    <3> QED BY <1>1, <1>2, <2>1, <3>2, CmpIsOrder
  <2> QED BY <2>1 DEF Passed, OrderedAcross
<1> QED BY <1>5, <1>6, <1>7 DEF OrderedBut

(* Of the next state. *)
LEMMA OrderIsAfter ==
  (Inv => (HeapOrdered /\ Passed
             <=> OrderedBut(heap_type, num_values, Contents, pc, index)))'
BY OrderIs, PTL

-----------------------------------------------------------------------------
(* What the steps do to the function of the values. *)
Longer(n, C, v) == [i \in 0 .. n |-> IF i = n THEN v ELSE C[i]]
WithoutFirst(n, C) == [i \in 0 .. n - 2 |-> IF i = 0 THEN C[n - 1] ELSE C[i]]

LEMMA ContentsAfter == Contents' = [i \in 0 .. num_values' - 1 |-> Content(i)']
BY DEF Contents

LEMMA SwapsContents ==
  ASSUME Inv, pc # "idle", NEW j, Swaps(j)
  PROVE  Contents' = Exchanged(num_values, Contents, index, j)
<1>1. /\ index \in 0 .. num_values - 1 /\ j \in 0 .. num_values - 1
      /\ Content(index) = new_value
  BY DEF Swaps, Content
<1> QED BY <1>1, ContentsAfter DEF Swaps, Contents, Exchanged

LEMMA KeepsContents == ASSUME Keeps PROVE Contents' = Contents
BY ContentsAfter DEF Keeps, Contents

LEMMA AddsContents ==
  ASSUME Inv, NEW v, Adds(v)
  PROVE  Contents' = Longer(num_values, Contents, v)
<1>1. num_values' - 1 = num_values /\ num_values \in Nat
  BY DEF Adds, Inv, TypeOK
<1>2. \A i \in 0 .. num_values :
        Content(i)' = IF i = num_values THEN v ELSE Contents[i]
  BY <1>1 DEF Adds, Contents
<1> QED BY <1>1, <1>2, ContentsAfter DEF Longer

LEMMA TakesFirstContents ==
  ASSUME Inv, TakesFirst
  PROVE  Contents' = WithoutFirst(num_values, Contents)
<1>1. num_values' - 1 = num_values - 2 /\ num_values \in Nat /\ num_values > 0
  BY DEF TakesFirst, Inv, TypeOK
<1>2. \A i \in 0 .. num_values - 2 :
        Content(i)' = IF i = 0 THEN Contents[num_values - 1] ELSE Contents[i]
  BY <1>1 DEF TakesFirst, Contents
<1> QED BY <1>1, <1>2, ContentsAfter DEF WithoutFirst

-----------------------------------------------------------------------------
(* The invariant is kept, one step per action. *)
LEMMA StepOrder ==
  ASSUME IInv, Inv', [Next]_vars
  PROVE  OrderedBut(heap_type', num_values', Contents', pc', index')
<1> DEFINE n == num_values
           C == Contents
           t == heap_type
<1>1. /\ C \in [0 .. n - 1 -> Int] /\ n \in Nat /\ index \in Nat
      /\ \A i \in 0 .. n - 1 : C[i] \in Value
      /\ \A i \in 0 .. n - 1 : C[i] = Content(i)
      /\ pc # "idle" /\ index < n => C[index] = new_value
      /\ OrderedBut(t, n, C, pc, index)
      /\ Inv
  BY ContentsType, OrderIs DEF IInv, Contents
<1>2. ASSUME NEW type \in {"min", "max"}, New(type)
      PROVE  OrderedBut(heap_type', num_values', Contents', pc', index')
  <2>1. num_values' = 0 /\ pc' = "idle" /\ 1 .. num_values' - 1 = {}
    BY <1>2 DEF New, loop, IInv, Inv, Control
  <2> QED BY <2>1 DEF OrderedBut, Ordered
<1>3. ASSUME NEW v \in Value, Insert(v)
      PROVE  OrderedBut(heap_type', num_values', Contents', pc', index')
  <2>1. /\ pc = "idle" /\ pc' = "up" /\ index' = n /\ heap_type' = t
        /\ num_values' = n + 1
    BY <1>3 DEF Insert, Ready
  <2>2. Contents' = Longer(n, C, v)
    BY <1>1, <1>3, InsertAdds, AddsContents
  <2>3. Ordered(t, n, C)
    BY <1>1, <2>1 DEF OrderedBut
  <2>4. ASSUME NEW i \in 1 .. n, i # n
        PROVE  /\ InOrder(t, C[Parent(i)], C[i]) /\ i \in 0 .. n - 1
               /\ Parent(i) \in 0 .. n - 1
    BY <1>1, <2>3, <2>4, ParentIn DEF Ordered
  <2>5. OrderedBelow(t, n + 1, Contents', n)
    <3>1. ASSUME NEW i \in 1 .. n, i # n
          PROVE  InOrder(t, Longer(n, C, v)[Parent(i)], Longer(n, C, v)[i])
      <4>1. /\ InOrder(t, C[Parent(i)], C[i]) /\ i \in 0 .. n - 1
            /\ Parent(i) \in 0 .. n - 1
        BY <2>4, <3>1
      <4>2. Longer(n, C, v)[i] = C[i] /\ Longer(n, C, v)[Parent(i)] = C[Parent(i)]
        BY <1>1, <4>1 DEF Longer
      <4> QED BY <4>1, <4>2
    <3>2. (n + 1) - 1 = n
      BY <1>1
    <3> QED BY <2>2, <3>1, <3>2 DEF OrderedBelow
  <2>6. OrderedAcross(t, n + 1, Contents', n)
    <3>1. \A i \in 1 .. (n + 1) - 1 : Parent(i) # n
      BY <1>1, ParentBelow
    <3> QED BY <3>1 DEF OrderedAcross
  <2> QED BY <2>1, <2>5, <2>6 DEF OrderedBut
<1>4. ASSUME UNCHANGED <<heap_type, values, num_values, loop>>
      PROVE  OrderedBut(heap_type', num_values', Contents', pc', index')
  <2>1. Contents' = C
    BY <1>4, ContentsAfter DEF Contents, Content, loop
  <2> QED BY <1>1, <1>4, <2>1 DEF loop
<1>5. CASE MoveUp
  <2> DEFINE p == Parent(index)
  <2>1. Swaps(p)
    BY <1>1, <1>5, MoveUpSwaps
  <2>2. /\ pc = "up" /\ pc' = "up" /\ index' = p /\ heap_type' = t
        /\ num_values' = n /\ Cmp(values[p], new_value) >= 0
        /\ index \in 1 .. n - 1
    BY <1>1, <1>5, <2>1 DEF MoveUp, Rises, Swaps
  <2>3. values[p] = C[p] /\ C[index] = new_value /\ p \in 0 .. n - 1
    BY <1>1, <2>1, <2>2 DEF Swaps, Content
  <2>4. InOrder(t, C[index], C[p])
    BY <1>1, <2>2, <2>3 DEF Cmp, InOrder
  <2>5. Contents' = Exchanged(n, C, index, p)
    BY <1>1, <2>1, <2>2, SwapsContents
  <2>6. OrderedBelow(t, n, C, index) /\ OrderedAcross(t, n, C, index)
    BY <1>1, <2>2 DEF OrderedBut
  <2>7. OrderedBelow(t, n, Contents', p) /\ OrderedAcross(t, n, Contents', p)
    BY <1>1, <2>2, <2>4, <2>5, <2>6, UpStep
  <2> QED BY <2>2, <2>7 DEF OrderedBut
<1>6. CASE Settle
  <2>1. /\ Contents' = C /\ num_values' = n /\ pc' = "idle" /\ heap_type' = t
    BY <1>1, <1>6, SettleKeeps, KeepsContents DEF Settle
  <2>2. \A i \in 1 .. n - 1 : Parent(i) \in 0 .. n - 1 /\ i \in 0 .. n - 1
    BY <1>1, ParentIn
  <2>3. CASE pc = "up"
    <3>1. ~Rises /\ OrderedBelow(t, n, C, index) /\ index < n
      BY <1>1, <1>6, <2>3 DEF Settle, OrderedBut, Inv, Control
    <3>2. ASSUME index \in 1 .. n - 1
          PROVE  InOrder(t, C[Parent(index)], C[index])
      <4>1. /\ Parent(index) \in 0 .. n - 1 /\ Parent(index) # index
            /\ C[index] = new_value
        BY <1>1, <2>3, <3>2, ParentIn
      <4>2. values[Parent(index)] = C[Parent(index)]
        BY <1>1, <4>1 DEF Content
      <4> QED BY <1>1, <3>1, <3>2, <4>1, <4>2 DEF Rises, Cmp, InOrder
    <3> QED BY <2>1, <3>1, <3>2 DEF OrderedBut, OrderedBelow, Ordered
  <2>4. CASE pc = "down"
    <3>1. /\ ~Sinks(Child1(index)) /\ ~Sinks(Child2(index))
          /\ OrderedAbove(t, n, C, index)
      BY <1>1, <1>6, <2>4 DEF Settle, OrderedBut
    <3>2. ASSUME NEW i \in 1 .. n - 1, Parent(i) = index
          PROVE  InOrder(t, C[Parent(i)], C[i])
      <4>1. /\ i \in {Child1(index), Child2(index)} /\ i < n
            /\ i \in 0 .. n - 1 /\ i # index /\ index \in 0 .. n - 1
        BY <1>1, <2>2, <3>2, ParentBelow
      <4>2. C[index] = new_value /\ values[i] = C[i]
        BY <1>1, <2>4, <4>1 DEF Content
      <4> QED BY <1>1, <3>1, <3>2, <4>1, <4>2 DEF Sinks, Cmp, InOrder
    <3> QED BY <2>1, <3>1, <3>2 DEF OrderedBut, OrderedAbove, Ordered
  <2> QED BY <1>6, <2>3, <2>4 DEF Settle
<1>7. CASE Pop
  <2>1. /\ pc = "idle" /\ pc' = "down" /\ index' = 0 /\ heap_type' = t
        /\ num_values' = n - 1 /\ n > 0
    BY <1>7 DEF Pop, Ready
  <2>2. Contents' = WithoutFirst(n, C)
    BY <1>1, <1>7, PopTakesFirst, TakesFirstContents
  <2>3. Ordered(t, n, C)
    BY <1>1, <2>1 DEF OrderedBut
  <2>4. ASSUME NEW i \in 1 .. (n - 1) - 1, Parent(i) # 0
        PROVE  InOrder(t, WithoutFirst(n, C)[Parent(i)], WithoutFirst(n, C)[i])
    <3>1. i \in 1 .. n - 1 /\ Parent(i) \in 0 .. n - 2 /\ i \in 0 .. n - 2 /\ i # 0
      BY <1>1, <2>1, <2>4, ParentBelow
    <3>2. InOrder(t, C[Parent(i)], C[i])
      BY <2>3, <3>1 DEF Ordered
    <3> QED BY <2>4, <3>1, <3>2 DEF WithoutFirst
  <2>5. OrderedAbove(t, n - 1, Contents', 0)
    BY <2>2, <2>4 DEF OrderedAbove
  <2> QED BY <2>1, <2>5 DEF OrderedBut, OrderedAcross
<1>8. CASE MoveDown
  <2> DEFINE c == NextDown
  <2>1. Swaps(c)
    BY <1>1, <1>8, MoveDownSwaps
  <2>2. /\ pc = "down" /\ pc' = "down" /\ index' = c /\ heap_type' = t
        /\ num_values' = n /\ index \in 0 .. n - 1
        /\ Sinks(Child1(index)) \/ Sinks(Child2(index))
    BY <1>8, <2>1 DEF MoveDown, Swaps
  <2>3. /\ c \in 0 .. n - 1 /\ Parent(c) = index /\ c > index
        /\ Cmp(Content(c), new_value) <= 0
        /\ \A i \in 1 .. n - 1 :
             Parent(i) = index => Cmp(Content(c), Content(i)) <= 0
    BY <1>1, <2>2, NextDownIs
  <2> HIDE DEF c
  <2>4. c \in 1 .. n - 1 /\ C[index] = new_value
    BY <1>1, <2>2, <2>3
  <2>5. InOrder(t, C[c], C[index])
    BY <1>1, <2>2, <2>3, <2>4, CmpIsOrder
  <2>6. \A i \in 1 .. n - 1 : Parent(i) = index => InOrder(t, C[c], C[i])
    BY <1>1, <2>3, CmpIsOrder
  <2>7. Contents' = Exchanged(n, C, index, c)
    BY <1>1, <2>1, <2>2, SwapsContents
  <2>8. OrderedAbove(t, n, C, index) /\ OrderedAcross(t, n, C, index)
    BY <1>1, <2>2 DEF OrderedBut
  <2>9. OrderedAbove(t, n, Contents', c) /\ OrderedAcross(t, n, Contents', c)
    BY <1>1, <2>2, <2>3, <2>4, <2>5, <2>6, <2>7, <2>8, DownStep
  <2> QED BY <2>2, <2>9 DEF OrderedBut
<1>9. CASE Free
  <2>1. num_values' = 0 /\ pc' = "idle" /\ 1 .. num_values' - 1 = {}
    BY <1>9 DEF Free, Ready, loop
  <2> QED BY <2>1 DEF OrderedBut, Ordered
<1> QED
  BY <1>2, <1>3, <1>4, <1>5, <1>6, <1>7, <1>8, <1>9
  DEF Next, InsertFails, PopEmpty, vars

LEMMA StepIInv == ASSUME IInv, [Next]_vars PROVE IInv'
<1>1. Inv'
  BY StepInv DEF IInv
<1>2. HeapOrdered' /\ Passed'
  BY <1>1, StepOrder, OrderIsAfter
<1> QED BY <1>1, <1>2 DEF IInv

(* No slot outside the allocated block is written and the heap is in       *)
(* order, but around the value on its way, at every step of every call.    *)
THEOREM HeapCorrect == Spec => []WellFormed
<1>1. Init => IInv
  BY InitInv
<1>2. IInv /\ [Next]_vars => IInv'
  BY StepIInv
<1>3. IInv => WellFormed
  BY DEF IInv, Inv, WellFormed
<1> QED BY <1>1, <1>2, <1>3, PTL DEF Spec

-----------------------------------------------------------------------------
(* How often a value is in the heap. *)
SlotsOf(n, C, v) == {i \in 0 .. n - 1 : C[i] = v}
CountOf(n, C, v) == Cardinality(SlotsOf(n, C, v))

LEMMA CountType ==
  ASSUME NEW n \in Nat, NEW C, NEW v
  PROVE  IsFiniteSet(SlotsOf(n, C, v)) /\ CountOf(n, C, v) \in Nat
<1>1. IsFiniteSet(0 .. n - 1) /\ SlotsOf(n, C, v) \in SUBSET (0 .. n - 1)
  BY FS_Interval DEF SlotsOf
<1>2. IsFiniteSet(SlotsOf(n, C, v))
  BY <1>1, FS_Subset
<1> QED BY <1>2, FS_CardinalityType DEF CountOf

LEMMA ExchangedCount ==
  ASSUME NEW n \in Nat, NEW C, NEW j \in 0 .. n - 1, NEW k \in 0 .. n - 1, NEW v
  PROVE  CountOf(n, Exchanged(n, C, j, k), v) = CountOf(n, C, v)
<1> DEFINE S == SlotsOf(n, C, v)
           T == SlotsOf(n, Exchanged(n, C, j, k), v)
           to(i) == IF i = j THEN k ELSE IF i = k THEN j ELSE i
           f == [i \in S |-> to(i)]
<1>1. \A i \in 0 .. n - 1 : to(i) \in 0 .. n - 1 /\ to(to(i)) = i
  OBVIOUS
<1>2. \A i \in 0 .. n - 1 : Exchanged(n, C, j, k)[i] = C[to(i)]
  BY DEF Exchanged
<1> HIDE DEF to
<1>3. \A i \in 0 .. n - 1 : i \in S <=> C[i] = v
  BY DEF SlotsOf
<1>4. \A i \in 0 .. n - 1 : i \in T <=> C[to(i)] = v
  BY <1>2 DEF SlotsOf
<1>5. S \subseteq 0 .. n - 1 /\ T \subseteq 0 .. n - 1
  BY DEF SlotsOf
<1> HIDE DEF S, T
<1>6. \A i \in S : to(i) \in T
  BY <1>1, <1>3, <1>4, <1>5
<1>7. \A i \in T : to(i) \in S
  BY <1>1, <1>3, <1>4, <1>5
<1>8. f \in Injection(S, T)
  BY <1>1, <1>5, <1>6 DEF Injection, IsInjective
<1>9. f \in Surjection(S, T)
  <2>1. f \in [S -> T] /\ \A i \in S : f[i] = to(i)
    BY <1>6
  <2>2. \A i \in T : to(i) \in S /\ f[to(i)] = i
    BY <1>1, <1>5, <1>7, <2>1
  <2> HIDE DEF f
  <2> QED BY <2>1, <2>2 DEF Surjection
<1>10. ExistsBijection(S, T)
  BY <1>8, <1>9 DEF ExistsBijection, Bijection
<1>11. IsFiniteSet(S)
  BY CountType DEF S
<1> QED BY <1>10, <1>11, FS_Bijection DEF CountOf, S, T

LEMMA LongerCount ==
  ASSUME NEW n \in Nat, NEW C, NEW w, NEW v
  PROVE  CountOf(n + 1, Longer(n, C, w), v)
           = CountOf(n, C, v) + (IF v = w THEN 1 ELSE 0)
<1> DEFINE S == SlotsOf(n, C, v)
           T == SlotsOf(n + 1, Longer(n, C, w), v)
<1>1. (n + 1) - 1 = n /\ n \notin S
  BY DEF SlotsOf
<1>2. T = IF v = w THEN S \cup {n} ELSE S
  BY <1>1 DEF SlotsOf, Longer
<1>3. IsFiniteSet(S) /\ Cardinality(S) \in Nat
  BY CountType DEF CountOf
<1> HIDE DEF S, T
<1>4. CASE v = w
  BY <1>1, <1>2, <1>3, <1>4, FS_AddElement DEF CountOf, S, T
<1>5. CASE v # w
  BY <1>2, <1>3, <1>5 DEF CountOf, S, T
<1> QED BY <1>4, <1>5

LEMMA WithoutFirstCount ==
  ASSUME NEW n \in Nat, n > 0, NEW C, NEW v
  PROVE  CountOf(n, C, v)
           = CountOf(n - 1, WithoutFirst(n, C), v) + (IF v = C[0] THEN 1 ELSE 0)
<1>1. Exchanged(n, C, 0, n - 1) = Longer(n - 1, WithoutFirst(n, C), C[0])
  BY DEF Exchanged, Longer, WithoutFirst
<1>2. n - 1 \in Nat /\ 0 \in 0 .. n - 1 /\ n - 1 \in 0 .. n - 1 /\ (n - 1) + 1 = n
  OBVIOUS
<1>3. CountOf(n, Exchanged(n, C, 0, n - 1), v) = CountOf(n, C, v)
  BY <1>2, ExchangedCount
<1>4. CountOf((n - 1) + 1, Longer(n - 1, WithoutFirst(n, C), C[0]), v)
        = CountOf(n - 1, WithoutFirst(n, C), v) + (IF v = C[0] THEN 1 ELSE 0)
  BY <1>2, LongerCount
<1> QED BY <1>1, <1>2, <1>3, <1>4

LEMMA BagIs == Bag = [v \in Value |-> CountOf(num_values, Contents, v)]
<1>1. \A v \in Value :
        {i \in 0 .. num_values - 1 : Content(i) = v} = SlotsOf(num_values, Contents, v)
  BY DEF SlotsOf, Contents
<1> QED BY <1>1 DEF Bag, CountOf

LEMMA BagAfter == Bag' = [v \in Value |-> CountOf(num_values', Contents', v)]
<1>1. \A v \in Value :
        {i \in 0 .. num_values' - 1 : Content(i)' = v} = SlotsOf(num_values', Contents', v)
  BY ContentsAfter DEF SlotsOf
<1> QED BY <1>1 DEF Bag, CountOf

-----------------------------------------------------------------------------
(* A set of naturals that has a member has a least one. *)
LEMMA LeastExists ==
  ASSUME NEW S, S \subseteq Nat, S # {}
  PROVE  \E i \in S : \A j \in S : i <= j
<1>1. PICK x \in S : \A y \in SetLessThan(x, OpToRel(<, Nat), Nat) : y \notin S
  BY WFMin, NatLessThanWellFounded DEF SetLessThan
<1>2. \A j \in S : x <= j
  <2> SUFFICES ASSUME NEW j \in S, ~(x <= j) PROVE FALSE
    OBVIOUS
  <2>1. j \in Nat /\ x \in Nat /\ j < x
    OBVIOUS
  <2>2. j \in SetLessThan(x, OpToRel(<, Nat), Nat)
    BY <2>1 DEF SetLessThan, OpToRel
  <2> QED BY <1>1, <2>2
<1> QED BY <1>2

(* In an ordered tree no value comes before that of the root: of the slots *)
(* with one that does, the least would have a parent with another.         *)
LEMMA RootComesFirst ==
  ASSUME NEW t, NEW n \in Nat, n > 0, NEW C \in [0 .. n - 1 -> Int], Ordered(t, n, C)
  PROVE  \A i \in 0 .. n - 1 : InOrder(t, C[0], C[i])
<1> DEFINE Wrong == {i \in 0 .. n - 1 : ~InOrder(t, C[0], C[i])}
<1> SUFFICES ASSUME Wrong # {} PROVE FALSE
  OBVIOUS
<1>1. Wrong \subseteq Nat
  OBVIOUS
<1> HIDE DEF Wrong
<1>2. PICK i \in Wrong : \A j \in Wrong : i <= j
  BY <1>1, LeastExists
<1>3. i \in 0 .. n - 1 /\ ~InOrder(t, C[0], C[i])
  BY DEF Wrong
<1>4. i # 0
  BY <1>3 DEF InOrder
<1>5. /\ i \in 1 .. n - 1 /\ Parent(i) \in 0 .. n - 1 /\ Parent(i) < i
      /\ Parent(i) \in Nat
  BY <1>3, <1>4, ParentBelow
<1>6. InOrder(t, C[0], C[Parent(i)])
  BY <1>1, <1>2, <1>5 DEF Wrong
<1>7. InOrder(t, C[Parent(i)], C[i])
  BY <1>5 DEF Ordered
<1>8. C[0] \in Int /\ C[Parent(i)] \in Int /\ C[i] \in Int
  BY <1>3, <1>5
<1> QED BY <1>3, <1>6, <1>7, <1>8, Transitive

-----------------------------------------------------------------------------
(* Each step is one of the priority queue, or changes nothing that the     *)
(* caller sees.                                                            *)
LEMMA NoBag == num_values = 0 => Bag = [v \in Value |-> 0]
<1> SUFFICES ASSUME num_values = 0 PROVE \A v \in Value : CountOf(0, Contents, v) = 0
  BY BagIs
<1>1. \A v \in Value : SlotsOf(0, Contents, v) = {}
  BY DEF SlotsOf
<1> QED BY <1>1, FS_EmptySet DEF CountOf

LEMMA NoBagAfter == (num_values = 0 => Bag = [v \in Value |-> 0])'
BY NoBag, PTL

LEMMA InitQueue == Init => Queue!Init
BY NoBag DEF Init, Queue!Init, Queue!NoValues

LEMMA StepQueue ==
  ASSUME IInv, [Next]_vars
  PROVE  [Queue!Next]_(Queue!vars)
<1> DEFINE n == num_values
           C == Contents
<1> SUFFICES Queue!Next \/ UNCHANGED Queue!vars
  OBVIOUS
<1>1. /\ Inv /\ n \in Nat /\ C \in [0 .. n - 1 -> Int]
      /\ \A i \in 0 .. n - 1 : C[i] \in Value
      /\ OrderedBut(heap_type, n, C, pc, index)
  BY ContentsType, OrderIs DEF IInv
<1>2. \A v \in Value : Bag[v] = CountOf(n, C, v)
  BY BagIs
<1>3. ASSUME NEW t \in {"min", "max"}, New(t) PROVE Queue!Next
  <2>1. heap_type = "none" /\ heap_type' = t /\ last' = last /\ num_values' = 0
    BY <1>3 DEF New
  <2>2. Bag = [v \in Value |-> 0] /\ Bag' = [v \in Value |-> 0]
    BY <1>1, <2>1, NoBag, NoBagAfter DEF Inv, Control
  <2>3. Queue!New(t)
    BY <2>1, <2>2 DEF Queue!New
  <2> QED BY <2>3 DEF Queue!Next
<1>4. ASSUME NEW v \in Value, Insert(v) PROVE Queue!Next
  <2>1. /\ heap_type # "none" /\ heap_type' = heap_type
        /\ last' = <<"insert", 1>> /\ num_values' = n + 1
    BY <1>4 DEF Insert, Ready
  <2>2. Contents' = Longer(n, C, v)
    BY <1>1, <1>4, InsertAdds, AddsContents
  <2>3. \A w \in Value : CountOf(num_values', Contents', w)
                           = CountOf(n, C, w) + (IF w = v THEN 1 ELSE 0)
    BY <1>1, <2>1, <2>2, LongerCount
  <2>4. \A w \in Value : CountOf(n, C, w) \in Nat
    BY <1>1, CountType
  <2>5. Bag' = [Bag EXCEPT ![v] = @ + 1]
    BY <2>3, <2>4, BagIs, BagAfter
  <2>6. Queue!Insert(v)
    BY <2>1, <2>5 DEF Queue!Insert
  <2> QED BY <2>6 DEF Queue!Next
<1>5. CASE InsertFails
  <2>1. Bag' = Bag
    BY <1>5 DEF InsertFails, Bag, Content, loop
  <2>2. Queue!InsertRefused
    BY <1>5, <2>1 DEF InsertFails, Ready, Queue!InsertRefused
  <2> QED BY <2>2 DEF Queue!Next
<1>6. ASSUME NEW j, Swaps(j), pc # "idle", UNCHANGED <<heap_type, last>>
      PROVE  UNCHANGED Queue!vars
  <2>1. /\ Contents' = Exchanged(n, C, index, j) /\ num_values' = n
        /\ index \in 0 .. n - 1 /\ j \in 0 .. n - 1
    BY <1>1, <1>6, SwapsContents DEF Swaps
  <2>2. \A v \in Value : CountOf(num_values', Contents', v) = CountOf(n, C, v)
    BY <1>1, <2>1, ExchangedCount
  <2>3. Bag' = Bag
    BY <2>2, BagIs, BagAfter
  <2> QED BY <1>6, <2>3 DEF Queue!vars
<1>7. CASE MoveUp
  BY <1>1, <1>6, <1>7, MoveUpSwaps DEF MoveUp
<1>8. CASE MoveDown
  BY <1>1, <1>6, <1>8, MoveDownSwaps DEF MoveDown
<1>9. CASE Settle
  <2>1. Contents' = C /\ num_values' = n
    BY <1>1, <1>9, SettleKeeps, KeepsContents DEF Settle
  <2>2. Bag' = Bag
    BY <2>1, BagIs, BagAfter
  <2> QED BY <1>9, <2>2 DEF Settle, Queue!vars
<1>10. CASE Pop
  <2>1. /\ pc = "idle" /\ heap_type # "none" /\ heap_type' = heap_type
        /\ last' = <<"pop", values[0]>> /\ num_values' = n - 1 /\ n > 0
    BY <1>10 DEF Pop, Ready
  <2>2. values[0] = C[0] /\ C[0] \in Value
    BY <1>1, <2>1 DEF Contents, Content
  <2>3. Contents' = WithoutFirst(n, C)
    BY <1>1, <1>10, PopTakesFirst, TakesFirstContents
  <2>4. \A w \in Value : CountOf(n, C, w)
          = CountOf(num_values', Contents', w) + (IF w = C[0] THEN 1 ELSE 0)
    BY <1>1, <2>1, <2>3, WithoutFirstCount, ZenonT(40)
  <2>5. \A w \in Value : CountOf(n, C, w) \in Nat /\ CountOf(num_values', Contents', w) \in Nat
    BY <1>1, <2>1, CountType
  <2>6. Bag' = [Bag EXCEPT ![C[0]] = @ - 1]
    BY <2>4, <2>5, BagIs, BagAfter
  <2>7. Bag[C[0]] > 0
    BY <1>2, <2>2, <2>4, <2>5
  <2>8. ASSUME NEW w \in Value, Bag[w] > 0
        PROVE  InOrder(heap_type, C[0], w)
    <3>1. SlotsOf(n, C, w) # {}
      BY <1>2, <2>8, FS_EmptySet DEF CountOf
    <3>2. PICK i \in 0 .. n - 1 : C[i] = w
      BY <3>1 DEF SlotsOf
    <3>3. Ordered(heap_type, n, C)
      BY <1>1, <2>1 DEF OrderedBut
    <3> QED BY <1>1, <2>1, <3>2, <3>3, RootComesFirst
  <2>9. Queue!First(C[0])
    BY <2>2, <2>8, BinaryHeapAssumption DEF Queue!First, InOrder
  <2>10. Queue!Pop(C[0])
    BY <2>1, <2>2, <2>6, <2>7, <2>9 DEF Queue!Pop
  <2> QED BY <2>2, <2>10 DEF Queue!Next
<1>11. CASE PopEmpty
  <2>1. Bag' = Bag /\ Bag = [v \in Value |-> 0]
    BY <1>11, NoBag DEF PopEmpty, Bag, Content, loop
  <2>2. Queue!PopNothing
    BY <1>11, <2>1 DEF PopEmpty, Ready, Queue!PopNothing, Queue!NoValues
  <2> QED BY <2>2 DEF Queue!Next
<1>12. CASE Free
  <2>1. Bag' = [v \in Value |-> 0]
    BY <1>12, NoBagAfter DEF Free
  <2>2. Queue!Destroy
    BY <1>12, <2>1 DEF Free, Queue!Destroy, Queue!NoValues
  <2> QED BY <2>2 DEF Queue!Next
<1>13. CASE UNCHANGED vars
  <2>1. Bag' = Bag
    BY <1>13 DEF vars, loop, Bag, Content
  <2> QED BY <1>13, <2>1 DEF vars, Queue!vars
<1> QED
  BY <1>3, <1>4, <1>5, <1>7, <1>8, <1>9, <1>10, <1>11, <1>12, <1>13 DEF Next

(* The binary heap implements the priority queue: no call loses or doubles *)
(* a value, whichever turns its loop takes, a pop returns one that comes   *)
(* first, and an insertion for which there is no memory changes nothing.   *)
THEOREM HeapRefinesQueue == Spec => ImplementsQueue
<1>1. Init => IInv
  BY InitInv
<1>2. IInv /\ [Next]_vars => IInv'
  BY StepIInv
<1>3. Init => Queue!Init
  BY InitQueue
<1>4. IInv /\ [Next]_vars => [Queue!Next]_(Queue!vars)
  BY StepQueue
<1> QED BY <1>1, <1>2, <1>3, <1>4, PTL DEF Spec, ImplementsQueue, Queue!Spec
=============================================================================
