-------------------------- MODULE MapSparseMatrix ---------------------------
(***************************************************************************)
(* The sparse matrix of src/src/pscpu/MapSparseMatrix.cpp: a std::map from *)
(* the number of a position to its value.  A call is one step.  Values are *)
(* as in SparseMatrix.                                                     *)
(*                                                                         *)
(* An operator X_Suffix next to an operator X is X with a plausible bug;   *)
(* no action uses it.                                                      *)
(***************************************************************************)
EXTENDS Integers, FiniteSets, FiniteSetTheorems, TLAPS

CONSTANTS
  Size,     \* the sizes a matrix is given, <<rows, columns>>
  Value,
  Other     \* only of the abstract matrix: this class has no add

Parameters ==
  /\ \A s \in Size : s \in Nat \X Nat
  /\ Value \subseteq Int
  /\ 0 \in Value

VARIABLES
  m,
  n,
  dataMap,
  unzeroNum

vars == <<m, n, dataMap, unzeroNum>>

Absent == -9999
Position == (0 .. m - 1) \X (0 .. n - 1)

(* setValue writes a position under one number, getStructure turns the     *)
(* number back into a position, and getValue reads under another number,   *)
(* which is the same one in a square matrix only.                          *)
\* mutant: the number under which getValue reads
KeyOf_OfRead(i, j) == m * i + j

KeyOf(i, j) == n * i + j
PositionOf(key) == <<key \div n, key % n>>
KeyRead(i, j) == m * i + j

-----------------------------------------------------------------------------
Init ==
  /\ m = 0
  /\ n = 0
  /\ dataMap = [k \in {} |-> 0]
  /\ unzeroNum = 0

FreeSpace ==
  /\ m' = 0
  /\ n' = 0
  /\ dataMap' = [k \in {} |-> 0]
  /\ unzeroNum' = 0

Initial(s) ==
  /\ m' = s[1]
  /\ n' = s[2]
  /\ dataMap' = [k \in {} |-> 0]
  /\ unzeroNum' = 0

Written(key, v) == [k \in DOMAIN dataMap \cup {key} |-> IF k = key THEN v ELSE dataMap[k]]

SetValue(i, j, v, isAddTo) ==
  LET key == KeyOf(i, j)
      present == key \in DOMAIN dataMap
      new == IF isAddTo /\ present THEN dataMap[key] + v ELSE v
  IN
  /\ new \in Value
  /\ dataMap' = Written(key, new)
  /\ unzeroNum' = IF present THEN unzeroNum ELSE unzeroNum + 1
  /\ UNCHANGED <<m, n>>

MakeZero ==
  /\ dataMap' = [k \in DOMAIN dataMap |-> 0]
  /\ UNCHANGED <<m, n, unzeroNum>>

Next ==
  \/ FreeSpace
  \/ \E s \in Size : Initial(s)
  \/ \E p \in Position, v \in Value, isAddTo \in BOOLEAN : SetValue(p[1], p[2], v, isAddTo)
  \/ MakeZero

Spec == Init /\ [][Next]_vars

-----------------------------------------------------------------------------
(* What the matrix answers; getStructure and getValues go along the map in *)
(* the order of its keys.                                                  *)
GetValue(i, j) ==
  IF KeyRead(i, j) \in DOMAIN dataMap THEN dataMap[KeyRead(i, j)] ELSE Absent

GetStructure == {PositionOf(k) : k \in DOMAIN dataMap}

TypeOK ==
  /\ <<m, n>> \in Size \cup {<<0, 0>>}
  /\ \A k \in DOMAIN dataMap : k \in 0 .. m * n - 1 /\ dataMap[k] \in Value
  /\ unzeroNum \in Nat

(* unzeroNum is the number of positions getStructure fills, and no two     *)
(* positions have one number.                                              *)
Counted ==
  /\ unzeroNum = Cardinality(DOMAIN dataMap)
  /\ unzeroNum = Cardinality(GetStructure)
  /\ GetStructure \subseteq Position

Content ==
  [p \in GetStructure |-> dataMap[CHOOSE key \in DOMAIN dataMap : PositionOf(key) = p]]

(* In a square matrix getValue finds what setValue wrote.                  *)
SquareAnswers ==
  m = n => \A p \in Position :
             GetValue(p[1], p[2]) = IF p \in GetStructure THEN Content[p] ELSE Absent

Abstract == INSTANCE AbstractMatrix WITH rows <- m, cols <- n, cell <- Content

-----------------------------------------------------------------------------
(* Proofs: the numbers of the positions are one for one, and what follows  *)
(* for the map of a matrix of any size.                                    *)

(* Of two rows the later begins a row's length or more after the other.    *)
LEMMA RowsApart ==
  ASSUME NEW c \in Nat, NEW a \in Nat, NEW b \in Nat, a < b
  PROVE  c * a + c <= c * b
<1>1. PICK d \in Nat : b = a + 1 + d
  BY b - a - 1 \in Nat
<1>2. c * b = c * a + c + c * d
  BY <1>1
<1>3. c * d \in Nat /\ c * a \in Nat
  OBVIOUS
<1> QED BY <1>2, <1>3

(* A number determines its row and its column. *)
LEMMA OneNumber ==
  ASSUME NEW c \in Nat, NEW i \in Nat, NEW k \in Nat,
         NEW j \in 0 .. c - 1, NEW l \in 0 .. c - 1, c * i + j = c * k + l
  PROVE  i = k /\ j = l
<1>1. c * i \in Nat /\ c * k \in Nat
  OBVIOUS
<1>2. ~(i < k)
  BY <1>1, RowsApart
<1>3. ~(k < i)
  BY <1>1, RowsApart
<1>4. i = k
  BY <1>2, <1>3
<1> QED BY <1>1, <1>4

LEMMA Division ==
  ASSUME NEW c \in Nat \ {0}, NEW k \in Nat
  PROVE  /\ k \div c \in Nat
         /\ k % c \in 0 .. c - 1
         /\ k = c * (k \div c) + (k % c)
OBVIOUS

(* A number below rows * c lies in one of the rows. *)
LEMMA InRows ==
  ASSUME NEW c \in Nat \ {0}, NEW k \in Nat, NEW rows \in Nat, k < rows * c
  PROVE  k \div c \in 0 .. rows - 1
<1>1. k \div c \in Nat /\ k % c \in Nat /\ k = c * (k \div c) + (k % c)
  BY Division
<1>2. SUFFICES ASSUME rows <= k \div c PROVE FALSE
  BY <1>1
<1>3. c * rows <= c * (k \div c)
  <2>1. CASE rows = k \div c
    BY <2>1, <1>1
  <2>2. CASE rows < k \div c
    BY <2>2, <1>1, RowsApart
  <2> QED BY <2>1, <2>2, <1>1, <1>2
<1>4. rows * c = c * rows
  OBVIOUS
<1>5. c * (k \div c) \in Nat /\ c * rows \in Nat
  BY <1>1
<1> QED BY <1>1, <1>3, <1>4, <1>5

(* The number of a position of a matrix of any size. *)
LEMMA NumberInRange ==
  ASSUME NEW rows \in Nat, NEW c \in Nat, NEW i \in 0 .. rows - 1, NEW j \in 0 .. c - 1
  PROVE  c * i + j \in 0 .. rows * c - 1
<1>1. i \in Nat /\ i < rows /\ j \in Nat /\ j < c
  OBVIOUS
<1>2. c * i + c <= c * rows
  BY <1>1, RowsApart
<1>3. c * i \in Nat /\ c * rows \in Nat /\ c * rows = rows * c
  BY <1>1
<1> QED BY <1>1, <1>2, <1>3

-----------------------------------------------------------------------------
(* The number of a place and the place of a number, c to a row. *)
Number(c, p) == c * p[1] + p[2]
Place(c, k) == <<k \div c, k % c>>

LEMMA NumberThenPlace ==
  ASSUME NEW r \in Nat, NEW c \in Nat, NEW p \in (0 .. r - 1) \X (0 .. c - 1)
  PROVE  Number(c, p) \in 0 .. r * c - 1 /\ Place(c, Number(c, p)) = p
<1> DEFINE i == p[1]
           j == p[2]
           k == c * i + j
<1>1. i \in 0 .. r - 1 /\ j \in 0 .. c - 1 /\ p = <<i, j>>
  OBVIOUS
<1> HIDE DEF i, j
<1>2. c \in Nat \ {0} /\ i \in Nat /\ j \in Nat
  BY <1>1
<1>3. k \in Nat /\ k \in 0 .. r * c - 1
  BY <1>1, <1>2, NumberInRange
<1>4. k \div c \in Nat /\ k % c \in 0 .. c - 1 /\ k = c * (k \div c) + (k % c)
  BY <1>2, <1>3, Division
<1>5. i = k \div c /\ j = k % c
  <2> DEFINE q == k \div c
             s == k % c
  <2>1. q \in Nat /\ s \in 0 .. c - 1 /\ c * i + j = c * q + s
    BY <1>4
  <2> HIDE DEF q, s, k
  <2>2. i = q /\ j = s
    BY <2>1, <1>1, <1>2, OneNumber
  <2> QED BY <2>2 DEF q, s
<1> QED BY <1>1, <1>3, <1>5 DEF Number, Place, i, j

LEMMA PlaceThenNumber ==
  ASSUME NEW r \in Nat, NEW c \in Nat, NEW k \in 0 .. r * c - 1
  PROVE  Place(c, k) \in (0 .. r - 1) \X (0 .. c - 1) /\ Number(c, Place(c, k)) = k
<1>1. k \in Nat /\ k < r * c
  <2>1. r * c \in Nat
    OBVIOUS
  <2> QED BY <2>1
<1>2. c \in Nat \ {0}
  <2>1. c = 0 => r * c = 0
    OBVIOUS
  <2> QED BY <2>1, <1>1
<1>3. k \div c \in 0 .. r - 1
  BY <1>1, <1>2, InRows
<1>4. k % c \in 0 .. c - 1 /\ k = c * (k \div c) + (k % c)
  BY <1>1, <1>2, Division
<1> QED BY <1>3, <1>4 DEF Place, Number

LEMMA OnePlace ==
  ASSUME NEW r \in Nat, NEW c \in Nat,
         NEW k \in 0 .. r * c - 1, NEW l \in 0 .. r * c - 1, Place(c, k) = Place(c, l)
  PROVE  k = l
BY PlaceThenNumber

-----------------------------------------------------------------------------
(* The matrix that a map describes. *)
Places(c, map) == {Place(c, k) : k \in DOMAIN map}
ContentOf(c, map) ==
  [p \in Places(c, map) |-> map[CHOOSE key \in DOMAIN map : Place(c, key) = p]]

Distinct(c, map) == \A k, l \in DOMAIN map : Place(c, k) = Place(c, l) => k = l

LEMMA ContentAt ==
  ASSUME NEW c, NEW map, Distinct(c, map), NEW k \in DOMAIN map
  PROVE  Place(c, k) \in DOMAIN ContentOf(c, map) /\ ContentOf(c, map)[Place(c, k)] = map[k]
<1> DEFINE key == CHOOSE x \in DOMAIN map : Place(c, x) = Place(c, k)
<1>1. key \in DOMAIN map /\ Place(c, key) = Place(c, k)
  OBVIOUS
<1>2. key = k
  BY <1>1 DEF Distinct
<1>3. Place(c, k) \in Places(c, map)
  BY DEF Places
<1> QED BY <1>2, <1>3 DEF ContentOf

LEMMA PlaceFilled ==
  ASSUME NEW r \in Nat, NEW c \in Nat, NEW map, DOMAIN map \subseteq 0 .. r * c - 1,
         NEW p \in (0 .. r - 1) \X (0 .. c - 1)
  PROVE  p \in Places(c, map) <=> Number(c, p) \in DOMAIN map
<1>1. ASSUME NEW k \in DOMAIN map, p = Place(c, k) PROVE Number(c, p) \in DOMAIN map
  <2>1. k \in 0 .. r * c - 1
    OBVIOUS
  <2>2. Number(c, Place(c, k)) = k
    BY <2>1, PlaceThenNumber
  <2> QED BY <2>2, <1>1
<1>2. Place(c, Number(c, p)) = p
  BY NumberThenPlace
<1>3. p \in Places(c, map) => Number(c, p) \in DOMAIN map
  BY <1>1 DEF Places
<1>4. Number(c, p) \in DOMAIN map => p \in Places(c, map)
  BY <1>2 DEF Places
<1> QED BY <1>3, <1>4

(* The map with the value of one number changed is the matrix with the     *)
(* value of one place changed.                                             *)
Changed(map, k, v) == [x \in DOMAIN map \cup {k} |-> IF x = k THEN v ELSE map[x]]

LEMMA ContentChanged ==
  ASSUME NEW r \in Nat, NEW c \in Nat, NEW map, DOMAIN map \subseteq 0 .. r * c - 1,
         NEW k \in 0 .. r * c - 1, NEW v
  PROVE  ContentOf(c, Changed(map, k, v)) = Changed(ContentOf(c, map), Place(c, k), v)
<1> DEFINE new == Changed(map, k, v)
           left == ContentOf(c, new)
           right == Changed(ContentOf(c, map), Place(c, k), v)
<1>1. DOMAIN new = DOMAIN map \cup {k} /\ DOMAIN new \subseteq 0 .. r * c - 1
  BY DEF Changed
<1>d. Distinct(c, map) /\ Distinct(c, new)
  BY <1>1, OnePlace DEF Distinct
<1>2. DOMAIN left = DOMAIN right
  BY <1>1 DEF ContentOf, Places, Changed
<1>3. ASSUME NEW p \in DOMAIN left PROVE left[p] = right[p]
  <2>1. PICK x \in DOMAIN new : p = Place(c, x)
    BY <1>3 DEF ContentOf, Places
  <2>2. left[p] = new[x]
    <3> HIDE DEF new
    <3>1. ContentOf(c, new)[Place(c, x)] = new[x]
      BY <1>d, ContentAt
    <3> QED BY <2>1, <3>1
  <2>3. CASE x = k
    <3>1. new[x] = v
      BY <2>3, <1>1 DEF Changed
    <3>2. right[p] = v
      BY <2>1, <2>3, <1>2, <1>3 DEF Changed
    <3> QED BY <2>2, <3>1, <3>2
  <2>4. CASE x # k
    <3>1. x \in DOMAIN map /\ new[x] = map[x]
      BY <2>1, <2>4, <1>1 DEF Changed
    <3>2. p # Place(c, k)
      BY <2>1, <2>4, <1>1, OnePlace
    <3>3. p \in DOMAIN ContentOf(c, map) /\ ContentOf(c, map)[p] = map[x]
      <4>1. x \in DOMAIN map
        BY <3>1
      <4>2. /\ Place(c, x) \in DOMAIN ContentOf(c, map)
            /\ ContentOf(c, map)[Place(c, x)] = map[x]
        BY <4>1, <1>d, ContentAt
      <4> QED BY <2>1, <4>2
    <3>4. right[p] = ContentOf(c, map)[p]
      BY <3>2, <3>3 DEF Changed
    <3> QED BY <2>2, <3>1, <3>3, <3>4
  <2> QED BY <2>3, <2>4
<1>4. left = [p \in DOMAIN left |-> left[p]] /\ right = [p \in DOMAIN right |-> right[p]]
  BY DEF ContentOf, Changed
<1> HIDE DEF left, right
<1>5. left = right
  BY <1>2, <1>3, <1>4
<1> QED BY <1>5 DEF left, right, new

LEMMA ContentZero ==
  ASSUME NEW r \in Nat, NEW c \in Nat, NEW map, DOMAIN map \subseteq 0 .. r * c - 1
  PROVE  ContentOf(c, [k \in DOMAIN map |-> 0]) = [p \in DOMAIN ContentOf(c, map) |-> 0]
<1> DEFINE zero == [k \in DOMAIN map |-> 0]
<1>1. Places(c, zero) = Places(c, map) /\ DOMAIN ContentOf(c, map) = Places(c, map)
  BY DEF Places, ContentOf
<1>2. ASSUME NEW p \in Places(c, zero)
      PROVE  zero[CHOOSE key \in DOMAIN zero : Place(c, key) = p] = 0
  BY <1>2 DEF Places
<1> QED BY <1>1, <1>2 DEF ContentOf

(* As many places as numbers. *)
LEMMA PlacesCounted ==
  ASSUME NEW r \in Nat, NEW c \in Nat, NEW map, DOMAIN map \subseteq 0 .. r * c - 1
  PROVE  /\ IsFiniteSet(DOMAIN map)
         /\ Cardinality(Places(c, map)) = Cardinality(DOMAIN map)
<1> DEFINE f == [k \in DOMAIN map |-> Place(c, k)]
<1>1. IsFiniteSet(DOMAIN map)
  <2>1. r * c - 1 \in Int
    OBVIOUS
  <2>2. IsFiniteSet(0 .. r * c - 1)
    BY <2>1, FS_Interval
  <2> QED BY <2>2, FS_Subset
<1>2. f \in Bijection(DOMAIN map, Places(c, map))
  <2>1. f \in [DOMAIN map -> Places(c, map)]
    BY DEF Places
  <2>2. \A k, l \in DOMAIN map : f[k] = f[l] => k = l
    BY OnePlace
  <2>3. \A p \in Places(c, map) : \E k \in DOMAIN map : f[k] = p
    BY DEF Places
  <2> QED BY <2>1, <2>2, <2>3 DEF Bijection, Injection, Surjection, IsInjective
<1>3. ExistsBijection(DOMAIN map, Places(c, map))
  BY <1>2 DEF ExistsBijection
<1> QED BY <1>1, <1>3, FS_Bijection

-----------------------------------------------------------------------------
(* The type invariant, with what its formulas leave open: dataMap is a     *)
(* function into the values, and unzeroNum counts the numbers in it.       *)
IInv ==
  /\ m \in Nat
  /\ n \in Nat
  /\ <<m, n>> \in Size \cup {<<0, 0>>}
  /\ DOMAIN dataMap \subseteq 0 .. m * n - 1
  /\ dataMap \in [DOMAIN dataMap -> Value]
  /\ unzeroNum = Cardinality(DOMAIN dataMap)

LEMMA EmptyMap ==
  ASSUME NEW map, map = [k \in {} |-> 0]
  PROVE  /\ DOMAIN map = {} /\ map \in [DOMAIN map -> Value]
         /\ Cardinality(DOMAIN map) = 0
BY FS_EmptySet

LEMMA InitInv == Init => IInv
<1> SUFFICES ASSUME Init PROVE IInv
  OBVIOUS
<1>1. DOMAIN dataMap = {} /\ dataMap \in [DOMAIN dataMap -> Value] /\ Cardinality(DOMAIN dataMap) = 0
  BY EmptyMap DEF Init
<1> QED BY <1>1 DEF Init, IInv

(* A new number makes one more. *)
LEMMA OneMore ==
  ASSUME NEW r \in Nat, NEW c \in Nat, NEW map, DOMAIN map \subseteq 0 .. r * c - 1, NEW k, NEW v
  PROVE  Cardinality(DOMAIN Changed(map, k, v)) =
           Cardinality(DOMAIN map) + (IF k \in DOMAIN map THEN 0 ELSE 1)
<1>1. IsFiniteSet(DOMAIN map)
  BY PlacesCounted
<1>2. Cardinality(DOMAIN map) \in Nat
  BY <1>1, FS_CardinalityType
<1>3. DOMAIN Changed(map, k, v) = DOMAIN map \cup {k}
  BY DEF Changed
<1> QED BY <1>1, <1>2, <1>3, FS_AddElement

LEMMA SetValueInv ==
  ASSUME Parameters, IInv, NEW p \in Position, NEW v \in Value, NEW isAddTo \in BOOLEAN,
         SetValue(p[1], p[2], v, isAddTo)
  PROVE  IInv'
<1> DEFINE key == KeyOf(p[1], p[2])
           new == IF isAddTo /\ key \in DOMAIN dataMap THEN dataMap[key] + v ELSE v
<1>1. new \in Value /\ dataMap' = Changed(dataMap, key, new) /\ m' = m /\ n' = n
  BY DEF SetValue, Written, Changed
<1>2. key \in 0 .. m * n - 1
  BY NumberThenPlace DEF IInv, Position, KeyOf, Number
<1>3. DOMAIN dataMap' = DOMAIN dataMap \cup {key}
  BY <1>1 DEF Changed
<1>4. dataMap' \in [DOMAIN dataMap' -> Value]
  BY <1>1, <1>3 DEF Changed, IInv
<1>5. unzeroNum' = Cardinality(DOMAIN dataMap')
  <2>1. unzeroNum' = IF key \in DOMAIN dataMap THEN unzeroNum ELSE unzeroNum + 1
    BY DEF SetValue
  <2>2. Cardinality(DOMAIN dataMap') =
          Cardinality(DOMAIN dataMap) + (IF key \in DOMAIN dataMap THEN 0 ELSE 1)
    BY <1>1, OneMore DEF IInv
  <2>3. Cardinality(DOMAIN dataMap) \in Nat
    BY PlacesCounted, FS_CardinalityType DEF IInv
  <2> QED BY <2>1, <2>2, <2>3 DEF IInv
<1> QED BY <1>1, <1>2, <1>3, <1>4, <1>5 DEF IInv

LEMMA NextInv == Parameters /\ IInv /\ [Next]_vars => IInv'
<1> SUFFICES ASSUME Parameters, IInv, [Next]_vars PROVE IInv'
  OBVIOUS
<1>1. CASE FreeSpace
  <2>1. DOMAIN dataMap' = {} /\ dataMap' \in [DOMAIN dataMap' -> Value]
        /\ Cardinality(DOMAIN dataMap') = 0
    BY <1>1, EmptyMap DEF FreeSpace
  <2> QED BY <2>1, <1>1 DEF FreeSpace, IInv
<1>2. ASSUME NEW s \in Size, Initial(s) PROVE IInv'
  <2>1. DOMAIN dataMap' = {} /\ dataMap' \in [DOMAIN dataMap' -> Value]
        /\ Cardinality(DOMAIN dataMap') = 0
    BY <1>2, EmptyMap DEF Initial
  <2>2. m' \in Nat /\ n' \in Nat /\ <<m', n'>> = s
    BY <1>2 DEF Parameters, Initial
  <2> QED BY <2>1, <2>2, <1>2 DEF Initial, IInv
<1>3. ASSUME NEW p \in Position, NEW v \in Value, NEW isAddTo \in BOOLEAN,
             SetValue(p[1], p[2], v, isAddTo)
      PROVE  IInv'
  BY <1>3, SetValueInv
<1>4. CASE MakeZero
  <2>1. DOMAIN dataMap' = DOMAIN dataMap /\ dataMap' \in [DOMAIN dataMap' -> Value]
    BY <1>4 DEF MakeZero, Parameters
  <2> QED BY <2>1, <1>4 DEF MakeZero, IInv
<1>5. CASE UNCHANGED vars
  BY <1>5 DEF vars, IInv
<1> QED BY <1>1, <1>2, <1>3, <1>4, <1>5 DEF Next

LEMMA InvIsType == IInv => TypeOK
<1> SUFFICES ASSUME IInv PROVE TypeOK
  OBVIOUS
<1>1. Cardinality(DOMAIN dataMap) \in Nat
  BY PlacesCounted, FS_CardinalityType DEF IInv
<1> QED BY <1>1 DEF IInv, TypeOK

LEMMA StructureIs == GetStructure = Places(n, dataMap) /\ Content = ContentOf(n, dataMap)
BY DEF GetStructure, PositionOf, Places, Place, Content, ContentOf

LEMMA InvIsCounted == IInv => Counted
<1> SUFFICES ASSUME IInv PROVE Counted
  OBVIOUS
<1>1. Cardinality(GetStructure) = Cardinality(DOMAIN dataMap)
  BY PlacesCounted, StructureIs DEF IInv
<1>2. GetStructure \subseteq Position
  BY PlaceThenNumber, StructureIs DEF Places, Position, IInv
<1> QED BY <1>1, <1>2 DEF Counted, IInv

LEMMA InvAnswers == IInv => SquareAnswers
<1> SUFFICES ASSUME IInv, m = n, NEW p \in Position
             PROVE  GetValue(p[1], p[2]) = IF p \in GetStructure THEN Content[p] ELSE Absent
  BY DEF SquareAnswers
<1> DEFINE k == Number(n, p)
<1>1. KeyRead(p[1], p[2]) = k
  BY DEF KeyRead, Number
<1>2. p \in (0 .. m - 1) \X (0 .. n - 1)
  BY DEF Position
<1>3. Place(n, k) = p /\ (p \in Places(n, dataMap) <=> k \in DOMAIN dataMap)
  BY <1>2, NumberThenPlace, PlaceFilled DEF IInv
<1>d. Distinct(n, dataMap)
  BY OnePlace DEF Distinct, IInv
<1>4. ASSUME k \in DOMAIN dataMap PROVE Content[p] = dataMap[k]
  <2>1. ContentOf(n, dataMap)[Place(n, k)] = dataMap[k]
    BY <1>4, <1>d, ContentAt
  <2> QED BY <2>1, <1>3, StructureIs
<1> QED BY <1>1, <1>3, <1>4, StructureIs DEF GetValue

(* The map of a matrix of any size holds numbers of its positions only, no *)
(* two of one position, and unzeroNum, by which callers size their arrays, *)
(* is how many getStructure and getValues fill in.                         *)
THEOREM MapCorrect == ASSUME Parameters PROVE Spec => [](TypeOK /\ Counted)
<1>1. IInv /\ [Next]_vars => IInv'
  BY NextInv
<1> QED BY <1>1, InitInv, InvIsType, InvIsCounted, PTL DEF Spec

(* In a square matrix of any size getValue, which numbers the positions in *)
(* its own way, finds what setValue wrote.                                 *)
THEOREM SquareCorrect == ASSUME Parameters PROVE Spec => []SquareAnswers
<1>1. IInv /\ [Next]_vars => IInv'
  BY NextInv
<1> QED BY <1>1, InitInv, InvAnswers, PTL DEF Spec

-----------------------------------------------------------------------------
LEMMA EmptyContent ==
  ASSUME NEW c, NEW map, DOMAIN map = {}
  PROVE  ContentOf(c, map) = Abstract!Empty
<1>1. Places(c, map) = {}
  BY DEF Places
<1> QED BY <1>1 DEF ContentOf, Abstract!Empty

LEMMA InitMaps == Init => Abstract!Init
<1> SUFFICES ASSUME Init PROVE Abstract!Init
  OBVIOUS
<1>1. ContentOf(n, dataMap) = Abstract!Empty
  BY EmptyContent DEF Init
<1> QED BY <1>1, StructureIs DEF Init, Abstract!Init

LEMMA ResizeMaps ==
  ASSUME m' \in Nat, n' \in Nat, <<m', n'>> \in Size \cup {<<0, 0>>}, dataMap' = [k \in {} |-> 0]
  PROVE  Abstract!Next
<1> DEFINE s == <<m', n'>>
<1>1. Content' = ContentOf(n', dataMap')
  BY StructureIs DEF GetStructure, PositionOf, Places, Place, Content, ContentOf
<1>2. DOMAIN dataMap' = {}
  OBVIOUS
<1>3. Content' = Abstract!Empty
  BY <1>1, <1>2, EmptyContent
<1>4. Abstract!Resize(s)
  BY <1>3 DEF Abstract!Resize
<1> QED BY <1>4 DEF Abstract!Next

LEMMA SetValueMaps ==
  ASSUME IInv, NEW p \in Position, NEW v \in Value, NEW isAddTo \in BOOLEAN,
         SetValue(p[1], p[2], v, isAddTo)
  PROVE  Abstract!Next
<1> DEFINE key == KeyOf(p[1], p[2])
           new == IF isAddTo /\ key \in DOMAIN dataMap THEN dataMap[key] + v ELSE v
<1>1. new \in Value /\ dataMap' = Changed(dataMap, key, new) /\ m' = m /\ n' = n
  BY DEF SetValue, Written, Changed
<1>2. key = Number(n, p) /\ p \in (0 .. m - 1) \X (0 .. n - 1)
  BY DEF KeyOf, Number, Position
<1>3. key \in 0 .. m * n - 1 /\ Place(n, key) = p
  BY <1>2, NumberThenPlace DEF IInv
<1>4. p \in DOMAIN Content <=> key \in DOMAIN dataMap
  BY <1>2, PlaceFilled, StructureIs DEF IInv, ContentOf
<1>5. ASSUME key \in DOMAIN dataMap PROVE Content[p] = dataMap[key]
  <2>1. Distinct(n, dataMap)
    BY OnePlace DEF Distinct, IInv
  <2>2. ContentOf(n, dataMap)[Place(n, key)] = dataMap[key]
    BY <1>5, <2>1, ContentAt
  <2> QED BY <2>2, <1>3, StructureIs
<1> HIDE DEF key, new
<1>6. Content' = ContentOf(n', dataMap')
  BY StructureIs DEF GetStructure, PositionOf, Places, Place, Content, ContentOf
<1>7. ContentOf(n, Changed(dataMap, key, new)) = Changed(ContentOf(n, dataMap), Place(n, key), new)
  BY <1>3, ContentChanged DEF IInv
<1>8. Content' = Changed(Content, p, new)
  BY <1>1, <1>3, <1>6, <1>7, StructureIs
<1>9. Content' = Abstract!Put(p, new)
  BY <1>8 DEF Changed, Abstract!Put, Abstract!Filled
<1>10. p \in Abstract!Position
  BY <1>2 DEF Abstract!Position
<1>11. CASE isAddTo /\ key \in DOMAIN dataMap
  <2>1. new = Content[p] + v /\ p \in Abstract!Filled
    BY <1>11, <1>4, <1>5 DEF new, Abstract!Filled
  <2>2. Abstract!AddValue(p, v)
    BY <2>1, <1>9, <1>1 DEF Abstract!AddValue
  <2> QED BY <2>2, <1>10 DEF Abstract!Next
<1>12. CASE ~(isAddTo /\ key \in DOMAIN dataMap)
  <2>1. new = v
    BY <1>12 DEF new
  <2>2. Abstract!SetValue(p, v)
    BY <2>1, <1>9, <1>1 DEF Abstract!SetValue
  <2> QED BY <2>2, <1>10 DEF Abstract!Next
<1> QED BY <1>11, <1>12

LEMMA StepMaps ==
  ASSUME Parameters, IInv, [Next]_vars
  PROVE  [Abstract!Next]_(Abstract!vars)
<1>1. CASE FreeSpace
  BY <1>1, ResizeMaps DEF FreeSpace
<1>2. ASSUME NEW s \in Size, Initial(s) PROVE Abstract!Next
  <2>1. m' \in Nat /\ n' \in Nat /\ <<m', n'>> = s
    BY <1>2 DEF Parameters, Initial
  <2>2. <<m', n'>> \in Size \cup {<<0, 0>>} /\ dataMap' = [k \in {} |-> 0]
    BY <2>1, <1>2 DEF Initial
  <2> QED BY <2>1, <2>2, ResizeMaps
<1>3. ASSUME NEW p \in Position, NEW v \in Value, NEW isAddTo \in BOOLEAN,
             SetValue(p[1], p[2], v, isAddTo)
      PROVE  Abstract!Next
  BY <1>3, SetValueMaps
<1>4. CASE MakeZero
  <2>1. Content' = ContentOf(n', dataMap')
    BY StructureIs DEF GetStructure, PositionOf, Places, Place, Content, ContentOf
  <2>2. ContentOf(n, [k \in DOMAIN dataMap |-> 0]) = [q \in DOMAIN ContentOf(n, dataMap) |-> 0]
    BY ContentZero DEF IInv
  <2>3. Content' = [q \in Abstract!Filled |-> 0]
    BY <1>4, <2>1, <2>2, StructureIs DEF MakeZero, Abstract!Filled
  <2>4. Abstract!MakeZero
    BY <1>4, <2>3 DEF MakeZero, Abstract!MakeZero
  <2> QED BY <2>4 DEF Abstract!Next
<1>5. CASE UNCHANGED vars
  BY <1>5 DEF vars, Abstract!vars, Content, GetStructure, PositionOf
<1> QED BY <1>1, <1>2, <1>3, <1>4, <1>5 DEF Next

(* Every history of the map is one of the abstract matrix: a call changes  *)
(* the value of the position it names and of no other.                     *)
THEOREM MapRefinesMatrix == ASSUME Parameters PROVE Spec => Abstract!Spec
<1>1. IInv /\ [Next]_vars => IInv'
  BY NextInv
<1>2. IInv /\ [Next]_vars => [Abstract!Next]_(Abstract!vars)
  BY StepMaps
<1> QED BY <1>1, <1>2, InitInv, InitMaps, PTL DEF Spec, Abstract!Spec

=============================================================================
