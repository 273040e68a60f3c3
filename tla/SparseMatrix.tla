---------------------------- MODULE SparseMatrix ----------------------------
(***************************************************************************)
(* The sparse matrix of src/src/pscpu/SparseMatrix.cpp: every cell is a    *)
(* node on the circular list of its row, linked by "right", and on that of *)
(* its column, linked by "down".  A call is one step.                      *)
(*                                                                         *)
(* A node stands at its position <<row, column>>, which its triple         *)
(* repeats; the heads of row i and of column j stand at <<i, -1>> and      *)
(* <<-1, j>>.  The code compares an address only with that of a head.      *)
(*                                                                         *)
(* Values are small integers and a sum that leaves Value is not formed:    *)
(* no guard of the code looks at a value.                                  *)
(*                                                                         *)
(* An operator X_Suffix next to an operator X is X with a plausible bug;   *)
(* no action uses it.                                                      *)
(***************************************************************************)
EXTENDS Integers, SequencesExt

CONSTANTS
  Size,     \* the sizes a matrix is given, <<rows, columns>>
  Value,
  Other     \* the contents of the matrices that are added to this one

Parameters == \A s \in Size : s \in Nat \X Nat

VARIABLES
  m,
  n,
  mx        \* the nodes: right, down, value and unzeroNum

vars == <<m, n, mx>>

RowHead(i) == <<i, -1>>
ColHead(j) == <<-1, j>>

Absent == -9999    \* what getValue returns for a position without a node

NoMatrix == [right |-> [a \in {} |-> a], down |-> [a \in {} |-> a],
             value |-> [a \in {} |-> 0], unzeroNum |-> 0]

-----------------------------------------------------------------------------
(* The nodes of a line, a row (d = 1) or a column (d = 2), in the order of *)
(* its list, which begins and ends at the head.                            *)
OnLine(next, d, head) == {a \in DOMAIN next : a[d] = head[d]}

Line(next, d, head) ==
  LET from[a \in OnLine(next, d, head)] ==
        IF next[a] = head THEN <<>> ELSE <<next[a]>> \o from[next[a]]
  IN  from[head]

Row(i) == Line(mx.right, 1, RowHead(i))
Column(j) == Line(mx.down, 2, ColHead(j))

RowMajor == FlattenSeq([i \in 1 .. m |-> Row(i - 1)])
ColumnMajor == FlattenSeq([j \in 1 .. n |-> Column(j - 1)])

(* "pre" of setValue when its loops end: the last node before the place of *)
(* position p in its row and in its column.                                *)
Before(next, d, head, stop) ==
  LET walk[a \in OnLine(next, d, head)] ==
        IF next[a] = head \/ next[a] \in stop THEN a ELSE walk[next[a]]
  IN  walk[head]

Left(x, p) ==
  Before(x.right, 1, RowHead(p[1]), {a \in DOMAIN x.value : a[2] >= p[2]})
Above(x, p) ==
  Before(x.down, 2, ColHead(p[2]), {a \in DOMAIN x.value : a[1] > p[1]})

LinkAfter(next, a, p) ==
  [b \in DOMAIN next \cup {p} |-> IF b = p THEN next[a] ELSE IF b = a THEN p ELSE next[b]]

(* setValue on the nodes x: the value of position p becomes v, or the sum  *)
(* of the two, and a position without a node gets one on both lists.       *)
\* mutant: a new node goes to the head of its column
Put_ColumnUnsorted(x, p, v, isAddTo) ==
  LET pre == Left(x, p)
  IN  IF x.right[pre] = p
      THEN [x EXCEPT !.value[p] = IF isAddTo THEN @ + v ELSE v]
      ELSE [right |-> LinkAfter(x.right, pre, p),
            down |-> LinkAfter(x.down, ColHead(p[2]), p),
            value |-> [a \in DOMAIN x.value \cup {p} |-> IF a = p THEN v ELSE x.value[a]],
            unzeroNum |-> x.unzeroNum + 1]

Put(x, p, v, isAddTo) ==
  LET pre == Left(x, p)
  IN  IF x.right[pre] = p
      THEN [x EXCEPT !.value[p] = IF isAddTo THEN @ + v ELSE v]
      ELSE [right |-> LinkAfter(x.right, pre, p),
            down |-> LinkAfter(x.down, Above(x, p), p),
            value |-> [a \in DOMAIN x.value \cup {p} |-> IF a = p THEN v ELSE x.value[a]],
            unzeroNum |-> x.unzeroNum + 1]

-----------------------------------------------------------------------------
Init ==
  /\ m = 0
  /\ n = 0
  /\ mx = NoMatrix

(* freeSpace deletes the nodes it meets on the rows, and the heads.        *)
OnRows == UNION {ToSet(Row(i)) : i \in 0 .. m - 1}

Unreached ==
  LET lost == DOMAIN mx.value \ OnRows
  IN  [right |-> [a \in lost |-> mx.right[a]], down |-> [a \in lost |-> mx.down[a]],
       value |-> [a \in lost |-> mx.value[a]], unzeroNum |-> 0]

FreeSpace ==
  /\ m' = 0
  /\ n' = 0
  /\ mx' = Unreached

(* Every head is a list of its own. *)
Initial(s) ==
  LET rowHeads == {RowHead(i) : i \in 0 .. s[1] - 1}
      colHeads == {ColHead(j) : j \in 0 .. s[2] - 1}
  IN
  /\ m' = s[1]
  /\ n' = s[2]
  /\ mx' = [Unreached EXCEPT
              !.right = [a \in DOMAIN @ \cup rowHeads |-> IF a \in rowHeads THEN a ELSE @[a]],
              !.down = [a \in DOMAIN @ \cup colHeads |-> IF a \in colHeads THEN a ELSE @[a]]]

Position == (0 .. m - 1) \X (0 .. n - 1)

SetValue(p, v, isAddTo) ==
  /\ p \in Position
  /\ mx' = Put(mx, p, v, isAddTo)
  /\ \A a \in DOMAIN mx'.value : mx'.value[a] \in Value
  /\ UNCHANGED <<m, n>>

(* add goes along the rows of the other matrix and sets, in spite of its   *)
(* name, each of its positions to w times its value.                       *)
Add(other, w) ==
  LET after[k \in 0 .. m * n] ==
        IF k = 0 THEN mx
        ELSE LET p == <<(k - 1) \div n, (k - 1) % n>>
             IN  IF p \in DOMAIN other THEN Put(after[k - 1], p, w * other[p], FALSE)
                 ELSE after[k - 1]
  IN
  /\ DOMAIN other \subseteq Position
  /\ mx' = after[m * n]
  /\ \A a \in DOMAIN mx'.value : mx'.value[a] \in Value
  /\ UNCHANGED <<m, n>>

MakeZero ==
  /\ mx' = [mx EXCEPT !.value = [a \in DOMAIN @ |-> IF a \in OnRows THEN 0 ELSE @[a]]]
  /\ UNCHANGED <<m, n>>

Next ==
  \/ FreeSpace
  \/ \E s \in Size : Initial(s)
  \/ \E p \in Position, v \in Value, isAddTo \in BOOLEAN : SetValue(p, v, isAddTo)
  \/ \E other \in Other, w \in Value : Add(other, w)
  \/ MakeZero

Spec == Init /\ [][Next]_vars

-----------------------------------------------------------------------------
(* What the matrix answers. *)
GetValue(i, j) ==
  LET found == SelectSeq(Row(i), LAMBDA a : a[2] = j)
  IN  IF found = <<>> THEN Absent ELSE mx.value[found[1]]

RowSum(i) == FoldLeft(LAMBDA sum, a : sum + mx.value[a], 0, Row(i))

GetStructure == RowMajor

ValuesOf(order) == [k \in DOMAIN order |-> mx.value[order[k]]]
GetValues == ValuesOf(RowMajor)
FormValueByRow == ValuesOf(RowMajor)
FormValueByCol == ValuesOf(ColumnMajor)

(* The arrays of a matrix compressed by rows or by columns: where each     *)
(* starts, the other coordinate of each entry, and the values.             *)
Starts(lists) ==
  [k \in 1 .. Len(lists) + 1 |-> Len(FlattenSeq(SubSeq(lists, 1, k - 1)))]

FormMatrixByRow ==
  [start |-> Starts([i \in 1 .. m |-> Row(i - 1)]),
   index |-> [k \in DOMAIN RowMajor |-> RowMajor[k][2]], values |-> FormValueByRow]

FormMatrixByCol ==
  [start |-> Starts([j \in 1 .. n |-> Column(j - 1)]),
   index |-> [k \in DOMAIN ColumnMajor |-> ColumnMajor[k][1]], values |-> FormValueByCol]

-----------------------------------------------------------------------------
TypeOK ==
  /\ <<m, n>> \in Size \cup {<<0, 0>>}
  /\ DOMAIN mx.value \subseteq Position
  /\ DOMAIN mx.right = DOMAIN mx.value \cup {RowHead(i) : i \in 0 .. m - 1}
  /\ DOMAIN mx.down = DOMAIN mx.value \cup {ColHead(j) : j \in 0 .. n - 1}
  /\ mx.unzeroNum \in Nat

(* Every node is on the list of its row and on that of its column, once,   *)
(* and both lists are sorted: without this two nodes can stand for one     *)
(* position, or a solver gets rows out of order.  A node that is on a      *)
(* column only would outlive freeSpace.  unzeroNum, by which callers size  *)
(* their arrays, is the number of nodes.                                   *)
WellLinked ==
  /\ \A i \in 0 .. m - 1 :
       LET r == Row(i) IN
       /\ {r[k] : k \in DOMAIN r} = {a \in DOMAIN mx.value : a[1] = i}
       /\ \A k \in 1 .. Len(r) - 1 : r[k][2] < r[k + 1][2]
  /\ \A j \in 0 .. n - 1 :
       LET c == Column(j) IN
       /\ {c[k] : k \in DOMAIN c} = {a \in DOMAIN mx.value : a[2] = j}
       /\ \A k \in 1 .. Len(c) - 1 : c[k][1] < c[k + 1][1]
  /\ mx.unzeroNum = Cardinality(DOMAIN mx.value)

(* The matrix that the arrays of one orientation describe.                 *)
Described(lines, arrays, Place(_, _)) ==
  UNION {{<<Place(line, arrays.index[k]), arrays.values[k]>> :
            k \in {b \in DOMAIN arrays.index :
                     arrays.start[line + 1] < b /\ b <= arrays.start[line + 2]}} :
         line \in 0 .. lines - 1}

(* The arrays formed by rows, the arrays formed by columns, the structure  *)
(* with the values, and the lookups of single values describe one matrix,  *)
(* and the arrays formed for a solver have unzeroNum entries.              *)
AnswersAgree ==
  LET content == {<<a, mx.value[a]>> : a \in DOMAIN mx.value}
      byRow == FormMatrixByRow
      byCol == FormMatrixByCol
  IN
  /\ Described(m, byRow, LAMBDA i, j : <<i, j>>) = content
  /\ Described(n, byCol, LAMBDA j, i : <<i, j>>) = content
  /\ byRow.start[m + 1] = mx.unzeroNum
  /\ byCol.start[n + 1] = mx.unzeroNum
  /\ {<<GetStructure[k], GetValues[k]>> : k \in DOMAIN GetStructure} = content
  /\ \A p \in Position :
       GetValue(p[1], p[2]) = IF p \in DOMAIN mx.value THEN mx.value[p] ELSE Absent
  /\ \A i \in 0 .. m - 1 :
       RowSum(i) = FoldLeft(LAMBDA s, k : s + byRow.values[k], 0,
                     [k \in 1 .. byRow.start[i + 2] - byRow.start[i + 1] |->
                        byRow.start[i + 1] + k])

Abstract == INSTANCE AbstractMatrix WITH rows <- m, cols <- n, cell <- mx.value
=============================================================================
