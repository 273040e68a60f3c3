------------------------------ MODULE Jacobian ------------------------------
(***************************************************************************)
(* The Jacobian matrices of src/src/pscpu/Jacobian.cpp: the cells each     *)
(* measure writes in its row.  The values are left out; what is kept of a  *)
(* value is the set of the evaluations it depends on, by their numbers:    *)
(* a cell that is overwritten depends on the evaluation that overwrites    *)
(* it, a constant on none, and a cell that is added to depends also on     *)
(* those it depended on before.                                            *)
(***************************************************************************)
EXTENDS Integers, Sequences

(* A matrix holds, for each cell <<row, column>> that has a value, the     *)
(* evaluations.  A row is written by columns: overwritten, set to a        *)
(* constant, and, after that, added to.                                    *)
NoCells == [p \in {} |-> {}]
Writes(vary, const, add) == [vary |-> vary, const |-> const, add |-> add]
Overwritten(columns) == Writes(columns, {}, {})
Constant(column) == Writes({}, {column}, {})
Nothing == Writes({}, {}, {})
Columns(w) == w.vary \cup w.const \cup w.add

(* The matrix after evaluation "round" has written the rows of "rows".     *)
Written(matrix, rows, round) ==
  LET cells == UNION {{r} \X Columns(rows[r]) : r \in DOMAIN rows}
      Value(p) ==
        LET w == rows[p[1]]
            old == IF p \in DOMAIN matrix THEN matrix[p] ELSE {}
            first == IF p[2] \in w.vary THEN {round} ELSE IF p[2] \in w.const THEN {} ELSE old
        IN  IF p[2] \in w.add THEN first \cup {round} ELSE first
  IN  [p \in DOMAIN matrix \cup cells |-> IF p \in cells THEN Value(p) ELSE matrix[p]]

-----------------------------------------------------------------------------
(* _bus_p_polar and _bus_q_polar: the cell of the angle of the bus itself  *)
(* is set on the way along the row of the admittance matrix and completed  *)
(* after it.                                                               *)
BusPower_polar(y, num) ==
  Writes(UNION {{j, j + y.n} : j \in y.row[num - 1]}, {}, {num - 1 + y.n})

(* The four functions of a branch, by active or reactive power and by end, *)
(* write the same cells, and so do those in rectangular coordinates.       *)
EndsOf(y, k) == {y.lineFrom[k], y.lineTo[k]}
Line_polar(y, k) == Overwritten(EndsOf(y, k) \cup {i + y.n : i \in EndsOf(y, k)})
Line_rect(y, k) == Overwritten(EndsOf(y, k) \cup {i + y.n : i \in EndsOf(y, k)})

IsLine(type) == type \in {"from P", "from Q", "to P", "to Q"}

OfMeasure_polar(y, measure) ==
  LET num == measure.num IN
  CASE measure.type = "angle" -> Constant(num + y.n - 1)
    [] measure.type = "voltage" -> Constant(num - 1)
    [] measure.type \in {"P", "Q"} -> BusPower_polar(y, num)
    [] IsLine(measure.type) -> Line_polar(y, num)
    [] OTHER -> Nothing

(* _bus_p_rect and _bus_q_rect: the two cells of the bus itself are sums   *)
(* that are set after the others.                                          *)
BusPower_rect(y, num) ==
  LET i == num - 1
  IN  Overwritten(UNION {{j, j + y.n} : j \in y.row[i] \ {i}} \cup {i, i + y.n})

(* _bus_a_rect writes nothing.                                             *)
OfMeasure_rect(y, measure) ==
  LET num == measure.num IN
  CASE measure.type = "voltage" -> Overwritten({num - 1, num - 1 + y.n})
    [] measure.type \in {"P", "Q"} -> BusPower_rect(y, num)
    [] IsLine(measure.type) -> Line_rect(y, num)
    [] measure.type = "E" -> Constant(num - 1)
    [] measure.type = "F" -> Constant(num + y.n - 1)
    [] OTHER -> Nothing

OfMeasure_fullState(y, measure) ==
  LET i == measure.num - 1 IN
  CASE measure.type = "angle" -> Constant(i + y.n)
    [] measure.type = "voltage" -> Constant(i)
    [] measure.type = "P" -> Constant(i + 2 * y.n)
    [] measure.type = "Q" -> Constant(i + 3 * y.n)
    [] IsLine(measure.type) -> Line_polar(y, measure.num)
    [] OTHER -> Nothing

(* The rows of a vector of measures, from startRow on. *)
RowsFrom(startRow, meas, OfMeasure(_)) ==
  [r \in startRow .. startRow + Len(meas) - 1 |-> OfMeasure(meas[r - startRow + 1])]

FormJacobian_polar(y, meas) == RowsFrom(0, meas, LAMBDA e : OfMeasure_polar(y, e))
FormJacobian_rect(y, meas) == RowsFrom(0, meas, LAMBDA e : OfMeasure_rect(y, e))
FormJacobian_fullState(y, meas, startRow) ==
  RowsFrom(startRow, meas, LAMBDA e : OfMeasure_fullState(y, e))

-----------------------------------------------------------------------------
(* The model of current injections: the rows of the balances do not depend *)
(* on the state and are formed once, the others at each evaluation.        *)
BusNet_CI_rect(y, num, current) ==
  Writes({}, UNION {{j, j + y.n} : j \in y.row[num - 1]} \cup {num - 1 + current * y.n}, {})

OfMeasure_const(y, measure) ==
  CASE measure.type = "net real" -> BusNet_CI_rect(y, measure.num, 2)
    [] measure.type = "net image" -> BusNet_CI_rect(y, measure.num, 3)
    [] OTHER -> Nothing

OfMeasure_vary(y, measure) ==
  LET i == measure.num - 1 n == y.n IN
  CASE measure.type = "voltage" -> Overwritten({i, i + n})
    [] measure.type \in {"P", "Q"} -> Overwritten({i, i + n, i + 2 * n, i + 3 * n})
    [] measure.type = "E" -> Constant(i)
    [] measure.type = "F" -> Constant(i + n)
    [] measure.type = "Ix" -> Constant(i + 2 * n)
    [] measure.type = "Iy" -> Constant(i + 3 * n)
    [] OTHER -> Nothing

FormJacobian_CIHM_rect_const(y, meas) == RowsFrom(0, meas, LAMBDA e : OfMeasure_const(y, e))
FormJacobian_CIHM_rect_vary(y, meas) == RowsFrom(0, meas, LAMBDA e : OfMeasure_vary(y, e))
=============================================================================
