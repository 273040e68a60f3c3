------------------------------- MODULE Hessian ------------------------------
(***************************************************************************)
(* The Hessian matrices of src/src/pscpu/Hessian.cpp: the cells to which   *)
(* each measure adds its second derivatives, times its multiplier.  Only   *)
(* the lower triangle is kept.  What is kept of a value is the set of the  *)
(* pairs of an evaluation and a multiplier that were added up in it.       *)
(***************************************************************************)
EXTENDS Integers, Sequences

(* The cell of two variables of which either may be the greater. *)
Lower(a, b) == IF a > b THEN <<a, b>> ELSE <<b, a>>

(* _bus_p_polar and _bus_q_polar, along the row of the admittance matrix.  *)
BusPower_polar(y, num) ==
  LET pos == num - 1
      n == y.n
      Own == {<<pos, pos>>, <<pos + n, pos>>, <<pos + n, pos + n>>}
      With(j) ==
        {Lower(j, pos), <<j + n, j>>, <<pos + n, j>>, <<j + n, pos>>, <<j + n, j + n>>,
         Lower(pos + n, j + n)}
  IN  UNION {IF j = pos THEN Own ELSE With(j) : j \in y.row[pos]}

Line_polar(i, j, n) ==
  {<<i, i>>, <<i + n, i>>, <<i + n, j>>, <<i + n, i + n>>, <<j + n, i>>, <<j + n, j>>,
   <<j + n, j + n>>, Lower(i, j), Lower(i + n, j + n)}

BusPower_rect(y, num) ==
  LET pos == num - 1
      n == y.n
      With(j) == {Lower(j, pos), Lower(j + n, pos + n), <<pos + n, j>>, <<j + n, pos>>}
  IN  UNION {IF j = pos THEN {<<pos, pos>>, <<pos + n, pos + n>>} ELSE With(j) : j \in y.row[pos]}

BusV_rect(i, n) == {<<i, i>>, <<i + n, i + n>>}

Line_rect(i, j, n) ==
  {<<i, i>>, <<i + n, i + n>>, <<i + n, j>>, <<j + n, i>>, Lower(i, j), Lower(i + n, j + n)}

-----------------------------------------------------------------------------
OfMeasure_fullState(y, measure) ==
  LET k == measure.num IN
  CASE measure.type \in {"from P", "from Q"} -> Line_polar(y.lineFrom[k], y.lineTo[k], y.n)
    [] measure.type \in {"to P", "to Q"} -> Line_polar(y.lineTo[k], y.lineFrom[k], y.n)
    [] OTHER -> {}

OfMeasure_polar(y, measure) ==
  IF measure.type \in {"P", "Q"} THEN BusPower_polar(y, measure.num)
  ELSE OfMeasure_fullState(y, measure)

OfMeasure_rect(y, measure) ==
  LET num == measure.num IN
  CASE measure.type = "voltage" -> BusV_rect(num - 1, y.n)
    [] measure.type \in {"P", "Q"} -> BusPower_rect(y, num)
    [] measure.type \in {"from P", "from Q"} -> Line_rect(y.lineFrom[num], y.lineTo[num], y.n)
    [] measure.type \in {"to P", "to Q"} -> Line_rect(y.lineTo[num], y.lineFrom[num], y.n)
    [] OTHER -> {}

(* The cells each measure adds to, by its multiplier, of which the first   *)
(* is at place "first" of lambda.                                          *)
Multiplied(first, meas, OfMeasure(_)) ==
  [l \in first .. first + Len(meas) - 1 |-> OfMeasure(meas[l - first + 1])]

FormHessian_polar(y, meas) == Multiplied(0, meas, LAMBDA e : OfMeasure_polar(y, e))
FormHessian_rect(y, meas) == Multiplied(0, meas, LAMBDA e : OfMeasure_rect(y, e))
FormHessian_fullState(y, meas, first) ==
  Multiplied(first, meas, LAMBDA e : OfMeasure_fullState(y, e))

(* The matrix after evaluation "round" has added to the cells of "cells".  *)
Added(matrix, cells, round) ==
  LET all == UNION {cells[l] : l \in DOMAIN cells}
  IN  [p \in DOMAIN matrix \cup all |->
        (IF p \in DOMAIN matrix THEN matrix[p] ELSE {})
          \cup {<<round, l>> : l \in {k \in DOMAIN cells : p \in cells[k]}}]
=============================================================================
