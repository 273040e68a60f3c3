-------------------------- MODULE StateCalculator ---------------------------
(***************************************************************************)
(* How the value of a measure is computed from the state, of               *)
(* src/src/pscpu/StateCalculator.cpp: as a sum of terms, each the product  *)
(* of the state variables in "factors" and, in polar coordinates, of a     *)
(* cosine or sine of the difference of the two angles in "angles".  The    *)
(* coefficients are left out.                                              *)
(*                                                                         *)
(* A state has the voltages of the n buses, as magnitudes v at 0 .. n - 1  *)
(* and angles at n .. 2 * n - 1, or as real parts e and imaginary parts f; *)
(* in mode "full" their powers p and q follow, in mode "CI" the currents.  *)
(***************************************************************************)
EXTENDS Integers, Sequences

Term(factors, angles) == [factors |-> factors, angles |-> angles]
Product(a, b) == Term(<<a, b>>, {})
Variable(a) == {Term(<<a>>, {})}

(* calBusP_polar, calBusQ_polar: the difference is 0 in the term of the    *)
(* bus itself.                                                             *)
BusPower_polar(y, num) ==
  LET i == num - 1
  IN  {Term(<<i, j>>, IF i = j THEN {} ELSE {i + y.n, j + y.n}) : j \in y.row[i]}

LinePower(i, j, n) == {Product(i, i), Term(<<i, j>>, {i + n, j + n})}

LineFrom_polar(y, k) == LinePower(y.lineFrom[k], y.lineTo[k], y.n)
LineTo_polar(y, k) == LinePower(y.lineTo[k], y.lineFrom[k], y.n)

(* calBusP_rect, calBusQ_rect: in the term of the bus itself, e * f comes  *)
(* with both signs.                                                        *)
BusPower_rect(y, num) ==
  LET i == num - 1
      n == y.n
  IN  UNION {IF j = i THEN {Product(i, i), Product(i + n, i + n)}
             ELSE {Product(a, b) : a \in {i, i + n}, b \in {j, j + n}} : j \in y.row[i]}

Line_rect(i, j, n) ==
  {Product(i, i), Product(i + n, i + n)}
  \cup {Product(a, b) : a \in {i, i + n}, b \in {j, j + n}}

LineFrom_rect(y, k) == Line_rect(y.lineFrom[k], y.lineTo[k], y.n)
LineTo_rect(y, k) == Line_rect(y.lineTo[k], y.lineFrom[k], y.n)

BusNetReal_CIHM_rect(y, num) ==
  UNION {Variable(j) \cup Variable(j + y.n) : j \in y.row[num - 1]} \cup Variable(num - 1 + 2 * y.n)
BusNetImage_CIHM_rect(y, num) ==
  UNION {Variable(j + y.n) \cup Variable(j) : j \in y.row[num - 1]} \cup Variable(num - 1 + 3 * y.n)

BusP_CIHM_rect(i, n) == {Product(i, i + 2 * n), Product(i + n, i + 3 * n)}
BusQ_CIHM_rect(i, n) == {Product(i, i + 3 * n), Product(i + n, i + 2 * n)}
BusV2(i, n) == {Product(i, i), Product(i + n, i + n)}

-----------------------------------------------------------------------------
EstimatedZ_polar(y, measure) ==
  LET num == measure.num IN
  CASE measure.type = "angle" -> Variable(num - 1 + y.n)
    [] measure.type = "voltage" -> Variable(num - 1)
    [] measure.type \in {"P", "Q"} -> BusPower_polar(y, num)
    [] measure.type \in {"from P", "from Q"} -> LineFrom_polar(y, num)
    [] measure.type \in {"to P", "to Q"} -> LineTo_polar(y, num)

EstimatedZ_rect(y, measure) ==
  LET num == measure.num IN
  CASE measure.type = "angle" -> {Term(<<>>, {num - 1, num - 1 + y.n})}
    [] measure.type = "voltage" -> BusV2(num - 1, y.n)
    [] measure.type \in {"P", "Q"} -> BusPower_rect(y, num)
    [] measure.type \in {"from P", "from Q"} -> LineFrom_rect(y, num)
    [] measure.type \in {"to P", "to Q"} -> LineTo_rect(y, num)
    [] measure.type = "E" -> Variable(num - 1)
    [] measure.type = "F" -> Variable(num + y.n - 1)

EstimatedZ_fullState(y, measure) ==
  LET num == measure.num IN
  CASE measure.type = "P" -> Variable(num - 1 + 2 * y.n)
    [] measure.type = "Q" -> Variable(num - 1 + 3 * y.n)
    [] OTHER -> EstimatedZ_polar(y, measure)

EstimatedZ_CIHM_rect(y, measure) ==
  LET i == measure.num - 1 IN
  CASE measure.type = "net real" -> BusNetReal_CIHM_rect(y, measure.num)
    [] measure.type = "net image" -> BusNetImage_CIHM_rect(y, measure.num)
    [] measure.type = "voltage" -> BusV2(i, y.n)
    [] measure.type = "P" -> BusP_CIHM_rect(i, y.n)
    [] measure.type = "Q" -> BusQ_CIHM_rect(i, y.n)
    [] measure.type = "E" -> Variable(i)
    [] measure.type = "F" -> Variable(i + y.n)
    [] measure.type = "Ix" -> Variable(i + 2 * y.n)
    [] measure.type = "Iy" -> Variable(i + 3 * y.n)

-----------------------------------------------------------------------------
(* The variables terms depend on, and the pairs of variables with a second *)
(* derivative that is not always 0.                                        *)
VariablesOf(terms) ==
  UNION {{t.factors[k] : k \in DOMAIN t.factors} \cup t.angles : t \in terms}

CurvedPairs(terms) ==
  UNION {(IF Len(t.factors) = 2 THEN {{t.factors[1], t.factors[2]}} ELSE {})
         \cup {{t.factors[k], a} : k \in DOMAIN t.factors, a \in t.angles}
         \cup {{a, b} : a \in t.angles, b \in t.angles} : t \in terms}
=============================================================================
