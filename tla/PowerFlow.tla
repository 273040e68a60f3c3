------------------------------ MODULE PowerFlow -----------------------------
(***************************************************************************)
(* The power flow programs of src/src/pscpu: a power flow by Newton's      *)
(* method (NewtonPF, NewtonAlg) or by Ipopt (IpoptPF), an optimal power    *)
(* flow (IpoptOPF) and a state estimation (IpoptSE) by Ipopt, and the      *)
(* model of current injections (PFModel_CI).  Each first lays down its     *)
(* model, then tells a solver how large the problem is, and then answers   *)
(* it, in arrays of the length it told, at one point after another.        *)
(*                                                                         *)
(* A call of the solver is one step.  Values are left out; jac and hes     *)
(* keep what their values depend on, as Jacobian and Hessian describe.     *)
(* Rows, columns and multipliers count from 0.                             *)
(*                                                                         *)
(* An operator X_Suffix next to an operator X is X with a plausible bug;   *)
(* no action uses it.                                                      *)
(***************************************************************************)
EXTENDS Network, Functions

CONSTANTS
  Problems,  \* what a program is called with
  MaxRound   \* how many points a solver evaluates

(* A state estimation is given its measures, the others make them of the   *)
(* types of the buses.                                                     *)
Parameters ==
  /\ MaxRound \in Nat
  /\ \A p \in Problems :
       LET is == p.island IN
       /\ {"driver", "island", "measures"} \subseteq DOMAIN p
       /\ {"number", "type"} \subseteq DOMAIN is
       /\ p.driver \in {"newton", "ipopt", "opf", "se", "ci"}
       /\ is.number \in Seq(1 .. Len(is.number))
       /\ p.measures \in Seq([type : Quantity, num : Nat])

VARIABLES
  pc,
  problem,   \* driver, mode, alg, island, and what a driver has besides
  y,         \* the admittance matrix
  meas,      \* the measures: measNum and those filled in
  x,         \* initialX: its length and the entries filled in
  jac, hes,  \* jacobianM and hessianM
  declared,  \* variables, constraints and entries the solver was told
  round,     \* the number of the point that is evaluated, 0 for initialX
  answer,    \* to the last call: the entries by their places, their number
  vTheta     \* the entries of the result that are filled in

vars == <<pc, problem, y, meas, x, jac, hes, declared, round, answer, vTheta>>

J == INSTANCE Jacobian
H == INSTANCE Hessian
Calc == INSTANCE StateCalculator

N == Len(problem.island.number)
Numbers == {problem.island.number[b] : b \in DOMAIN problem.island.number}
InMode(mode) == problem.mode = mode
Full == InMode("full")

(* The columns of the state: in modes "full" and "CI" the powers or the    *)
(* currents follow the voltages.  The Ipopt state estimation has a         *)
(* variable more for each measure, its residual.                           *)
States == IF Full \/ InMode("CI") THEN 4 * N ELSE 2 * N
RowStart == IF Full THEN 2 * N ELSE 0

NoAnswer == [what |-> "none", entries |-> [p \in {} |-> {}], count |-> 0]
NothingDeclared == [n |-> 0, m |-> 0, jac |-> 0, hes |-> 0]

Answer(what, entries, count) == answer' = [what |-> what, entries |-> entries, count |-> count]

-----------------------------------------------------------------------------
Init ==
  /\ pc = "start"
  /\ problem \in Problems
  /\ y = [n |-> 0]
  /\ meas = [measNum |-> 0, filled |-> <<>>]
  /\ x = [length |-> 0, filled |-> {}]
  /\ jac = J!NoCells
  /\ hes = J!NoCells
  /\ declared = NothingDeclared
  /\ round = 0
  /\ answer = NoAnswer
  /\ vTheta = {}

(* The entries of a vector with "parts" quantities for each bus, when they *)
(* are filled in by bus number.                                            *)
ByNumber(parts) == {num - 1 + k * N : num \in Numbers, k \in parts}

Initialised(newX) ==
  /\ pc = "start"
  /\ pc' = "initial"
  /\ x' = newX
  /\ UNCHANGED <<jac, hes, declared, round, answer, vTheta>>

(* AbstractPF::initialModel *)
PFInitialModel ==
  /\ problem.driver \in {"newton", "ipopt"}
  /\ y' = FormMatrix(problem.island)
  /\ meas' = IF InMode("polar") THEN FormMeas4PF_polar(problem.island)
             ELSE FormMeas4PF_rect(problem.island)
  /\ Initialised([length |-> 2 * N, filled |-> ByNumber({0, 1})])
  /\ UNCHANGED problem

(* AbstractOPF::initialModel: the powers are computed from the voltages.   *)
OPFInitialModel ==
  /\ problem.driver = "opf"
  /\ y' = FormMatrix(problem.island)
  /\ meas' = FormMeas4OPF(problem.island, problem.freeP, problem.freeQ, problem.freeV, TRUE)
  /\ Initialised([length |-> 4 * N, filled |-> ByNumber(0 .. 3)])
  /\ UNCHANGED problem

(* IpoptSE::initialModel: the voltages are filled in by place, or the      *)
(* whole state is copied from the one given, and the residuals last.       *)
SEInitialModel ==
  /\ problem.driver = "se"
  /\ y' = FormMatrix(problem.island)
  /\ meas' = [measNum |-> Len(problem.measures), filled |-> problem.measures]
  /\ LET state == IF problem.given THEN 0 .. States - 1
                  ELSE (0 .. 2 * N - 1) \cup (IF Full THEN ByNumber({2, 3}) ELSE {})
         residuals == States .. States + Len(problem.measures) - 1
     IN  Initialised([length |-> States + Len(problem.measures), filled |-> state \cup residuals])
  /\ UNCHANGED problem

(* PFModel_CI::initial *)
CIInitial ==
  /\ problem.driver = "ci"
  /\ LET island == FindCNNode(problem.island, problem.idle) IN
     /\ problem' = [problem EXCEPT !.island = island]
     /\ meas' = FormMeas4PF_CI(island)
     /\ y' = FormMatrix(island)
  /\ Initialised([length |-> 4 * N, filled |-> ByNumber(0 .. 3)])

-----------------------------------------------------------------------------
(* The rows of the Jacobian.  In mode "full" each bus has two balances,    *)
(* between the powers that flow from it and the powers that are variables; *)
(* their derivatives by the latter are constants, and written once.        *)
BalanceRows(atInfo) ==
  LET Balance(num, part) ==
        LET flow == J!BusPower_polar(y, num)
        IN  IF atInfo THEN [flow EXCEPT !.const = {num - 1 + part * N}] ELSE flow
      number == [r \in 0 .. 2 * N - 1 |-> (r % N) + 1]
  IN  [r \in {num - 1 + k * N : num \in Numbers, k \in {0, 1}} |->
         Balance(number[r], IF r < N THEN 2 ELSE 3)]

JacobianRows(atInfo) ==
  CASE InMode("polar") -> J!FormJacobian_polar(y, meas.filled)
    [] InMode("rect") -> J!FormJacobian_rect(y, meas.filled)
    [] Full -> BalanceRows(atInfo) @@ J!FormJacobian_fullState(y, meas.filled, RowStart)

(* The cells each multiplier adds to in the Hessian.                       *)
HessianCells ==
  LET balances == [l \in {num - 1 + k * N : num \in Numbers, k \in {0, 1}} |->
                     H!BusPower_polar(y, (l % N) + 1)]
  IN  CASE InMode("polar") -> H!FormHessian_polar(y, meas.filled)
        [] InMode("rect") -> H!FormHessian_rect(y, meas.filled)
        [] Full -> balances @@ H!FormHessian_fullState(y, meas.filled, RowStart)

Entries(matrix) == Cardinality(DOMAIN matrix)
IsSE == problem.driver = "se"
HasSlack == IsSE /\ problem.slackCol >= 0
One(b) == IF b THEN 1 ELSE 0

-----------------------------------------------------------------------------
(* get_nlp_info: the matrices are formed at initialX to count their        *)
(* entries; a program may declare more variables, rows and entries.        *)
Told(variables, rows, entries) ==
  /\ pc = "initial"
  /\ pc' = "solving"
  /\ jac' = J!Written(J!NoCells, JacobianRows(TRUE), 0)
  /\ hes' = H!Added(J!NoCells, HessianCells, 0)
  /\ declared' = [n |-> States + variables,
                  m |-> RowStart + meas.measNum + rows,
                  jac |-> Entries(jac') + variables + entries,
                  hes |-> Entries(hes') + variables]
  /\ UNCHANGED <<problem, y, meas, x, round, answer, vTheta>>

PFGetInfo == problem.driver = "ipopt" /\ Told(0, 0, 0)

OPFGetInfo == problem.driver = "opf" /\ Told(0, 0, 0)

(* The residuals, and a row with one entry for the angle and one for the   *)
(* voltage of the slack bus; slackBusCol and isSlackBusVoltageFixed are    *)
(* counted one by one, though eval_g looks at the second only when there   *)
(* is a slackBusCol.  No problem has the second without the first.         *)
\* mutant: the row for the voltage is forgotten
SEGetInfo_VoltageRow ==
  /\ problem.driver = "se"
  /\ Told(meas.measNum, One(HasSlack), One(HasSlack))

SEGetInfo ==
  /\ problem.driver = "se"
  /\ LET slack == One(HasSlack) + One(problem.fixed) IN Told(meas.measNum, slack, slack)

Solving == pc = "solving" /\ problem.driver \in {"ipopt", "opf", "se"}

(* A call is made at the point of the last one or at another.              *)
AtSomePoint == round' \in {round, round + 1} \cap 1 .. MaxRound

Unasked == UNCHANGED <<pc, problem, y, meas, x, declared, vTheta>>

(* get_starting_point copies initialX. *)
GetStartingPoint ==
  /\ Solving
  /\ round = 0
  /\ Answer("start", [i \in {<<k, 0>> : k \in x.filled \cap 0 .. declared.n - 1} |-> {}],
            declared.n)
  /\ UNCHANGED <<jac, hes, round>>
  /\ Unasked

(* What eval_jac_g of IpoptSE appends to the matrix: the residuals, each   *)
(* in the row of its measure, and the rows of the slack bus.               *)
Appended(stamps) ==
  LET rows == RowStart + meas.measNum
      residuals == {<<RowStart + k, States + k>> : k \in 0 .. meas.measNum - 1}
      voltage == IF problem.fixed THEN {<<rows, problem.slackCol>>} ELSE {}
      angle == {<<rows + One(problem.fixed), problem.slackCol + N>>}
  IN  [p \in residuals \cup (IF HasSlack THEN voltage \cup angle ELSE {}) |-> stamps]

AnswerJacobian(what, matrix) ==
  LET extra == IF IsSE THEN Appended({}) ELSE J!NoCells
      slack == IF HasSlack THEN One(problem.fixed) + 1 ELSE 0
  IN  Answer(what, matrix @@ extra,
             Entries(matrix) + (IF IsSE THEN meas.measNum + slack ELSE 0))

EvalJacStructure ==
  /\ Solving
  /\ AnswerJacobian("jacobian structure", jac)
  /\ UNCHANGED <<jac, hes, round>>
  /\ Unasked

EvalJacValues ==
  /\ Solving
  /\ AtSomePoint
  /\ jac' = J!Written(jac, JacobianRows(FALSE), round')
  /\ AnswerJacobian("jacobian values", jac')
  /\ UNCHANGED hes
  /\ Unasked

(* The second derivatives of the objective: of IpoptSE's, by the residuals. *)
OfObjective(stamps) ==
  [p \in {<<States + k, States + k>> : k \in 0 .. meas.measNum - 1} |-> stamps]

AnswerHessian(what, matrix, stamps) ==
  Answer(what, matrix @@ (IF IsSE THEN OfObjective(stamps) ELSE J!NoCells),
         Entries(matrix) + (IF IsSE THEN meas.measNum ELSE 0))

EvalHStructure ==
  /\ Solving
  /\ AnswerHessian("hessian structure", hes, {})
  /\ UNCHANGED <<jac, hes, round>>
  /\ Unasked

(* makeZero comes first, since every contribution is added. *)
\* mutant: the values of the last evaluation stay
EvalHValues_NoMakeZero ==
  /\ Solving
  /\ AtSomePoint
  /\ hes' = H!Added(hes, HessianCells, round')
  /\ AnswerHessian("hessian values", hes', {<<round', -1>>})
  /\ UNCHANGED jac
  /\ Unasked

EvalHValues ==
  /\ Solving
  /\ AtSomePoint
  /\ hes' = H!Added([p \in DOMAIN hes |-> {}], HessianCells, round')
  /\ AnswerHessian("hessian values", hes', {<<round', -1>>})
  /\ UNCHANGED jac
  /\ Unasked

(* eval_g: the terms of each row, in the order in which they are written.  *)
Constraint(row, terms) == [row |-> row, terms |-> terms]

EstimatedZ(measure) ==
  CASE InMode("polar") -> Calc!EstimatedZ_polar(y, measure)
    [] InMode("rect") -> Calc!EstimatedZ_rect(y, measure)
    [] Full -> Calc!EstimatedZ_fullState(y, measure)
    [] InMode("CI") -> Calc!EstimatedZ_CIHM_rect(y, measure)

Balances(num) ==
  <<Constraint(num - 1, Calc!BusPower_polar(y, num) \cup Calc!Variable(num - 1 + 2 * N)),
    Constraint(num - 1 + N, Calc!BusPower_polar(y, num) \cup Calc!Variable(num - 1 + 3 * N))>>

Measured ==
  [i \in DOMAIN meas.filled |->
     Constraint(RowStart + i - 1,
       EstimatedZ(meas.filled[i]) \cup (IF IsSE THEN Calc!Variable(States + i - 1) ELSE {}))]

OfSlack ==
  LET rows == RowStart + Len(meas.filled)
  IN  (IF problem.fixed THEN <<Constraint(rows, Calc!Variable(problem.slackCol))>> ELSE <<>>)
      \o <<Constraint(rows + One(problem.fixed), Calc!Variable(problem.slackCol + N))>>

Constraints ==
  (IF Full THEN FlattenSeq([b \in 1 .. N |-> Balances(problem.island.number[b])]) ELSE <<>>)
  \o Measured
  \o (IF HasSlack THEN OfSlack ELSE <<>>)

EvalG ==
  /\ Solving
  /\ AtSomePoint
  /\ Answer("g", [p \in {<<Constraints[k].row, 0>> : k \in DOMAIN Constraints} |-> {}],
            Len(Constraints))
  /\ UNCHANGED <<jac, hes>>
  /\ Unasked

(* finalize_solution takes the voltages from the state.                    *)
FinalizeSolution ==
  /\ Solving
  /\ pc' = "solved"
  /\ vTheta' = 0 .. 2 * N - 1
  /\ answer' = NoAnswer
  /\ UNCHANGED <<problem, y, meas, x, jac, hes, declared, round>>

-----------------------------------------------------------------------------
(* NewtonAlg: the matrix is written again in each iteration and handed     *)
(* over by columns, in cal in new arrays, in cal2 in those that were       *)
(* allocated for the first.                                                *)
Dimension == 2 * N

NewtonStart ==
  /\ pc = "initial"
  /\ problem.driver = "newton"
  /\ problem.alg = "cal"
  /\ pc' = "iterating"
  /\ declared' = [NothingDeclared EXCEPT !.n = Dimension, !.m = Dimension]
  /\ Answer("start", [i \in {<<k, 0>> : k \in x.filled \cap 0 .. Dimension - 1} |-> {}],
            Dimension)
  /\ UNCHANGED <<problem, y, meas, x, jac, hes, round, vTheta>>

(* cal2 makes its first step before the loop.                              *)
Newton2Start ==
  /\ pc = "initial"
  /\ problem.driver = "newton"
  /\ problem.alg = "cal2"
  /\ pc' = "iterating"
  /\ jac' = J!Written(J!NoCells, JacobianRows(FALSE), 0)
  /\ declared' = [n |-> Dimension, m |-> Dimension, jac |-> Entries(jac'), hes |-> 0]
  /\ Answer("jacobian values", jac', Entries(jac'))
  /\ UNCHANGED <<problem, y, meas, x, hes, round, vTheta>>

(* formJacobian_CIHM_rect_const; no file of the repository calls it or the *)
(* other half, which the caller evaluates as cal does.                     *)
CIConst ==
  /\ pc = "initial"
  /\ problem.driver = "ci"
  /\ pc' = "iterating"
  /\ jac' = J!Written(J!NoCells, J!FormJacobian_CIHM_rect_const(y, meas.filled), 0)
  /\ declared' = [NothingDeclared EXCEPT !.n = 4 * N, !.m = meas.measNum]
  /\ UNCHANGED <<problem, y, meas, x, hes, round, answer, vTheta>>

(* An iteration converges or not; the last one ends either way.            *)
Iterates(rows) ==
  /\ pc = "iterating"
  /\ round < MaxRound
  /\ round' = round + 1
  /\ jac' = J!Written(jac, rows, round')
  /\ Answer("jacobian values", jac', Entries(jac'))
  /\ \/ pc' = "converged"
     \/ pc' = IF round' = MaxRound THEN "failed" ELSE "iterating"
  /\ UNCHANGED <<problem, y, meas, x, hes, vTheta>>

NewtonIterate ==
  /\ problem.driver = "newton"
  /\ Iterates(JacobianRows(FALSE))
  /\ declared' = IF problem.alg = "cal" THEN [declared EXCEPT !.jac = Entries(jac')] ELSE declared

CIIterate ==
  /\ problem.driver = "ci"
  /\ Iterates(J!FormJacobian_CIHM_rect_vary(y, meas.filled))
  /\ declared' = [declared EXCEPT !.jac = Entries(jac')]

(* NewtonPF::doPF takes the result of a power flow that converged.         *)
TakeResult ==
  /\ pc = "converged"
  /\ problem.driver = "newton"
  /\ pc' = "solved"
  /\ vTheta' = 0 .. 2 * N - 1
  /\ answer' = NoAnswer
  /\ UNCHANGED <<problem, y, meas, x, jac, hes, declared, round>>

-----------------------------------------------------------------------------
Next ==
  \/ PFInitialModel \/ OPFInitialModel \/ SEInitialModel \/ CIInitial
  \/ PFGetInfo \/ OPFGetInfo \/ SEGetInfo \/ GetStartingPoint \/ EvalG
  \/ EvalJacStructure \/ EvalJacValues \/ EvalHStructure \/ EvalHValues
  \/ FinalizeSolution
  \/ NewtonStart \/ Newton2Start \/ NewtonIterate
  \/ CIConst \/ CIIterate
  \/ TakeResult

Spec == Init /\ [][Next]_vars

-----------------------------------------------------------------------------
Entry(p) == p \in (0 .. declared.m - 1) \X (0 .. declared.n - 1)

TypeOK ==
  /\ pc \in {"start", "initial", "solving", "iterating", "converged", "failed", "solved"}
  /\ problem.driver \in {"newton", "ipopt", "opf", "se", "ci"}
  /\ meas.filled \in Seq([type : Quantity, num : Nat])
  /\ x.filled \subseteq 0 .. x.length - 1
  /\ \A p \in DOMAIN jac : jac[p] \subseteq 0 .. MaxRound
  /\ round \in 0 .. MaxRound
  /\ vTheta \in {{}, 0 .. 2 * N - 1}

(* A solver gets what it was told: every array has the length that was     *)
(* declared, its entries are at different places inside the matrix, below  *)
(* the diagonal those of the Hessian, and no entry is left out.  The       *)
(* arrays of a caller are allocated with the length declared: an entry     *)
(* more is a write beyond one.                                             *)
DeclaredAnswered ==
  LET cells == DOMAIN answer.entries
      expected == CASE answer.what = "start" -> declared.n
                    [] answer.what = "g" -> declared.m
                    [] answer.what \in {"jacobian structure", "jacobian values"} -> declared.jac
                    [] answer.what \in {"hessian structure", "hessian values"} -> declared.hes
                    [] OTHER -> 0
  IN
  /\ answer.count = expected
  /\ Cardinality(cells) = expected
  /\ answer.what \in {"jacobian structure", "jacobian values"} => \A p \in cells : Entry(p)
  /\ answer.what = "g" => \A p \in cells : p[1] \in 0 .. declared.m - 1
  /\ answer.what \in {"hessian structure", "hessian values"} =>
       \A p \in cells : p[1] \in 0 .. declared.n - 1 /\ p[2] \in 0 .. p[1]
  /\ answer.what = "start" => x.length = declared.n
  /\ pc # "start" => Len(meas.filled) = meas.measNum
  /\ problem.driver \in {"newton", "ci"} /\ pc \notin {"start", "initial"} =>
       declared.m = meas.measNum /\ declared.n = x.length

(* The derivatives are those of the constraints, at the point asked for:   *)
(* the Jacobian has a cell for each variable a constraint depends on and   *)
(* no other, each cell of a constraint that is not linear in its variable  *)
(* was written in this evaluation, and no cell contains anything from an   *)
(* earlier one.  A cell of the Hessian has the second derivative of every  *)
(* constraint with one there, once, with its own multiplier.               *)
JacobianMatches ==
  \A k \in DOMAIN Constraints :
    LET terms == Constraints[k].terms
        r == Constraints[k].row
        curved == UNION Calc!CurvedPairs(terms)
    IN
    /\ {p[2] : p \in {q \in DOMAIN answer.entries : q[1] = r}} = Calc!VariablesOf(terms)
    /\ answer.what = "jacobian values" =>
         \A c \in Calc!VariablesOf(terms) :
           answer.entries[<<r, c>>] \in (IF c \in curved THEN {{round}} ELSE {{}, {round}})

HessianMatches ==
  LET curved == [k \in DOMAIN Constraints |-> Calc!CurvedPairs(Constraints[k].terms)]
      Of(p) == {<<round, Constraints[k].row>> :
                  k \in {l \in DOMAIN Constraints : {p[1], p[2]} \in curved[l]}}
      ofObjective == IF IsSE THEN DOMAIN OfObjective({}) ELSE {}
  IN
  /\ \A k \in DOMAIN Constraints : \A pair \in curved[k] :
       \E p \in DOMAIN answer.entries : {p[1], p[2]} = pair
  /\ answer.what = "hessian values" =>
       \A p \in DOMAIN answer.entries :
         answer.entries[p] = IF p \in ofObjective THEN {<<round, -1>>} ELSE Of(p)

DerivativesMatch ==
  /\ answer.what \in {"jacobian structure", "jacobian values"} => JacobianMatches
  /\ answer.what \in {"hessian structure", "hessian values"} => HessianMatches
=============================================================================
