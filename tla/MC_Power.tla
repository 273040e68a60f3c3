------------------------------ MODULE MC_Power ------------------------------
(***************************************************************************)
(* The parts of the power flow library: a behaviour is that of one part,   *)
(* chosen at the start: a sparse matrix of either class, the renumbering   *)
(* of an island, or a program and its solver.                              *)
(*                                                                         *)
(* Matrices of 2 x 2 and 3 x 2, one square and one not, have rows and      *)
(* columns with nothing, one node and two between heads.  Islands of three *)
(* buses have a bus between two others and a pair that no branch joins,    *)
(* in numberings that follow the places and that do not.                   *)
(***************************************************************************)
EXTENDS PowerFlow

CONSTANTS
  Kinds,
  Sizes, Values, Others,   \* of the matrices, as in SparseMatrix
  Islands, MaxTurns,       \* of a numbering, as in BusNumberOpt
  None       \* the value of the variables of the parts not chosen

VARIABLES
  kind,
  m, n, mx, dataMap, unzeroNum,                            \* of a matrix
  island, busNumber, ends, bus2buses, old2new, new2old, turns  \* of a numbering

MCSizes == {<<2, 2>>, <<3, 2>>}
MCValues == 0 .. 2
Square == (0 .. 1) \X (0 .. 1)
MCOthers == UNION {[s -> {1}] : s \in SUBSET Square}

SM == INSTANCE SparseMatrix WITH Size <- Sizes, Value <- Values, Other <- Others
Map == INSTANCE MapSparseMatrix WITH Size <- Sizes, Value <- Values, Other <- {}

(* Islands by places: a path, a star, a triangle and parallel branches,    *)
(* with the numbers as they may be read.                                   *)
NumberedIslands ==
  {[number |-> num, ends |-> e] :
     num \in {<<1, 2, 3>>, <<2, 3, 1>>, <<3, 2, 1>>},
     e \in {<<<<1, 2>>, <<2, 3>>>>, <<<<3, 1>>, <<1, 2>>, <<1, 3>>>>,
            <<<<1, 2>>, <<2, 3>>, <<3, 1>>>>}}
  \cup {[number |-> num, ends |-> <<<<1, 2>>, <<1, 3>>, <<4, 1>>>>] :
          num \in {<<1, 2, 3, 4>>, <<4, 2, 1, 3>>}}

Bus == INSTANCE BusNumberOpt

ASSUME PowerAssumption ==
  /\ Kinds \subseteq {"sparse", "map", "numbering", "flow"}
  /\ Parameters /\ Bus!Parameters /\ SM!Parameters /\ Map!Parameters

-----------------------------------------------------------------------------
Branch(tap, z) == [tap |-> tap, z |-> z, skipped |-> FALSE]
Skipped(tap, z) == [tap |-> tap, z |-> z, skipped |-> TRUE]
Island(number, type, branches) == [number |-> number, type |-> type, branches |-> branches]

Pairs ==
  {Island(num, type, branches) :
     num \in {<<1, 2>>, <<2, 1>>}, type \in {<<3, 0>>, <<2, 3>>, <<1, 2>>},
     branches \in {<<Branch(1, 2)>>, <<Skipped(1, 2), Branch(2, 1)>>}}

Triples ==
  {Island(num, type, branches) :
     num \in {<<1, 2, 3>>, <<3, 1, 2>>}, type \in {<<3, 2, 0>>, <<1, 0, 3>>},
     branches \in {<<Branch(1, 2), Branch(3, 2)>>, <<Branch(2, 1), Branch(1, 3), Skipped(2, 3)>>,
                   <<Branch(1, 2), Branch(2, 3), Branch(3, 1)>>}}

Problem(driver, mode, alg, is) ==
  [driver |-> driver, mode |-> mode, alg |-> alg, island |-> is, idle |-> {},
   freeP |-> {}, freeQ |-> {}, freeV |-> {},
   measures |-> <<>>, slackCol |-> -1, fixed |-> FALSE, given |-> FALSE]

PFProblems ==
  {Problem(d[1], mode, d[2], is) :
     d \in {<<"newton", "cal">>, <<"newton", "cal2">>, <<"ipopt", "none">>},
     mode \in {"polar", "rect"}, is \in Pairs \cup Triples}

CIProblems ==
  {[Problem("ci", "CI", "none", is) EXCEPT !.idle = idle] :
     is \in Pairs \cup Triples, idle \in SUBSET (1 .. 2)}

OPFProblems ==
  {[Problem("opf", "full", "none", is) EXCEPT !.freeP = p, !.freeQ = q, !.freeV = v] :
     is \in {i \in Pairs : Len(i.branches) = 1}, p \in {{}, {1}}, q \in {{}, {2}}, v \in {{}, {1}}}
  \cup {[Problem("opf", "full", "none", is) EXCEPT !.freeP = {2, 3}, !.freeQ = {1, 2, 3}, !.freeV = {3}] :
          is \in Triples}

MeasureTypes(mode) ==
  CASE mode = "polar" -> {"angle", "voltage", "P", "Q", "from P", "to Q"}
    [] mode = "rect" -> {"voltage", "P", "Q", "E", "F", "from Q", "to P"}
    [] mode = "full" -> {"angle", "voltage", "P", "Q", "from P", "to P"}

(* One measure, and one of each type; branch 1 is the one with number 1.   *)
MeasureVectors(mode) ==
  {<<Measure(t, num)>> : t \in MeasureTypes(mode), num \in 1 .. 2}
  \cup {SetToSeq({Measure(t, 1) : t \in MeasureTypes(mode)})}

SEProblems ==
  UNION {{[Problem("se", mode, "none", is) EXCEPT
             !.measures = e, !.slackCol = s[1], !.fixed = s[2], !.given = s[3]] :
            e \in MeasureVectors(mode), s \in {<<-1, FALSE, FALSE>>, <<0, FALSE, TRUE>>, <<1, TRUE, FALSE>>},
            is \in {Island(<<2, 1>>, <<3, 0>>, <<Branch(1, 2), Branch(2, 1)>>),
                    Island(<<1, 3, 2>>, <<3, 0, 1>>, <<Branch(1, 2), Branch(3, 2)>>)}} :
         mode \in {"polar", "rect", "full"}}

MCProblems == PFProblems \cup CIProblems \cup OPFProblems \cup SEProblems

-----------------------------------------------------------------------------
matrixVars == <<m, n, mx, dataMap, unzeroNum>>
numberVars == <<island, busNumber, ends, bus2buses, old2new, new2old, turns>>
allVars == <<kind, vars, matrixVars, numberVars>>

NoMatrixAtAll == m = 0 /\ n = 0 /\ mx = None /\ dataMap = None /\ unzeroNum = None
NoNumbering ==
  /\ island = None /\ busNumber = None /\ ends = None /\ bus2buses = None
  /\ old2new = None /\ new2old = None /\ turns = 0
NoFlow ==
  /\ pc = "none" /\ problem = None /\ y = None /\ meas = None /\ x = None /\ jac = None
  /\ hes = None /\ declared = None /\ round = 0 /\ answer = None /\ vTheta = {}

PowerInit ==
  /\ kind \in Kinds
  /\ IF kind = "flow" THEN Init ELSE NoFlow
  /\ IF kind = "numbering" THEN Bus!Init ELSE NoNumbering
  /\ IF kind = "sparse" THEN SM!Init /\ dataMap = None /\ unzeroNum = None
     ELSE IF kind = "map" THEN Map!Init /\ mx = None
     ELSE NoMatrixAtAll

PowerNext ==
  /\ UNCHANGED kind
  /\ \/ kind = "flow" /\ Next /\ UNCHANGED <<matrixVars, numberVars>>
     \/ kind = "numbering" /\ Bus!Next /\ UNCHANGED <<vars, matrixVars>>
     \/ kind = "sparse" /\ SM!Next /\ UNCHANGED <<vars, numberVars, dataMap, unzeroNum>>
     \/ kind = "map" /\ Map!Next /\ UNCHANGED <<vars, numberVars, mx>>

PowerSpec == PowerInit /\ [][PowerNext]_allVars

-----------------------------------------------------------------------------
(* Between calls each part is whole: a sparse matrix has every node on its *)
(* two sorted lists and counts it once, renumbered branches still end at   *)
(* their buses and the numbering goes by degree, and the state of a        *)
(* program has its shape.                                                  *)
PowerWellFormed ==
  CASE kind = "flow" -> TypeOK
    [] kind = "numbering" -> Bus!TypeOK /\ Bus!OrderedByDegree /\ Bus!SameIsland
    [] kind = "sparse" -> SM!TypeOK /\ SM!WellLinked
    [] kind = "map" -> Map!TypeOK /\ Map!Counted

(* What a matrix answers by rows, by columns, by entries and by positions  *)
(* is one matrix; a program's matrices are the derivatives of its          *)
(* constraints at the point it was asked for; recover gives every bus the  *)
(* number it was read with.                                                *)
PowerAnswersTrue ==
  CASE kind = "flow" -> DerivativesMatch
    [] kind = "numbering" -> Bus!Recovered
    [] kind = "sparse" -> SM!AnswersAgree
    [] kind = "map" -> Map!SquareAnswers

(* A solver gets what a program told it: arrays of the length declared,    *)
(* filled in once, at places inside the matrix.                            *)
PowerDeclaredAnswered == kind = "flow" => DeclaredAnswered

(* Both classes of sparse matrix implement the abstract matrix. *)
PowerMatrixImplemented ==
  /\ kind = "sparse" => SM!Abstract!Init
  /\ kind = "map" => Map!Abstract!Init
  /\ [][CASE kind = "sparse" -> [SM!Abstract!Next]_(SM!Abstract!vars)
          [] kind = "map" -> [Map!Abstract!Next]_(Map!Abstract!vars)
          [] OTHER -> TRUE]_allVars
=============================================================================
