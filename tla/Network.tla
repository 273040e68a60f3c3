------------------------------ MODULE Network -------------------------------
(***************************************************************************)
(* What a solver sees of an island.                                        *)
(*                                                                         *)
(* The admittance matrix, of src/src/pscpu/YMatrix.cpp: which positions it *)
(* holds, and which buses a branch joins.  The conductances and the        *)
(* susceptances are two sparse matrices that get the same positions; the   *)
(* values are left out.                                                    *)
(*                                                                         *)
(* The measures a power flow solves for, of src/src/pscpu/PFUtil.cpp: for  *)
(* each bus, by its type, two quantities that are given.  A vector has the *)
(* length measNum it was allocated with and the measures filled in; their  *)
(* values are left out.                                                    *)
(*                                                                         *)
(* An island has, by place, the number and the type of each bus, and its   *)
(* branches: the numbers of the buses at their ends, and whether formMatrix *)
(* passes over the branch, of type 4 and with an angle below 1e-4.         *)
(* Rows and columns count from 0, bus numbers from 1.                      *)
(***************************************************************************)
EXTENDS Integers, SequencesExt

Branches(island) ==
  {<<b.tap - 1, b.z - 1>> : b \in {island.branches[k] : k \in
     {l \in DOMAIN island.branches : ~island.branches[l].skipped}}}

(* setValue for each branch, at its four positions, and then for each bus  *)
(* on the diagonal.                                                        *)
Positions(island) ==
  UNION {{<<e[1], e[1]>>, <<e[2], e[2]>>, <<e[1], e[2]>>, <<e[2], e[1]>>} : e \in Branches(island)}
  \cup {<<island.number[b] - 1, island.number[b] - 1>> : b \in DOMAIN island.number}

(* The matrix: its size, the columns of each row, and lineFrom and lineTo. *)
FormMatrix(island) ==
  LET n == Len(island.number)
      positions == Positions(island)
  IN  [n |-> n,
       row |-> [i \in 0 .. n - 1 |-> {j \in 0 .. n - 1 : <<i, j>> \in positions}],
       lineFrom |-> [k \in DOMAIN island.branches |-> island.branches[k].tap - 1],
       lineTo |-> [k \in DOMAIN island.branches |-> island.branches[k].z - 1]]

-----------------------------------------------------------------------------
(* Types 0 and 1 are load buses, 2 is a bus whose voltage is kept, 3 the   *)
(* slack bus, and 4 a bus that neither feeds nor draws, of the current     *)
(* injection model only.                                                   *)
BusType == 0 .. 3

(* What a measure may be of: of a bus, and of a branch at either end. *)
Quantity ==
  {"E", "F", "Ix", "Iy", "net real", "net image", "angle", "voltage", "P", "Q",
   "from P", "from Q", "to P", "to Q"}

Measure(type, num) == [type |-> type, num |-> num]

(* One measure after another for each bus in its place. *)
ForEachBus(island, Pair(_)) == FlattenSeq([b \in DOMAIN island.number |-> Pair(b)])

Two(s, t, num) == <<Measure(s, num), Measure(t, num)>>

FormMeas4PF_polar(island) ==
  LET Pair(b) ==
        LET t == island.type[b] num == island.number[b]
        IN  CASE t \in {0, 1} -> Two("P", "Q", num)
              [] t = 2 -> Two("P", "voltage", num)
              [] t = 3 -> Two("voltage", "angle", num)
              [] OTHER -> <<>>
  IN  [measNum |-> 2 * Len(island.number), filled |-> ForEachBus(island, Pair)]

FormMeas4PF_rect(island) ==
  LET Pair(b) ==
        LET t == island.type[b] num == island.number[b]
        IN  CASE t \in {0, 1} -> Two("P", "Q", num)
              [] t = 2 -> Two("P", "voltage", num)
              [] t = 3 -> Two("E", "F", num)
              [] OTHER -> <<>>
  IN  [measNum |-> 2 * Len(island.number), filled |-> ForEachBus(island, Pair)]

(* A quantity of the bus with number num that the optimization does not    *)
(* control is measured; freeX holds the numbers of the buses whose X it    *)
(* controls.  The measures are counted first and filled in afterwards.     *)
FormMeas4OPF(island, freeP, freeQ, freeV, isSlackBusVFixed) ==
  LET Unless(free, type, num) == IF num \in free THEN <<>> ELSE <<Measure(type, num)>>
      One(given) == IF given THEN 1 ELSE 0
      Counted(b) ==
        LET t == island.type[b] num == island.number[b]
        IN  CASE t \in {0, 1} -> One(num \notin freeP) + One(num \notin freeQ)
              [] t = 2 -> One(num \notin freeP) + One(num \notin freeV)
              [] t = 3 -> One(num \notin freeV /\ isSlackBusVFixed) + 1
              [] OTHER -> 0
      Kept(b) ==
        LET t == island.type[b] num == island.number[b]
        IN  CASE t \in {0, 1} -> Unless(freeP, "P", num) \o Unless(freeQ, "Q", num)
              [] t = 2 -> Unless(freeP, "P", num) \o Unless(freeV, "voltage", num)
              [] t = 3 -> (IF isSlackBusVFixed THEN Unless(freeV, "voltage", num) ELSE <<>>)
                            \o <<Measure("angle", num)>>
              [] OTHER -> <<>>
  IN  [measNum |-> FoldLeft(LAMBDA sum, b : sum + Counted(b), 0,
                            [b \in DOMAIN island.number |-> b]),
       filled |-> ForEachBus(island, Kept)]

(* find_CNnode: idle is the set of places whose generation meets the load. *)
FindCNNode(island, idle) ==
  [island EXCEPT !.type = [b \in DOMAIN @ |->
     IF b \in idle /\ (@[b] = 0 \/ island.number[b] = 1) THEN 4 ELSE @[b]]]

(* The balances of all buses come before the other measures. *)
FormMeas4PF_CI(island) ==
  LET Net(b) == Two("net real", "net image", island.number[b])
      Pair(b) ==
        LET t == island.type[b] num == island.number[b]
        IN  CASE t \in {0, 1} -> Two("P", "Q", num)
              [] t = 2 -> Two("P", "voltage", num)
              [] t = 3 -> Two("E", "F", num)
              [] t = 4 -> Two("Ix", "Iy", num)
              [] OTHER -> <<>>
  IN  [measNum |-> 4 * Len(island.number),
       filled |-> ForEachBus(island, Net) \o ForEachBus(island, Pair)]
=============================================================================
