---------------------------- MODULE BusNumberOpt ----------------------------
(***************************************************************************)
(* The renumbering of the buses of an island by their degree, of           *)
(* src/src/pscpu/BusNumberOpt.cpp.  A call is one step.                    *)
(*                                                                         *)
(* A bus is known by its place in island->buses; its busNumber changes.    *)
(***************************************************************************)
EXTENDS Integers, SequencesExt

CONSTANTS
  Islands,  \* the islands: the numbers of the buses, and for each branch the
            \* places of the buses at its ends
  MaxTurns  \* how many times trans is called more often than recover

(* Every bus is on a branch: tinney1 reads as many entries of its array as *)
(* there are buses and fills in one for each bus it met on a branch.       *)
Parameters ==
  /\ MaxTurns \in Nat
  /\ \A is \in Islands :
    /\ is.number \in Seq(Nat)
    /\ is.ends \in Seq((DOMAIN is.number) \X (DOMAIN is.number)) /\ is.ends # <<>>
    /\ \A b, c \in DOMAIN is.number : b # c => is.number[b] # is.number[c]
    /\ \A k \in DOMAIN is.ends : is.ends[k][1] # is.ends[k][2]
    /\ DOMAIN is.number = UNION {{is.ends[k][1], is.ends[k][2]} : k \in DOMAIN is.ends}

VARIABLES
  island,     \* as it was read: what the numbers were
  busNumber,  \* by the place of the bus
  ends,       \* tapBusNumber and zBusNumber of the branches
  bus2buses,  \* the numbers next to a number
  old2new,
  new2old,
  turns       \* how many calls of trans have not been undone by recover

vars == <<island, busNumber, ends, bus2buses, old2new, new2old, turns>>

Nothing == [k \in {} |-> k]
busN == Len(busNumber)

-----------------------------------------------------------------------------
Init ==
  /\ island \in Islands
  /\ busNumber = island.number
  /\ ends = [k \in DOMAIN island.ends |->
               <<island.number[island.ends[k][1]], island.number[island.ends[k][2]]>>]
  /\ bus2buses = Nothing
  /\ old2new = Nothing
  /\ new2old = Nothing
  /\ turns = 0

(* The neighbours in the order in which the branches name them first; the  *)
(* test for a neighbour that is there already is made on one side only.    *)
Meet(near, e) ==
  IF Contains(near[e[1]], e[2]) THEN near
  ELSE [near EXCEPT ![e[1]] = Append(@, e[2]), ![e[2]] = Append(@, e[1])]

Neighbours ==
  LET numbers == UNION {{ends[k][1], ends[k][2]} : k \in DOMAIN ends}
      after[k \in 0 .. Len(ends)] ==
        IF k = 0 THEN [b \in numbers |-> <<>>] ELSE Meet(after[k - 1], ends[k])
  IN  after[Len(ends)]

(* The numbers are collected once, when bus2buses is empty.                *)
FormBus2Buses == bus2buses' = IF bus2buses = Nothing THEN Neighbours ELSE bus2buses

Degree(near, b) == Len(near[b])

(* The numbers in the order of the map in which they are collected. *)
Ascending(S) ==
  [i \in 1 .. Cardinality(S) |-> CHOOSE a \in S : Cardinality({b \in S : b <= a}) = i]

(* One turn of quickSort: the first of the least that are not in place is  *)
(* exchanged with the first that is not.                                   *)
Select(near, s, i) ==
  LET least == CHOOSE j \in i .. Len(s) :
                 \A k \in i .. Len(s) :
                   \/ Degree(near, s[j]) < Degree(near, s[k])
                   \/ Degree(near, s[j]) = Degree(near, s[k]) /\ j <= k
  IN  [s EXCEPT ![i] = s[least], ![least] = s[i]]

Sorted(near) ==
  LET count == Cardinality(DOMAIN near)
      after[i \in 0 .. count - 1] ==
        IF i = 0 THEN Ascending(DOMAIN near) ELSE Select(near, after[i - 1], i)
  IN  after[count - 1]

Tinney1 ==
  /\ FormBus2Buses
  /\ LET order == Sorted(bus2buses') IN
     /\ old2new' = [old \in {order[i] : i \in 1 .. busN} |->
                      CHOOSE i \in 1 .. busN : order[i] = old]
     /\ new2old' = [i \in 1 .. busN |-> order[i]]
  /\ UNCHANGED <<island, busNumber, ends, turns>>

(* tinney2 is not finished: it collects the neighbours only. *)
Tinney2 ==
  /\ FormBus2Buses
  /\ UNCHANGED <<island, busNumber, ends, old2new, new2old, turns>>

(* trans looks every number up and uses what it finds without asking       *)
(* whether it did: the caller must have numbered these buses before.       *)
TransBy(map) ==
  /\ \A b \in 1 .. busN : busNumber[b] \in DOMAIN map
  /\ busNumber' = [b \in 1 .. busN |-> map[busNumber[b]]]
  /\ ends' = [k \in DOMAIN ends |-> <<map[ends[k][1]], map[ends[k][2]]>>]
  /\ UNCHANGED <<island, bus2buses, old2new, new2old>>

Trans ==
  /\ turns < MaxTurns
  /\ TransBy(old2new)
  /\ turns' = turns + 1

Recover ==
  /\ turns > -MaxTurns
  /\ TransBy(new2old)
  /\ turns' = turns - 1

Next == Tinney1 \/ Tinney2 \/ Trans \/ Recover

Spec == Init /\ [][Next]_vars

-----------------------------------------------------------------------------
TypeOK ==
  /\ island \in Islands
  /\ busNumber \in Seq(Nat)
  /\ \A k \in DOMAIN ends : ends[k] \in Nat \X Nat
  /\ \A b \in DOMAIN bus2buses : bus2buses[b] \in Seq(Nat)
  /\ turns \in -MaxTurns .. MaxTurns

(* The two maps are inverse to one another, number the buses from 1, and a *)
(* bus with fewer neighbours comes first.                                  *)
OrderedByDegree ==
  old2new # Nothing =>
    /\ DOMAIN new2old = 1 .. busN
    /\ \A i \in 1 .. busN : old2new[new2old[i]] = i
    /\ \A b \in DOMAIN old2new : new2old[old2new[b]] = b
    /\ \A i \in 1 .. busN - 1 :
         Degree(bus2buses, new2old[i]) <= Degree(bus2buses, new2old[i + 1])

(* Buses and branches are renumbered alike: no two buses get one number,   *)
(* and a branch still ends at the buses at which it ended.                 *)
SameIsland ==
  /\ \A b, c \in 1 .. busN : b # c => busNumber[b] # busNumber[c]
  /\ \A k \in DOMAIN ends :
       /\ ends[k][1] = busNumber[island.ends[k][1]]
       /\ ends[k][2] = busNumber[island.ends[k][2]]

(* Whatever is called between, also another numbering while the new        *)
(* numbers are in use, recover undoes trans.                               *)
Recovered == turns = 0 => busNumber = island.number
=============================================================================
