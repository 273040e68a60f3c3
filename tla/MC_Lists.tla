------------------------------ MODULE MC_Lists ------------------------------
(***************************************************************************)
(* The two linked lists and the growing array, which keep the same promise *)
(* of a sequence, and the two stacks made of them: a behaviour is that of  *)
(* a structure of one kind, chosen at the start and then fixed.            *)
(*                                                                         *)
(* Four addresses, so that a sort splits both its sublists again, three    *)
(* values, two of which the callbacks take for equal, and arrays of up to  *)
(* four values, so that a block grows twice.                               *)
(***************************************************************************)
EXTENDS SeqStack, TLC

CONSTANTS Kinds, Cell, ROOT, DropsCurrent, a, b, b2

VARIABLES kind, list, heap, iter, returned, popped

MCRank == a :> 1 @@ b :> 2 @@ b2 :> 2

Symmetry == Permutations(Cell)

Doubly == INSTANCE LinkedList WITH result <- returned
Singly == INSTANCE SList WITH result <- returned, top <- popped

ASSUME ListAssumption == Doubly!Parameters
ASSUME ArrayAssumption == Parameters

Arrays == {"array", "seqstack"}
ASSUME KindsAssumption == Kinds \subseteq {"doubly", "singly", "lstack"} \cup Arrays

links == <<list, heap, iter, returned, popped>>

ListsInit ==
  /\ kind \in Kinds
  /\ IF kind = "doubly" THEN Doubly!Init /\ popped = NULL ELSE Singly!StackInit
  /\ StackInit

ListsNext ==
  /\ UNCHANGED kind
  /\ \/ kind = "doubly" /\ Doubly!Next /\ UNCHANGED <<popped, stackVars>>
     \/ kind = "singly" /\ Singly!Next /\ UNCHANGED <<popped, stackVars>>
     \/ kind = "lstack" /\ Singly!StackNext /\ UNCHANGED stackVars
     \/ kind = "array" /\ Next /\ UNCHANGED <<links, top>>
     \/ kind = "seqstack" /\ StackNext /\ UNCHANGED links

ListsSpec == ListsInit /\ [][ListsNext]_<<links, stackVars, kind>>

(* Following next from the list pointer meets every allocated entry once,  *)
(* and prev, where there is one, leads back; the array and what is still   *)
(* to be sorted of it have their shape.                                    *)
ListsWellFormed ==
  CASE kind = "doubly" -> Doubly!TypeOK /\ Doubly!WellLinked
    [] kind \in {"singly", "lstack"} -> Singly!TypeOK /\ Singly!WellLinked
    [] kind \in Arrays -> TypeOK

(* The iterator of either list returns every entry once and in order while *)
(* the caller appends, and removes entries, on the way.                    *)
ListsIterationExact ==
  IF kind = "singly" THEN Singly!IterationExact ELSE Doubly!IterationExact

(* What the code says of a freed current entry and of the compare          *)
(* function, of the doubly linked list.                                    *)
FreedCurrentIsSkipped == Doubly!FreedCurrentIsSkipped
DocumentedSort == Doubly!DocumentedSort

(* Each call on a linked list is one operation on the sequence of values.  *)
Sequences == INSTANCE AbstractList WITH items <- Doubly!Contents, result <- returned
ListsImplementList == Sequences!Spec

(* Either stack gives back the values in the reverse of the order in which *)
(* they were pushed, and a pop always takes one away.                      *)
Pushed == IF kind = "seqstack" THEN Contents ELSE Reverse(Doubly!Contents)
Answer == IF kind = "seqstack" THEN top ELSE popped
Stacks == INSTANCE AbstractStack WITH items <- Pushed, top <- Answer
PopCall ==
  \/ kind = "seqstack" /\ Pop
  \/ kind = "lstack" /\ Singly!Pop
StackStep ==
  kind \in {"lstack", "seqstack"} =>
    /\ [Stacks!Next]_(Stacks!vars)
    /\ PopCall => Stacks!Pop
StacksImplementStack == Stacks!Init /\ [][StackStep]_<<links, stackVars>>
=============================================================================
