--------------------------- MODULE AbstractStack ---------------------------
(***************************************************************************)
(* What a stack of this library promises its caller: the last value pushed *)
(* is the next popped, and an empty stack gives NULL (seqstack.h,          *)
(* lstack.h).                                                              *)
(***************************************************************************)
EXTENDS Integers, Sequences

CONSTANTS Value, NULL

VARIABLES
  items,    \* the values on the stack, the next to be popped last
  top       \* what the last pop or peek returned

vars == <<items, top>>

TopOfItems == IF items = <<>> THEN NULL ELSE items[Len(items)]

Init ==
  /\ items = <<>>
  /\ top = NULL

Push(v) ==
  /\ items' = Append(items, v)
  /\ UNCHANGED top

Pop ==
  /\ top' = TopOfItems
  /\ items' = IF items = <<>> THEN items ELSE SubSeq(items, 1, Len(items) - 1)

Peek ==
  /\ top' = TopOfItems
  /\ UNCHANGED items

Destroy ==
  /\ items' = <<>>
  /\ UNCHANGED top

Next == (\E v \in Value : Push(v)) \/ Pop \/ Peek \/ Destroy

Spec == Init /\ [][Next]_vars
=============================================================================
