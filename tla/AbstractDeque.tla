--------------------------- MODULE AbstractDeque ---------------------------
(***************************************************************************)
(* What the double-ended queue of queue.h promises its caller: a sequence  *)
(* of values, pushed and popped at either end one whole call at a time.  A *)
(* push may be refused (no memory) and a pop of the empty queue returns    *)
(* QUEUE_NULL; neither changes the sequence.                               *)
(***************************************************************************)
EXTENDS Sequences, Integers

CONSTANTS Value, NULL

VARIABLES
  items,    \* the values, head first
  result    \* what the last push or pop returned

vars == <<items, result>>

TypeOK ==
  /\ items \in Seq(Value)
  /\ result \in Value \cup {NULL, 0, 1}

Init ==
  /\ items = <<>>
  /\ result = NULL

PushHead(v) ==
  /\ items' = <<v>> \o items
  /\ result' = 1

PushTail(v) ==
  /\ items' = Append(items, v)
  /\ result' = 1

PushRefused ==
  /\ result' = 0
  /\ UNCHANGED items

PopHead ==
  /\ items # <<>>
  /\ result' = items[1]
  /\ items' = Tail(items)

PopTail ==
  /\ items # <<>>
  /\ result' = items[Len(items)]
  /\ items' = SubSeq(items, 1, Len(items) - 1)

PopNothing ==
  /\ items = <<>>
  /\ result' = NULL
  /\ UNCHANGED items

Destroy ==
  /\ items' = <<>>
  /\ UNCHANGED result

Next ==
  \/ \E v \in Value : PushHead(v) \/ PushTail(v)
  \/ PushRefused
  \/ PopHead
  \/ PopTail
  \/ PopNothing
  \/ Destroy

Spec == Init /\ [][Next]_vars
=============================================================================
