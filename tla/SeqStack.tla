------------------------------ MODULE SeqStack ------------------------------
(***************************************************************************)
(* The stack of src/src/base/seqstack.c, a growing array whose last value  *)
(* is the top.                                                             *)
(***************************************************************************)
EXTENDS ArrayList

CONSTANTS
  NULL,
  ReadsEmpty  \* whether callers pop and peek an empty stack

VARIABLE top  \* what the last pop or peek returned

stackVars == <<vars, top>>

StackInit == Init /\ top = NULL

(* seqstack_push *)
Push(v) ==
  /\ Insert(length, v) \/ InsertFails(length)
  /\ UNCHANGED top

(* seqstack_is_empty compares the pointer to the stack with NULL, so the   *)
(* test in seqstack_peek is never true of a stack; below the first slot of *)
(* the block there may be anything.                                        *)
LastSlot == IF length = 0 THEN Value \cup {UNDEF} ELSE {data[length - 1]}

(* seqstack_pop; the unsigned length - 1 of an empty stack is past its end *)
(* and nothing is removed.                                                 *)
PopIndex_Length == length                     \* mutant: one too high
PopIndex == (length - 1) % Word

Pop ==
  /\ length = 0 => ReadsEmpty
  /\ RemoveIndex(PopIndex)
  /\ top' \in LastSlot

(* seqstack_peek *)
Peek ==
  /\ Idle
  /\ length = 0 => ReadsEmpty
  /\ top' \in LastSlot
  /\ UNCHANGED vars

StackNext ==
  \/ \E hint \in 0 .. MaxAlloced : New(hint) /\ UNCHANGED top
  \/ Free /\ UNCHANGED top
  \/ \E v \in Value : Push(v)
  \/ Pop
  \/ Peek

StackSpec == StackInit /\ [][StackNext]_stackVars

-----------------------------------------------------------------------------
(* As long as nobody reads an empty stack, it is a stack: through any      *)
(* growth of its block the last value pushed is the next popped.           *)
Stack == INSTANCE AbstractStack WITH items <- Contents
ImplementsStack == Stack!Spec /\ [][Pop => Stack!Pop]_stackVars

(* seqstack.h says that a pop or a peek of an empty stack returns          *)
(* QUEUE_NULL.                                                             *)
EmptyReads == length = 0 /\ (Pop \/ Peek)
EmptyReadsNull == [][EmptyReads => top' = NULL]_stackVars
=============================================================================
