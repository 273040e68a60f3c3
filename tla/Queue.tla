------------------------------- MODULE Queue -------------------------------
(***************************************************************************)
(* The double-ended queue of src/src/base/queue.c: a doubly linked list of *)
(* malloc'ed entries with a pointer to each end.                           *)
(*                                                                         *)
(* Each call is one step but queue_free, which pops the entries one step   *)
(* at a time.                                                              *)
(*                                                                         *)
(* An operator X_Suffix next to an operator X is X with a plausible bug;   *)
(* no action uses it.                                                      *)
(***************************************************************************)
EXTENDS Heap

CONSTANT Value    \* the values a caller can push

VARIABLES
  pc,       \* "none" (no queue), "idle" (between calls), "freeing"
  head,
  tail,
  heap,     \* the allocated entries
  result    \* what the last push or pop returned

vars == <<pc, head, tail, heap, result>>

Entry == [data : Value, prev : Pointer, next : Pointer]

-----------------------------------------------------------------------------
(* The three assignments to the fields of a new entry. *)
NewEntry_PrevUnset(v, p, n) ==    \* mutant: prev is what malloc left there
  [data |-> v, prev |-> v, next |-> n]
NewEntry(v, p, n) == [data |-> v, prev |-> p, next |-> n]

IsEmpty == head = NULL

PeekHead == IF IsEmpty THEN NULL ELSE heap[head].data
PeekTail_Head == IF IsEmpty THEN NULL ELSE heap[head].data    \* mutant
PeekTail == IF IsEmpty THEN NULL ELSE heap[tail].data

-----------------------------------------------------------------------------
Init ==
  /\ pc = "none"
  /\ head = NULL
  /\ tail = NULL
  /\ heap = NoHeap
  /\ result = NULL

(* queue_new; a failed malloc leaves the caller with no queue. *)
New ==
  /\ pc = "none"
  /\ pc' = "idle"
  /\ head' = NULL
  /\ tail' = NULL
  /\ UNCHANGED <<heap, result>>

(* queue_queue_push_head.  The old first entry, if there is one, points    *)
(* back to the new one; if there is none the new one is also the last.     *)
LinkHead(h, c) == IF head = NULL THEN h ELSE SetPrev(h, head, c)
TailAfterPushHead(c) == IF head = NULL THEN c ELSE tail

PushHead(c, v) ==
  /\ pc = "idle"
  /\ c \notin DOMAIN heap
  /\ heap' = LinkHead(Alloc(heap, c, NewEntry(v, NULL, head)), c)
  /\ head' = c
  /\ tail' = TailAfterPushHead(c)
  /\ result' = 1
  /\ UNCHANGED pc

(* queue_queue_push_tail, which tests the other end for emptiness. *)
LinkTail(h, c) == IF tail = NULL THEN h ELSE SetNext(h, tail, c)
HeadAfterPushTail(c) == IF tail = NULL THEN c ELSE head

PushTail(c, v) ==
  /\ pc = "idle"
  /\ c \notin DOMAIN heap
  /\ heap' = LinkTail(Alloc(heap, c, NewEntry(v, tail, NULL)), c)
  /\ tail' = c
  /\ head' = HeadAfterPushTail(c)
  /\ result' = 1
  /\ UNCHANGED pc

(* Either push when malloc fails. *)
PushFails ==
  /\ pc = "idle"
  /\ result' = 0
  /\ UNCHANGED <<pc, head, tail, heap>>

(* The first entry is unlinked and freed. *)
CutHead(h) == IF h[head].next = NULL THEN h ELSE SetPrev(h, h[head].next, NULL)

UnlinkHead ==
  /\ head' = heap[head].next
  /\ tail' = IF heap[head].next = NULL THEN NULL ELSE tail
  /\ heap' = Dealloc(CutHead(heap), head)

(* queue_pop_head *)
PopHead ==
  /\ pc = "idle"
  /\ ~IsEmpty
  /\ UnlinkHead
  /\ result' = heap[head].data
  /\ UNCHANGED pc

(* queue_pop_tail *)
CutTail_Forward(h) == h    \* mutant: the new last entry keeps its next
CutTail(h) == IF h[tail].prev = NULL THEN h ELSE SetNext(h, h[tail].prev, NULL)

UnlinkTail_Head == UnlinkHead    \* mutant: the wrong end
UnlinkTail ==
  /\ tail' = heap[tail].prev
  /\ head' = IF heap[tail].prev = NULL THEN NULL ELSE head
  /\ heap' = Dealloc(CutTail(heap), tail)

PopTail ==
  /\ pc = "idle"
  /\ ~IsEmpty
  /\ UnlinkTail
  /\ result' = heap[tail].data
  /\ UNCHANGED pc

(* Either pop of the empty queue. *)
PopEmpty ==
  /\ pc = "idle"
  /\ IsEmpty
  /\ result' = NULL
  /\ UNCHANGED <<pc, head, tail, heap>>

(* queue_free: pops until the queue is empty, then frees the queue. *)
Free ==
  /\ pc = "idle"
  /\ pc' = "freeing"
  /\ UNCHANGED <<head, tail, heap, result>>

FreeLoopEnds == IsEmpty

FreeEntry_Peeks ==    \* mutant: the entry is looked at, not popped
  /\ pc = "freeing"
  /\ ~FreeLoopEnds
  /\ UNCHANGED vars

FreeEntry ==
  /\ pc = "freeing"
  /\ ~FreeLoopEnds
  /\ UnlinkHead
  /\ UNCHANGED <<pc, result>>

FreeQueue ==
  /\ pc = "freeing"
  /\ FreeLoopEnds
  /\ pc' = "none"
  /\ UNCHANGED <<head, tail, heap, result>>

Next ==
  \/ New
  \/ \E c \in Cell, v \in Value : PushHead(c, v) \/ PushTail(c, v)
  \/ PushFails
  \/ PopHead
  \/ PopTail
  \/ PopEmpty
  \/ Free
  \/ FreeEntry
  \/ FreeQueue

Spec == Init /\ [][Next]_vars

(* A call of queue_free, once made, runs on. *)
FairSpec == Spec /\ WF_vars(FreeEntry \/ FreeQueue)

-----------------------------------------------------------------------------
(* The shape of the state. *)
TypeOK ==
  /\ pc \in {"none", "idle", "freeing"}
  /\ head \in Pointer
  /\ tail \in Pointer
  /\ DOMAIN heap \subseteq Cell
  /\ heap \in [DOMAIN heap -> Entry]
  /\ result \in Value \cup {NULL, 0, 1}

(* s lists every allocated entry once, and the pointers of the queue and   *)
(* of the entries, followed from either end, go through it in order.       *)
Orders(h) == [1 .. Cardinality(DOMAIN h) -> DOMAIN h]

Links(h, hd, tl, s) ==
  LET n == Cardinality(DOMAIN h) IN
  /\ \A i, j \in 1 .. n : s[i] = s[j] => i = j
  /\ \A c \in DOMAIN h : \E i \in 1 .. n : s[i] = c
  /\ hd = IF n = 0 THEN NULL ELSE s[1]
  /\ tl = IF n = 0 THEN NULL ELSE s[n]
  /\ \A i \in 1 .. n : h[s[i]].next = IF i = n THEN NULL ELSE s[i + 1]
  /\ \A i \in 1 .. n : h[s[i]].prev = IF i = 1 THEN NULL ELSE s[i - 1]

(* The entries allocated are exactly those between head and tail, linked   *)
(* both ways: none is leaked, none is reached after it has been freed, and *)
(* the two emptiness tests (of head, of tail) agree.                       *)
WellLinked == \E s \in Orders(heap) : Links(heap, head, tail, s)

(* When the queue itself has been freed, so have all its entries. *)
FreeReleasesAll == pc = "none" => DOMAIN heap = {}

(* Between any two steps, the steps of queue_free included, the entries    *)
(* are linked as a queue, and none outlives it.                            *)
WellFormed == WellLinked /\ FreeReleasesAll

(* The values in the order the pointers give them. *)
OrderOf(h, hd, tl) == CHOOSE s \in Orders(h) : Links(h, hd, tl, s)
ContentsOf(h, hd, tl) ==
  [i \in 1 .. Cardinality(DOMAIN h) |-> h[OrderOf(h, hd, tl)[i]].data]
Contents == ContentsOf(heap, head, tail)

(* The two peeks show what the two pops would return. *)
PeekShowsEnds ==
  pc = "idle" /\ ~IsEmpty
    => PeekHead = Contents[1] /\ PeekTail = Contents[Len(Contents)]

(* queue_free returns: its loop ends. *)
FreeReturns == pc = "freeing" ~> pc = "none"

(* The linked entries are a deque and each call is one operation on it.    *)
(* What is left of a queue being freed is no longer the caller's.          *)
Items == IF pc = "freeing" THEN <<>> ELSE Contents
Deque == INSTANCE AbstractDeque WITH items <- Items
ImplementsDeque == Deque!Spec
=============================================================================
