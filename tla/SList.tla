------------------------------- MODULE SList -------------------------------
(***************************************************************************)
(* The singly linked list of src/src/base/slist.c, its iterator included,  *)
(* and the stack of src/src/base/lstack.c, whose top is its first entry.   *)
(* An entry is found again only by walking from the list pointer, so a     *)
(* removal searches for the link that leads to the entry.                  *)
(*                                                                         *)
(* A link is named by its address: ROOT for the caller's list pointer, the *)
(* entry for its next field.  An operator X_Suffix next to an operator X   *)
(* is X with a plausible bug; no action uses it.                           *)
(***************************************************************************)
EXTENDS Heap, Functions

CONSTANTS
  Value,
  Rank,     \* what the callbacks see of a value, an integer
  ROOT      \* the address of the caller's list pointer, not a Pointer

VARIABLES
  list,     \* the caller's pointer to the first entry
  heap,
  iter,     \* the iterator, and the entries it has returned
  result,   \* what the last call that changes the list returned, an entry
            \* being written 1 and NULL 0
  top       \* what the last pop or peek of the list as a stack returned

vars == <<list, heap, iter, result>>

Entry == [data : Value, next : Pointer]

Equal(v, d) == Rank[v] = Rank[d]            \* SListEqualFunc
Compare(v, d) == Rank[v] - Rank[d]          \* SListCompareFunc

NoIterator == [active |-> FALSE, prev_next |-> NULL, current |-> NULL,
               returned |-> {}]

-----------------------------------------------------------------------------
Order == Walk(heap, list)
Contents == [i \in DOMAIN Order |-> heap[Order[i]].data]

Length == Len(Order)
NthEntry(n) == IF n < Length THEN Order[n + 1] ELSE NULL

(* A memory is the list pointer and the heap; a link is read and assigned  *)
(* through its address.                                                    *)
Memory == [list |-> list, heap |-> heap]
Link(m, address) == IF address = ROOT THEN m.list ELSE m.heap[address].next
SetLink(m, address, p) ==
  IF address = ROOT THEN [m EXCEPT !.list = p]
  ELSE [m EXCEPT !.heap = SetNext(@, address, p)]

(* The entry behind a link is cut out and freed. *)
CutOut(m, address) ==
  LET c == Link(m, address)
      cut == SetLink(m, address, m.heap[c].next)
  IN  [cut EXCEPT !.heap = Dealloc(@, c)]

Becomes(m) == list' = m.list /\ heap' = m.heap

-----------------------------------------------------------------------------
Init ==
  /\ list = NULL
  /\ heap = NoHeap
  /\ iter = NoIterator
  /\ result = 0

(* slist_prepend.  A caller that iterates gives up its iterator. *)
Prepend(c, v) ==
  /\ c \notin DOMAIN heap
  /\ heap' = Alloc(heap, c, [data |-> v, next |-> list])
  /\ list' = c
  /\ iter' = NoIterator
  /\ result' = 1

(* slist_append, also in the middle of an iteration. *)
LastEntry(v) == [data |-> v, next |-> NULL]

LastLink == IF list = NULL THEN ROOT ELSE Order[Length]

AppendEntry(c, v) ==
  /\ c \notin DOMAIN heap
  /\ Becomes(SetLink([Memory EXCEPT !.heap = Alloc(@, c, LastEntry(v))],
                     LastLink, c))
  /\ result' = 1
  /\ UNCHANGED iter

(* Either, when malloc fails. *)
InsertFails ==
  /\ result' = 0
  /\ UNCHANGED <<list, heap, iter>>

(* slist_remove_entry: the link that leads to the entry is searched.       *)
(* While it iterates the caller removes neither the current entry nor the  *)
(* one whose link prev_next points into.                                   *)
LinkTo(c) ==
  IF list = c THEN ROOT ELSE CHOOSE p \in DOMAIN heap : heap[p].next = c

RemoveEntry(c) ==
  /\ c \in DOMAIN heap
  /\ iter.active => c \notin {iter.prev_next, iter.current}
  /\ Becomes(CutOut(Memory, LinkTo(c)))
  /\ iter' = [iter EXCEPT !.returned = @ \ {c}]
  /\ result' = 1

(* slist_remove_entry of NULL, of a pointer to an entry that is no longer  *)
(* in the list, or in the empty list: the search finds nothing.            *)
RemoveNothing(p) ==
  /\ p \notin DOMAIN heap
  /\ result' = 0
  /\ UNCHANGED <<list, heap, iter>>

(* slist_remove_data: a link is passed only when its entry stays.          *)
SweepTurn(s, c, d) ==
  IF Equal(heap[c].data, d)
  THEN [s EXCEPT !.memory = CutOut(s.memory, s.rover)]
  ELSE [s EXCEPT !.rover = c]

Sweep(d) ==
  LET after[n \in 0 .. Length] ==      \* n turns of the loop
        IF n = 0 THEN [memory |-> Memory, rover |-> ROOT]
        ELSE SweepTurn(after[n - 1], Order[n], d)
  IN  after[Length].memory

RemoveData(d) ==
  /\ Becomes(Sweep(d))
  /\ result' = Cardinality({c \in Range(Order) : Equal(heap[c].data, d)})
  /\ iter' = NoIterator

-----------------------------------------------------------------------------
(* slist_sort_internal: the entries after the pivot go, one by one, to the *)
(* front of one of two sublists ...                                        *)
GoesLess(h, c, pivot) == Compare(h[c].data, h[pivot].data) < 0

SplitTurn(s, c, goesLess) ==
  IF goesLess
  THEN [s EXCEPT !.heap = SetNext(s.heap, c, s.less), !.less = c]
  ELSE [s EXCEPT !.heap = SetNext(s.heap, c, s.more), !.more = c]

Split(h, pivot, rest) ==
  LET after[n \in 0 .. Len(rest)] ==
        IF n = 0 THEN [heap |-> h, less |-> NULL, more |-> NULL]
        ELSE SplitTurn(after[n - 1], rest[n], GoesLess(h, rest[n], pivot))
  IN  after[Len(rest)]

(* ... which are sorted and joined around it. *)
Join_LessLost(h, less, more, pivot) == SetNext(h, pivot, more.list)    \* mutant
Join(h, less, more, pivot) ==
  LET h1 == IF less.list = NULL THEN h ELSE SetNext(h, less.end, pivot)
  IN  SetNext(h1, pivot, more.list)

SortCall(Inner, m) ==     \* Inner gives what the two calls of itself leave
  IF m.list = NULL \/ m.heap[m.list].next = NULL
  THEN [list |-> m.list, end |-> m.list, heap |-> m.heap]
  ELSE LET pivot == m.list
           split == Split(m.heap, pivot, Tail(Walk(m.heap, pivot)))
           less == Inner[[list |-> split.less, heap |-> split.heap]]
           more == Inner[[list |-> split.more, heap |-> less.heap]]
       IN  [list |-> IF less.list = NULL THEN pivot ELSE less.list,
            end |-> IF more.list = NULL THEN pivot ELSE more.end,
            heap |-> Join(more.heap, less, more, pivot)]

(* A call leaves its pivot out of the lists it sorts, so that calls nest   *)
(* no deeper than there are entries.                                       *)
SortInternal(h, l) ==
  LET memories == [list : Pointer, heap : [DOMAIN h -> Entry]]
      call[depth \in 0 .. Cardinality(DOMAIN h)] ==
        [m \in memories |-> SortCall(IF depth = 0 THEN <<>> ELSE call[depth - 1], m)]
  IN  call[Cardinality(DOMAIN h)][[list |-> l, heap |-> h]]

(* slist_sort *)
Sort ==
  /\ LET sorted == SortInternal(heap, list)
     IN  list' = sorted.list /\ heap' = sorted.heap
  /\ iter' = NoIterator
  /\ UNCHANGED result

-----------------------------------------------------------------------------
(* slist_iterate *)
Iterate ==
  /\ iter' = [NoIterator EXCEPT !.active = TRUE, !.prev_next = ROOT]
  /\ UNCHANGED <<list, heap, result>>

(* The test of the three iterator functions: the current entry is still    *)
(* the one the link leads to.                                              *)
AtCurrent ==
  iter.current # NULL /\ iter.current = Link(Memory, iter.prev_next)

(* What slist_iter_next is about to make current; slist_iter_has_more      *)
(* tells whether it is an entry.                                           *)
Upcoming ==
  IF AtCurrent THEN heap[iter.current].next ELSE Link(Memory, iter.prev_next)
HasMore == Upcoming # NULL

(* slist_iter_next *)
IterNext ==
  /\ iter.active
  /\ iter' = [iter EXCEPT
                !.prev_next = IF AtCurrent THEN iter.current ELSE @,
                !.current = Upcoming,
                !.returned = @ \cup ({Upcoming} \ {NULL})]
  /\ UNCHANGED <<list, heap, result>>

(* slist_iter_remove *)
CurrentAfterRemove_Next == heap[iter.current].next    \* mutant: steps on
CurrentAfterRemove == NULL

IterRemove ==
  /\ iter.active
  /\ AtCurrent
  /\ Becomes(CutOut(Memory, iter.prev_next))
  /\ iter' = [iter EXCEPT !.current = CurrentAfterRemove,
                          !.returned = @ \ {iter.current}]
  /\ UNCHANGED result

(* slist_free; the caller then drops its pointers. *)
Free ==
  /\ heap' = [c \in DOMAIN heap \ Range(Order) |-> heap[c]]
  /\ list' = NULL
  /\ iter' = NoIterator
  /\ UNCHANGED result

Next ==
  \/ \E c \in Cell, v \in Value : Prepend(c, v) \/ AppendEntry(c, v)
  \/ InsertFails
  \/ \E c \in Cell : RemoveEntry(c)
  \/ \E p \in Pointer : RemoveNothing(p)
  \/ \E d \in Value : RemoveData(d)
  \/ Sort
  \/ Iterate
  \/ IterNext
  \/ IterRemove
  \/ Free

Spec == Init /\ [][Next]_vars

-----------------------------------------------------------------------------
(* The shape of the state. *)
TypeOK ==
  /\ list \in Pointer
  /\ DOMAIN heap \subseteq Cell
  /\ heap \in [DOMAIN heap -> Entry]
  /\ result \in Nat
  /\ iter \in [active : BOOLEAN, prev_next : Pointer \cup {ROOT},
               current : Pointer, returned : SUBSET Cell]

(* Every allocated entry is met exactly once by following next from the    *)
(* list pointer: nothing leaked, nothing dangling, no cycle.               *)
WellLinked ==
  /\ IsInjective(Order)
  /\ Range(Order) = DOMAIN heap

(* The iterator's position splits the list: exactly the entries before the *)
(* upcoming one have been returned, through removals by the iterator or by *)
(* slist_remove_entry and through appends.                                 *)
IterationExact ==
  iter.active =>
    /\ iter.prev_next \in {ROOT} \cup DOMAIN heap
    /\ \E n \in 0 .. Length :
         /\ Upcoming = NthEntry(n)
         /\ iter.returned = {Order[i] : i \in 1 .. n}

-----------------------------------------------------------------------------
(* The stack: a behaviour of its calls is one of the list that also keeps  *)
(* what was read.                                                          *)
stackVars == <<vars, top>>

StackInit == Init /\ top = NULL

(* slist_nth_data of the first entry *)
FirstData == IF list = NULL THEN NULL ELSE heap[list].data

(* lstack_push *)
Push(c, v) ==
  /\ Prepend(c, v)
  /\ UNCHANGED top

PushFails == InsertFails /\ UNCHANGED top

(* lstack_pop, which reads the top before it frees its entry *)
Pop ==
  /\ top' = FirstData
  /\ IF list = NULL THEN RemoveNothing(NULL) ELSE RemoveEntry(list)

(* lstack_peek *)
Peek ==
  /\ top' = FirstData
  /\ UNCHANGED vars

StackNext ==
  \/ \E c \in Cell, v \in Value : Push(c, v)
  \/ PushFails
  \/ Pop
  \/ Peek
  \/ Free /\ UNCHANGED top

StackSpec == StackInit /\ [][StackNext]_stackVars
=============================================================================
