----------------------------- MODULE LinkedList -----------------------------
(***************************************************************************)
(* The doubly linked list of src/src/base/list.c, its iterator included.   *)
(* The caller holds one list pointer, at most one iterator, and pointers   *)
(* to entries.                                                             *)
(*                                                                         *)
(* An iterator's prev_next is the address of a link: of the caller's list  *)
(* pointer (ROOT) or of the next field of an entry (written as the entry). *)
(*                                                                         *)
(* An operator X_Suffix next to an operator X is X with a plausible bug;   *)
(* no action uses it.                                                      *)
(***************************************************************************)
EXTENDS Heap, Functions

CONSTANTS
  Value,
  Rank,         \* what the callbacks see of a value
  ROOT,         \* the address of the caller's list pointer
  DropsCurrent  \* whether, in the middle of an iteration, the caller may free
                \* the iterator's current entry by list_remove_entry

Parameters ==
  /\ NULL \notin Cell
  /\ ROOT \notin Cell \cup {NULL}
  /\ Rank \in [Value -> Int]
  /\ DropsCurrent \in BOOLEAN

VARIABLES
  list,     \* the caller's pointer to the first entry
  heap,
  iter,     \* the iterator
  result    \* what the last call that changes the list returned, an entry
            \* being written 1 and NULL 0

vars == <<list, heap, iter, result>>

Entry == [data : Value, prev : Pointer, next : Pointer]

Equal(v, d) == Rank[v] = Rank[d]            \* ListEqualFunc
Compare(v, d) == Rank[v] - Rank[d]          \* ListCompareFunc

(* The iterator, the entries it has returned that are still allocated, and *)
(* whether the current entry was freed behind its back.                    *)
NoIterator == [active |-> FALSE, prev_next |-> NULL, current |-> NULL,
               returned |-> {}, dropped |-> FALSE]

-----------------------------------------------------------------------------
Order == Walk(heap, list)
Contents == [i \in DOMAIN Order |-> heap[Order[i]].data]

(* The queries walk the list: list_length, and list_nth_entry, which goes  *)
(* past the end to NULL; list_to_array gives Contents.                     *)
Length == Len(Order)
NthEntry(n) == IF n < Length THEN Order[n + 1] ELSE NULL

-----------------------------------------------------------------------------
Init ==
  /\ list = NULL
  /\ heap = NoHeap
  /\ iter = NoIterator
  /\ result = 0

(* list_prepend.  A caller that iterates gives up its iterator. *)
BackLink(h, c) == IF list = NULL THEN h ELSE SetPrev(h, list, c)

Prepend(c, v) ==
  /\ c \notin DOMAIN heap
  /\ heap' = BackLink(Alloc(heap, c, [data |-> v, prev |-> NULL, next |-> list]), c)
  /\ list' = c
  /\ iter' = NoIterator
  /\ result' = 1

(* list_append, also in the middle of an iteration. *)
FirstEntry(v) == [data |-> v, prev |-> NULL, next |-> NULL]

AppendEntry(c, v) ==
  /\ c \notin DOMAIN heap
  /\ \/ /\ list = NULL
        /\ list' = c
        /\ heap' = Alloc(heap, c, FirstEntry(v))
     \/ /\ list # NULL
        /\ list' = list
        /\ LET rover == Order[Length]
           IN  heap' = Alloc(SetNext(heap, rover, c), c,
                             [data |-> v, prev |-> rover, next |-> NULL])
  /\ result' = 1
  /\ UNCHANGED iter

(* Either, when malloc fails. *)
InsertFails ==
  /\ result' = 0
  /\ UNCHANGED <<list, heap, iter>>

(* The unlinking of entry c from list l in heap h: list_remove_entry and   *)
(* the body of list_remove_data's loop.                                    *)
Unlink(l, h, c) ==
  LET p == h[c].prev
      n == h[c].next
      forward == IF p = NULL THEN h ELSE SetNext(h, p, n)
      both == IF n = NULL THEN forward ELSE SetPrev(forward, n, p)
  IN  [list |-> IF p = NULL THEN n ELSE l, heap |-> Dealloc(both, c)]

(* list_remove_entry.  While it iterates the caller does not remove the    *)
(* entry whose link prev_next points into, and removes the current entry   *)
(* only if DropsCurrent.                                                   *)
RemoveEntry(c) ==
  /\ c \in DOMAIN heap
  /\ iter.active => c # iter.prev_next
  /\ iter.active /\ c = iter.current => DropsCurrent
  /\ list' = Unlink(list, heap, c).list
  /\ heap' = Unlink(list, heap, c).heap
  /\ iter' = [iter EXCEPT !.returned = @ \ {c},
                          !.dropped = @ \/ c = iter.current]
  /\ result' = 1

(* list_remove_entry of the empty list, or of NULL. *)
RemoveNothing ==
  /\ result' = 0
  /\ UNCHANGED <<list, heap, iter>>

(* list_remove_data: one walk, the next entry read before the unlinking.   *)
SweepTurn(m, c, d) ==
  IF Equal(heap[c].data, d) THEN Unlink(m.list, m.heap, c) ELSE m

Sweep(d) ==
  LET after[n \in 0 .. Length] ==      \* n turns of the loop
        IF n = 0 THEN [list |-> list, heap |-> heap]
        ELSE SweepTurn(after[n - 1], Order[n], d)
  IN  after[Length]

RemoveData(d) ==
  /\ list' = Sweep(d).list
  /\ heap' = Sweep(d).heap
  /\ result' = Cardinality({c \in Range(Order) : Equal(heap[c].data, d)})
  /\ iter' = NoIterator

-----------------------------------------------------------------------------
(* list_sort_internal moves entry c to the front of a sublist ... *)
PushFront(h, c, front) ==
  LET h1 == SetPrev(SetNext(h, c, front), c, NULL)
  IN  IF front = NULL THEN h1 ELSE SetPrev(h1, front, c)

(* ... of the entries less than the pivot, or of the others.  A turn of    *)
(* the loop keeps rover->next aside before it relinks rover.               *)
GoesLess(h, c, pivot) == Compare(h[c].data, h[pivot].data) < 0

SplitTurn(s, c, goesLess) ==
  IF goesLess
  THEN [s EXCEPT !.heap = PushFront(s.heap, c, s.less), !.less = c]
  ELSE [s EXCEPT !.heap = PushFront(s.heap, c, s.more), !.more = c]

Split(h, pivot, rest) ==
  LET after[n \in 0 .. Len(rest)] ==
        IF n = 0 THEN [heap |-> h, less |-> NULL, more |-> NULL]
        ELSE SplitTurn(after[n - 1], rest[n], GoesLess(h, rest[n], pivot))
  IN  after[Len(rest)]

(* The two sublists, sorted, are joined around the pivot. *)
JoinLess(h, less, pivot) ==
  IF less.list = NULL THEN SetPrev(h, pivot, NULL)
  ELSE SetNext(SetPrev(h, pivot, less.end), less.end, pivot)
JoinMore_Unlinked(h, more, pivot) ==    \* mutant: the back link is forgotten
  SetNext(h, pivot, more.list)
JoinMore(h, more, pivot) ==
  IF more.list = NULL THEN SetNext(h, pivot, NULL)
  ELSE SetPrev(SetNext(h, pivot, more.list), more.list, pivot)

(* list_sort_internal, called in memory m: the sorted list's first and     *)
(* last entries, and the heap it leaves.  Inner gives what the two calls   *)
(* of itself leave.                                                        *)
SortCall(Inner, m) ==
  IF m.list = NULL \/ m.heap[m.list].next = NULL
  THEN [list |-> m.list, end |-> m.list, heap |-> m.heap]
  ELSE LET pivot == m.list
           split == Split(m.heap, pivot, Tail(Walk(m.heap, pivot)))
           less == Inner[[list |-> split.less, heap |-> split.heap]]
           more == Inner[[list |-> split.more, heap |-> less.heap]]
       IN  [list |-> IF less.list = NULL THEN pivot ELSE less.list,
            end |-> IF more.list = NULL THEN pivot ELSE more.end,
            heap |-> JoinMore(JoinLess(more.heap, less, pivot), more, pivot)]

(* A call leaves its pivot out of the lists it sorts, so that calls nest   *)
(* no deeper than there are entries.                                       *)
SortInternal(h, l) ==
  LET memories == [list : Pointer, heap : [DOMAIN h -> Entry]]
      call[depth \in 0 .. Cardinality(DOMAIN h)] ==
        [m \in memories |-> SortCall(IF depth = 0 THEN <<>> ELSE call[depth - 1], m)]
  IN  call[Cardinality(DOMAIN h)][[list |-> l, heap |-> h]]

(* list_sort *)
Sort ==
  /\ LET sorted == SortInternal(heap, list)
     IN  list' = sorted.list /\ heap' = sorted.heap
  /\ iter' = NoIterator
  /\ UNCHANGED result

-----------------------------------------------------------------------------
(* What a link holds. *)
Link(address) == IF address = ROOT THEN list ELSE heap[address].next

(* list_iterate *)
Iterate ==
  /\ iter' = [NoIterator EXCEPT !.active = TRUE, !.prev_next = ROOT]
  /\ UNCHANGED <<list, heap, result>>

(* The test of the three iterator functions: the current entry is still    *)
(* the one the link leads to.                                              *)
AtCurrent == iter.current # NULL /\ iter.current = Link(iter.prev_next)

(* The entry that list_iter_next is about to make current; list_iter_has_  *)
(* more tells whether there is one.                                        *)
Upcoming == IF AtCurrent THEN heap[iter.current].next ELSE Link(iter.prev_next)
HasMore == Upcoming # NULL

(* list_iter_next *)
StepLink == IF AtCurrent THEN iter.current ELSE iter.prev_next

IterNext ==
  /\ iter.active
  /\ iter' = [iter EXCEPT !.prev_next = StepLink, !.current = Upcoming,
                          !.returned = @ \cup ({Upcoming} \ {NULL}),
                          !.dropped = FALSE]
  /\ UNCHANGED <<list, heap, result>>

(* list_iter_remove: nothing, or the current entry is unlinked through the *)
(* link that leads to it and freed.                                        *)
IterRemove ==
  /\ iter.active
  /\ AtCurrent
  /\ LET c == iter.current
         n == heap[c].next
         h == IF n = NULL THEN heap ELSE SetPrev(heap, n, heap[c].prev)
     IN  /\ list' = IF iter.prev_next = ROOT THEN n ELSE list
         /\ heap' = Dealloc(IF iter.prev_next = ROOT THEN h
                            ELSE SetNext(h, iter.prev_next, n), c)
         /\ iter' = [iter EXCEPT !.current = NULL, !.returned = @ \ {c}]
  /\ UNCHANGED result

(* list_free, which frees every entry; the caller then drops its pointers. *)
Free ==
  /\ heap' = [c \in DOMAIN heap \ Range(Order) |-> heap[c]]
  /\ list' = NULL
  /\ iter' = NoIterator
  /\ UNCHANGED result

Next ==
  \/ \E c \in Cell, v \in Value : Prepend(c, v) \/ AppendEntry(c, v)
  \/ InsertFails
  \/ \E c \in Cell : RemoveEntry(c)
  \/ RemoveNothing
  \/ \E d \in Value : RemoveData(d)
  \/ Sort
  \/ Iterate
  \/ IterNext
  \/ IterRemove
  \/ Free

Spec == Init /\ [][Next]_vars

-----------------------------------------------------------------------------
(* The shape of the state. *)
TypeOK ==
  /\ list \in Pointer
  /\ DOMAIN heap \subseteq Cell
  /\ heap \in [DOMAIN heap -> Entry]
  /\ result \in Nat
  /\ iter \in [active : BOOLEAN, prev_next : Pointer \cup {ROOT},
               current : Pointer, returned : SUBSET Cell, dropped : BOOLEAN]

(* Every allocated entry is met exactly once by following next from the    *)
(* list pointer, and prev leads back: nothing leaked, nothing dangling.    *)
WellLinked ==
  /\ IsInjective(Order)
  /\ Range(Order) = DOMAIN heap
  /\ \A i \in DOMAIN Order :
       heap[Order[i]].prev = IF i = 1 THEN NULL ELSE Order[i - 1]

(* The iterator's link is the list pointer or a field of an allocated      *)
(* entry, and its position splits the list: exactly the entries before the *)
(* upcoming one have been returned.  So every entry is returned once, in   *)
(* order, whatever the caller removes or appends on the way.               *)
IterationExact ==
  iter.active =>
    /\ iter.prev_next \in {ROOT} \cup DOMAIN heap
    /\ \E n \in 0 .. Length :
         /\ Upcoming = NthEntry(n)
         /\ iter.returned = {Order[i] : i \in 1 .. n}

(* After the current entry has been freed by another call, the iterator    *)
(* goes on with what its link leads to.                                    *)
FreedCurrentIsSkipped ==
  iter.active /\ iter.dropped => Upcoming = Link(iter.prev_next)

(* list.h says of the compare function that it is positive if value1 sorts *)
(* before value2.  With such a function, list_sort, were it called now,    *)
(* would leave no value right before one that sorts before it.             *)
SortsBefore(v, d) == Compare(v, d) > 0
DocumentedSort ==
  LET sorted == SortInternal(heap, list)
      order == Walk(sorted.heap, sorted.list)
      DataAt(i) == sorted.heap[order[i]].data
  IN  \A i \in 1 .. Len(order) - 1 : ~SortsBefore(DataAt(i + 1), DataAt(i))
=============================================================================
