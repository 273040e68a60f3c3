# A verification project for c-algorithms

TLA+ models of the data structures under `src/src/base` and of the power flow
programs under `src/src/pscpu`, the TLC runs that check them on small instances,
and the TLAPS proofs that establish the most important properties for every
instance. Paths below are those of the repository seen from
the directory above this one: `src/src/base/list.c` is the repository's
`src/base/list.c`.

## The system

c-algorithms is a library of data structures in C, with a part in C++ that uses
them for power-system computations. The library is sequential and has no global
state: a structure is an object on the heap that one caller owns, and what a call
does depends on the structure, its arguments and the answers of `malloc`. What
makes it hard is not concurrency but

* **memory**: `malloc`, `calloc` or `realloc` may fail at any call, in the middle
  of an operation that has already changed something (`src/test/alloc-testing.c`
  exists to provoke exactly that);
* **pointers**: chains, lists and trees are relinked while they are walked, and a
  wrong link shows calls later, at the other end of the structure;
* **redundant data**: heights of subtrees, use counts of trie nodes, reference
  counts of binomial trees, colors, numbers of entries;
* **iterators** that live across the caller's changes;
* **ownership** of keys and values, which registered free functions hand over;
* **loops** whose end depends on the shape of what they walk and change.

### Inventory

| component | state | operations | hard behaviour | what makes it correct |
|---|---|---|---|---|
| hash table (`hash-table.c`) | chains, size, count, prime index, free functions | new, register, insert, remove, lookup, iterate, free | enlargement in place, failed allocations inside it, sizes past the last prime, overwrite, removal while iterating | a map; entries in the right chain; bounded load; owns exactly what it holds |
| queue (`queue.c`) | doubly linked entries, head, tail | push, pop, peek at both ends, free | emptiness tested at head or at tail | a deque; nothing leaked or dangling |
| doubly and singly linked list (`list.c`, `slist.c`) | entries, a caller's list pointer, an iterator | prepend, append, remove by entry and by data, sort, iterate, free | in-place recursive sort, an iterator that is the address of a link | a sequence; an iteration is exact under removals and appends |
| trie (`trie.c`) | nodes with 256 links and use counts | insert, remove, lookup, each for strings and binary keys, free | rollback of a partly built branch, removal of the unused tail of a path, freeing without recursion | a map; a tree; exact use counts |
| AVL tree (`avl-tree.c`) | nodes with parent, height, two children | insert, remove by key and by node, lookup, free | rebalancing on the way up, exchange with a replacement, equal keys | an ordered sequence; balance; lookups find every key |
| red-black tree (`rb-tree.c`) | nodes with parent, color, two children | insert, lookup, free, a stub for remove | five repair cases, going up | red-black conditions; order |
| binary heap (`binary-heap.c`) | an array that is doubled, a count | insert, pop, free | both percolations, `realloc` failing | a priority queue |
| binomial heap (`binomial-heap.c`) | roots of trees with reference counts | insert, pop, free | merge and undo, sharing of subtrees | a priority queue; exact reference counts |
| set (`set.c`) | as the hash table | insert, remove, query, union, intersection, iterate | failures inside union and intersection, iteration under removal | a set |
| array list, stacks (`arraylist.c`, `seqstack.c`, `lstack.c`) | an array and its length; wrappers | insert, remove ranges, index, sort; push, pop | unsigned index arithmetic, in-place quicksort, pop when empty | a sequence; a stack |
| Bloom filter (`bloom-filter.c`) | a table of bits | insert, query, union, intersection, load | hashes with salts | never forgets a value |
| binary tree, search tree (`bi-tree.c`, `bs-tree.c`) | nodes with children, a count | insert at a place, remove a subtree; insert in order | removal of whole subtrees; equal keys | a tree with an exact count; an ordered sequence |
| graph (`graph.c`) | vertices with lists of edges, `visited` marks | traversals, spanning trees, shortest paths, critical path | a work list whose pushes fail, graphs in several pieces, one loop feeding the next | reference definitions on graphs |
| sparse matrices (`SparseMatrix.cpp`, `MapSparseMatrix.cpp`) | nodes on a row list and a column list; a map from numbers | set, add, get, structure, values by rows and by columns | two orders of one set of entries; two numberings of the positions | a partial function from positions to values |
| bus numbering (`BusNumberOpt.cpp`) | the two maps between old and new numbers | tinney1, trans, recover | maps made while new numbers are in use | the same island; recover undoes trans |
| network matrices (`YMatrix`, `PFUtil`, `StateCalculator`, `Jacobian`, `Hessian` in `src/src/pscpu`) | admittances, measures | one function for each kind of measure and of coordinates | which cells are written, overwritten or added to | the derivatives of the constraints |
| power flow, optimal power flow, state estimation (`NewtonPF`, `NewtonAlg`, `IpoptPF`, `IpoptOPF`, `IpoptSE`, `PFModel_CI`) | the model, two sparse matrices that outlive a call | initial model, sizes, structures, values, constraints, result | sizes declared in one callback and filled in by others; matrices reused from point to point | a solver gets what it was told, at the point it asked for |
| continuation power flow (`BasicCPF`) | | | unfinished | not modelled |
| IEEE format (`src/src/ieeeformat`) | none kept | read, write | text | not modelled |
| hash and compare functions | none | pure functions | | constants of the models |
| allocation testing (`src/test`) | a countdown | | failing allocations | the nondeterminism of the models |

The components interact by calls only: the graph uses the queue, the lists and
the AVL tree; the stacks wrap the array list and the singly linked list; the
power flow programs keep their Jacobian and Hessian in sparse matrices, which a
solver (Ipopt, SuperLU) reads through callbacks in an order of its own; the
structures call back compare, equality, hash and free functions, which are pure
as far as the structure is concerned. `PROJECT.json` lists every component with
its state of work, and the hazards with the lines where they bite.

## The modules

| module | models | abstract specification it implements |
|---|---|---|
| `HashTable` | `hash-table.c` | `AbstractMap` |
| `Queue` | `queue.c` | `AbstractDeque` |
| `LinkedList`, `SList`, `ArrayList` | `list.c`, `slist.c`, `arraylist.c` | `AbstractList` |
| `SeqStack` | `seqstack.c`, extending `ArrayList` (`lstack.c` is in `SList`) | `AbstractStack` |
| `Set` | `set.c` | `AbstractSets` |
| `BloomFilter` | `bloom-filter.c` | |
| `Trie` | `trie.c` | `AbstractMap` |
| `AVLTree` | `avl-tree.c` | `AbstractOrdered` |
| `RBTree` | `rb-tree.c` | insertions of `AbstractOrdered` |
| `BiTree`, `BSTree` | `bi-tree.c`; the insertion of `bs-tree.c` over it | insertions of `AbstractOrdered` (`BSTree`) |
| `Graph`, extending `Queue` | `graph.c` | reference definitions in the module |
| `SparseMatrix`, `MapSparseMatrix` | the two classes of matrix | `AbstractMatrix` |
| `BusNumberOpt` | `BusNumberOpt.cpp` | |
| `Network`, `StateCalculator`, `Jacobian`, `Hessian` | `YMatrix.cpp`, `PFUtil.cpp` (`Network`) and the functions of the files of the same names | |
| `PowerFlow`, over the four above | the drivers and their dialogue with a solver | |
| `BinaryHeap`, `BinomialHeap` | `binary-heap.c`, `binomial-heap.c` | `AbstractPriorityQueue` |
| `Heap` | allocation, links and walks of entries, shared by the queue and the lists | |
| `HashTable_proofs`, `Set_proofs`, `Graph_proofs` (with the queue), `Lists_proofs` (with the array list), `BinaryHeap_proofs`, `Power_proofs` | the theorems (those of the Bloom filter and of `MapSparseMatrix` are in their own modules) | |
| `MC_*` | the instances that TLC checks | |

### How state and actions correspond to the code

* A **pointer** is a member of `Cell` (the addresses `malloc` can return) or
  `NULL`; a module's `heap` (or `tree`) is a function from the allocated addresses
  to records with the fields of the C struct. Freeing removes an address, so a
  dangling pointer is one outside the domain, a leak is an address nobody reaches,
  and an address may be allocated again.
* An **operation** is one action if its code runs in a loop-free way or if its
  loop's intermediate states matter to nobody, and several if they do. The loops
  taken apart are: the enlargement of the hash table (one entry a step), the
  insertion, rollback, removal and `trie_free` of the trie (one node a step),
  `queue_free` (one entry a step), the climb of `avl_tree_balance_to_root` (one
  node a step), the repair of the red-black tree (one call of case 1 a step), the
  percolations of the binary heap and the merge of the binomial heap (one turn a
  step), the quicksort of the array list (one comparison a step), the enlargement of
  a set (one value a step) and the loops of `set_union` and `set_intersection` (one
  value a step). `pc`, or `pending` and `part` of the array list and `job` of the
  sets, says where the program is.
  A caller starts no second call while one is under way, for the library is not
  reentrant.
* **The traversals of the graph and its critical path** are taken apart to one edge a
  step, over the queue of `Queue`: their pushes are that module's actions, and fail
  as they do. The spanning trees and the shortest paths are functions of the graph,
  a turn of their loops being a named operator, since no caller sees between.
* **A value of a matrix** in `Jacobian`, `Hessian` and `PowerFlow` is not a number but
  what the number depends on: the set of the evaluations, and in the Hessian of the
  multipliers, that went into it. A cell that keeps a summand of an earlier point, or
  lacks one, is then a different value. `StateCalculator` gives each constraint as the
  set of its terms, a term as the columns of the state it multiplies and those whose
  sine or cosine it takes, from which follow the columns a constraint depends on and
  the pairs with a second derivative. The Jacobian and the Hessian are translated from
  their own files, so that the comparison is one of two pieces of code.
* **A solver** calls what it likes in any order, each time at the last point or at
  another; Newton's iteration is that of `NewtonAlg`.
* **Failed allocations** are disjuncts of the actions (`EnlargeFails`,
  `AddEntryFails`, `PushFails`, `InsertFails`, `CreateFails`, `MergeFails`, ...).
  Any allocation may fail at any time.
* **Callbacks** are constants: `Hash` and `ClassOf` (a key object and the class
  `equal_func` puts it in), `Rank` (what compare and equality see of a list value),
  the order of the integers for trees and heaps.
* **The recursion of `arraylist_sort_internal`** is a stack of ranges: `pending` are
  the calls not yet begun, `part` the local variables of the one that is running.
  Nothing happens in a call after its two recursive ones, so nothing else is kept.
* **A slot of the array list** that was never written holds `UNDEF`; `realloc` keeps
  what the smaller block held and leaves the rest unwritten. Index arithmetic is
  that of an unsigned int of `Word` values.
* **A set** is a record of its fields, and `sets` says which set each of the
  caller's pointers stands for, so that a union can relate three of them. `memory`
  says whether the last call got what it asked of the allocator, so that the
  abstract specification can say that a union fails only for want of memory.
* **A Bloom filter** also records, for the properties, the values it must know and
  whether an intersection had a part in it.
* **An iterator of a list** holds the address of a link: `ROOT` for the caller's
  list pointer, an entry for that entry's `next` field.
* `last` and `result` hold what the last call returned, so that the abstract
  specifications can speak of it.
* Operators such as `Rotate`, `Replace` or `MergeTrees` are the static functions of
  the same name, as functions from a tree to a tree.
* `X_Suffix` next to `X` is `X` with a plausible bug. No action uses it; replacing
  `X` by it must break a property, which shows that the property can be broken.

Queries are operators, used by the actions and by the properties (`Lookup`,
`PeekHead`, `NthEntry`, `LookupNode`). Functions that only read and serve no other
(`list_find_data`, `list_nth_data`, the accessors of trees) are left out.

### Assumptions about the caller

* Both free functions of a hash table are registered together, before the first
  insertion, no object is handed over twice, and none is both a key and a value.
* A hash-table iterator is given up at an insertion (the enlargement moves the
  entries under it), and the caller does not remove the key the iterator stands
  before; it may remove any other. `hash_table_iter_next` is documented to return
  the next key and returns the value; the model records which entry was met.
* A list iterator is given up at a prepend, at `remove_data` and at a sort; the
  caller may append, may remove the current entry through the iterator, and may
  remove any other entry but the one whose link the iterator holds.
* The ranges passed to `arraylist_remove_range` do not wrap around: `index + length`
  is a number of the type. An empty `seqstack` is neither popped nor read, but in
  the run of finding 4.
* All sets have the same hash and equality function (`set_intersection` combines
  those of its two arguments). At most one set at a time owns its values through a
  free function, it is filled after the function is registered, and a value that
  another set shares is not removed from its owner. An iteration of a set is given
  up at an insertion into it and at a union, and the caller does not remove the
  value the iterator stands before.
* A Bloom filter is loaded from what was read from a filter with the same arguments,
  as `bloom-filter.h:136-138` asks.
* The counters do not reach 2^32: `entries * 3` and `entries * 10` in
  `hash-table.c` and `set.c`, `_alloced * 2` in `arraylist.c`, `use_count` in `trie.c`, `alloced_size * 2` in `binary-heap.c`
  and `refcount` in `binomial-heap.c` are unbounded integers here.
* Compare functions return -1, 0 or 1, so that negating the result is harmless.
* A graph is built, vertices first, without a failed allocation (the code tests none
  of them). Where weights are compared the graph is simple, without an edge from a
  vertex to itself, and the costs of different paths differ, as the comment at
  `graph.c:374` asks; Prim's algorithm is given connected graphs. A schedule has its
  edges from a layer to the next and starts at its only source.
* Positions given to a matrix lie inside it (neither class tests this).
* Every bus of an island is on a branch that `formMatrix` does not pass over, and no
  branch has both ends at one bus. Bus types are 0 to 3; type 4 comes only from
  `find_CNnode`. A slack bus's voltage is fixed only where there is a `slackBusCol`,
  and no angle is measured in rectangular coordinates, where it has a value but no
  derivatives (see "Also noticed").

## The runs

Seven runs pass, five show a disagreement. "One kind, chosen at the start": where
several structures offer one interface, or belong together, one MC module holds them
all, picks one in the initial state and never changes it; the run then explores the
behaviours of each, and its properties have a case for each.

| run | what it explores | distinct states | what it shows |
|---|---|---|---|
| `hash_table` | 4 keys (one with two objects), 4 values, primes 2 and 7 | 63 438 | `WellFormed` and `SizeAndLoad` at every step of an enlargement, `LookupFindsAll`, `Ownership`, `IterationExact`, `ImplementsMap`, `CallReturns` |
| `queue_graph` | the queue with 4 entries and 2 values; traversals, spanning trees, shortest paths and critical paths of graphs of up to 4 vertices | 558 079 | `WellFormed`, `PeekShowsEnds`, `FreeReturns`, `ImplementsDeque`; each vertex met once and all that can be reached, but for a refused push (`TraversalExact`); `SpanningTreeMinimal`, `ShortestPaths`, `CriticalPath` against their definitions |
| `lists` | both lists, the array list, both stacks; 4 entries, 3 values of 2 ranks | 16 942 up to symmetry | the links (`ListsWellFormed`), no unwritten slot and the sort's ranges (`WellFormed` of the array), the iteration, `ImplementsList`, `ListsImplementList`, `StacksImplementStack` |
| `sets` | 3 sets, 4 values of 3 classes; 3 Bloom filters, 3 values, 2 hash functions | 291 471 up to symmetry | chains, counts and load at every turn (`WellFormed`), `Ownership`, `IterationExact`, `ImplementsSets`; `FiltersNeverForget` |
| `trees` | AVL: 6 keys, 7 nodes; red-black: 7 keys, 8 nodes; binary and search tree: 5 nodes; trie: 5 keys, prefixes of one another, 5 nodes | 74 223 | the pointers (`TreesWellFormed`), balance, colors and counts (`TreesBalanced`) at every step, lookups, and the contents over any history (`TreesKeepContents`) |
| `heaps` | binary: 6 values; binomial: 4 values in any mix, 7 filled and emptied | 207 613 | shape and order of the array, around the value on its way (`WellFormed`); shape, order and reference counts of the trees (`TreesWellFormed`); the priority queue (`ImplementsQueue`, `TreesImplementQueue`) |
| `power` | both matrices, 2 x 2 and 3 x 2; islands of 3 and 4 buses numbered again; every program on islands of 2 and 3 buses | 32 367 | sorted lists that agree, the numbering (`PowerWellFormed`); matrices that are the derivatives of the constraints, `recover` (`PowerAnswersTrue`); sizes as declared (`PowerDeclaredAnswered`); `PowerMatrixImplemented` |
| `list_freed_current` | as `lists`, and the caller frees the current entry | | finding 1 |
| `list_sort_order` | as `lists` | | finding 2 |
| `rb_tree_key_order` | as `trees`, keys unrelated to values | | finding 3 |
| `stack_empty_reads` | a `seqstack`, and the caller pops and reads it when empty | | finding 4 |
| `graph_kruskal` | connected graphs with distinct weights | | finding 5 |

### The bounds, and why they are enough

* *Hash table.* Primes 2 and 7 make the second enlargement go past the last prime
  (`prime_index` beyond the list, size `entries * 10`) with four keys. Three of the
  keys share a chain at size 2, and two at sizes 2 and 7, so chains of three are
  moved, split and searched, and a removal in the middle of a chain happens. The
  two objects of key 1 tell an overwritten key from the one kept.
* *Queue.* Four entries: an entry can have two neighbours that each have another.
* *Graph.* Four vertices: a vertex is reached over two ways of different lengths, a
  graph has three pieces, a path is replaced twice, and Floyd's loop needs an
  intermediate vertex on either side of another. Edges are added in one order, which
  the algorithms cannot tell from the others but for the order of the neighbours, and
  that the numbering of the vertices gives; a traversal has up to three edges, the
  weighted graphs up to five, of distinct powers of two, so that different paths have
  different costs. One push is refused (`MaxRefused`), at any point.
* *Lists.* Four entries make both sublists of a sort need sorting; two values of one
  rank tell a sort or `remove_data` that loses equal values.
* *Array list and stacks.* A block of one or two slots grows to four, so it is
  enlarged twice and is full at four; a sort of four values has lists of every
  length from none to three on either side of a pivot. A width of 16 wraps the index
  of an empty stack's top and no other.
* *Sets.* With one prime, 5, the third value takes a set past the end of the list, to
  20 chains; all three classes share a chain at 5, two of them at 20, so chains are
  split in an enlargement and searched. The caller inserts while its sets hold fewer
  than three values together (`MaxStored`), and changes none while all three
  pointers are in use (`SparePointer`): a union or intersection has then any two
  operands with up to three values between them, or one set twice, and what it makes
  is read, iterated and freed.
* *Bloom filters.* Ten bits need two bytes, the second not full. The bits of one value
  are covered by two others, two functions disagree on every value, and some
  parameters ask for more functions than there are salts.
* *Trie.* The keys are the empty key, a chain of three prefixes, a fork, and a key
  with a NUL, which only the binary functions take; a node has two links instead of
  256. The rollback happens at every depth.
* *AVL tree.* With seven nodes there is a node of height 4 whose removal takes a
  replacement that is neither its child nor a leaf, and every rotation occurs after
  an insertion and after a removal. One key is in the tree twice. `AddressByEntry`
  lets `malloc` return the address named after the entry: the code compares an
  address only with addresses in the tree, so the renaming loses nothing.
* *Binary and search tree.* Five nodes: a subtree with two children is removed from
  between two others. Equal keys are inserted.
* *Red-black tree.* The repair first goes up and then rotates with eight nodes.
* *Heaps.* An array of two slots is enlarged twice. In a binomial heap, four values
  give a double carry; a turn that meets three trees needs seven values, and a
  popped order-2 root over roots of order 1 and 0: the kind `filled` reaches it, by
  filling and then emptying. `FirstFree` fixes the address of a new tree, as above.
* *Matrices.* Two columns and two or three rows: a node is put before, between and
  after others on both of its lists, and one of the two sizes is not square. Values 0
  to 2 tell a sum from an overwrite and a zero that was written from no value.
* *Numbering.* A path, a star, a triangle and parallel branches, with numbers in the
  order of the buses and not; `trans` is called up to three times more often than
  `recover` (`MaxTurns`).
* *Power flow.* With three buses the row of a bus in the admittance matrix has
  entries before and after the diagonal, and a pair of buses is not joined; bus
  numbers are the places and are not; a branch is passed over, and two are parallel.
  The state estimations have one measure of each type and all types together, with
  and without a slack bus, the optimal power flows none, some and all controllable
  quantities. Two points (`MaxRound`) are enough for a value to be left over.
* Deadlock is checked, for a caller always has more to call, except in `power`: there
  a solver that has its solution calls no more.

### Fairness

`HashTable!FairSpec`, `Queue!FairSpec` and `GraphsSpec` of `MC_Graph` (the same while
the queue is being freed) add weak fairness to the steps *inside* a
call (`InsertSteps`; `FreeEntry \/ FreeQueue`), nothing else: a sequential program
that has entered a function runs on. No call is required to be made. The two
liveness properties, `CallReturns` and `FreeReturns`, say that the loops end. The
walks of the trie, of the trees and of the heaps are bounded by a key, by the
height or by the number of roots, and their ends are not stated separately.

### Findings

1. `list_freed_current` (a bug in `list.c`, at 473). The comments at 457-459,
   475-476 and 501-502 say that the iterator goes on from its link when the current
   entry has been deleted. The code recognises that by comparing the pointer to the
   deleted entry with what the link holds now. If `malloc` gives that address to an
   entry appended since, the comparison holds and the new entry is skipped.
2. `list_sort_order` (documentation). `list.h:96-97` says a compare function is
   positive if its first value sorts first; the sort, `compare-int.h` and the tests
   take the opposite sign. `slist.h:109-110` says the same of `slist.c`.
3. `rb_tree_key_order` (a bug in `rb-tree.c`, at 360). `rb-tree.h:25-26` says the
   nodes are in the order of their keys, and the lookup follows the keys; the
   insertion compares *values*. The tests insert every key as its own value.

4. `stack_empty_reads` (a bug in `seqstack.c`, at 59). `seqstack.h:82-83, 93-94` says
   that a pop or a peek of an empty stack returns `QUEUE_NULL`. `seqstack_is_empty`
   compares the pointer to the stack with NULL; `seqstack_peek`, which calls it, and
   `seqstack_pop`, which tests nothing, read `data[length - 1]` with a `length` of 0.
   The removal that follows in `pop` is harmless: its index is past the end.

5. `graph_kruskal` (a bug in `graph.c`, at 201). `graph_kruskal_spanning_tree` appends
   to the tree `list_iter_next(&iter)` instead of the edge it has just accepted: the
   next edge of the sorted list, which is then never looked at. `test-graph.c:200`
   expects of it the cost that line 206 expects of Prim's algorithm; on a path of three
   vertices it is the weight of one edge.

Also noticed, without a run: `rb_tree_remove` finds the node, calls an empty
`rb_tree_remove_node` and reports success (`rb-tree.h:176-178` promises non-zero
only for a removed node; `test-rb-tree.c:368` leaves its test out), and
`rb_tree_to_array` returns NULL; `queue.h` declares `queue_push_head` and
`queue_push_tail`, `queue.c` defines `queue_queue_push_head` and
`queue_queue_push_tail`.

In the graph: candidates of Dijkstra's algorithm leave the AVL tree by their cost, so
that one of equal cost may leave in another's place (`graph.c:375`), and its tree
starts from `nodes[0]` whatever the start vertex is; an edge from a vertex to itself
upsets it and Floyd's algorithm; Prim's algorithm adds an edge twice on a graph that is
not connected; the critical path raises a time (481) after the vertex may have passed
the old one on; `graph_floyd` leaks at 288; allocations are not tested, those of the
traversals' queue excepted, whose failed pushes are ignored. `bs-tree.c` does not
compile: it calls `bs_tree_find_min`, which is defined nowhere; its removals also take
the left link of the parent for the one to cut, and count nothing out.

In `src/src/pscpu`: `MapSparseMatrix::getValue` reads under `m * i + j` what was written
under `n * i + j`; `SparseMatrix::add` overwrites; `IpoptSE` counts a row for
`isSlackBusVoltageFixed` that it writes only when there is also a `slackBusCol`; an
angle measured in rectangular coordinates has a value and no derivatives
(`Jacobian.cpp:63`); a bus of an unknown type leaves two measures of `PFUtil` unfilled; a
bus that no branch joins gets the cell of its own angle from the sum alone, which then
grows from point to point (`Jacobian.cpp:279`); `doPF`, `doOPF` and `doSE` delete a Jacobian
that was never made when Ipopt does not start; the `Jacobian` object
that `NewtonPF::getJocobian` makes is never deleted; nothing in the repository calls the
current injection half of `Jacobian`, `cal2` or `MapSparseMatrix`.

## The proofs

The theorems hold for every value of the constants that satisfies the modules'
named assumptions: any finite set of keys, any hash function that respects
equality, any list of primes that grows by at least three; any addresses and
values of a queue or of a list; graphs, matrices and islands of any size.

**Hash table** (`HashTable_proofs`). `TypeCorrect` is `Spec => []TypeOK`.
`TableCorrect` is `Spec => []WellFormed`: placement, distinctness, and the count.
None of them is inductive. The inductive invariant `IInv` adds, for the middle of
an enlargement, that the old table's entries hang where the *old* size puts them,
that the old chains before `i` are empty, that no key is in both tables
(`TwoTables`), and which variables are in use at which `pc` (`Control`). Without it
the entry that `MoveEntry` relinks might meet an equal one in the new table, and
the count, which is over both tables, might change. `LookupTheorem` follows from it
by the lemma that a walk down the chain of a key's index finds the key.
`LoadTheorem` is `Spec => []SizeAndLoad`: its invariant `LoadInv` adds that an
insertion under way has room for its entry, which rests on the size doubling past
the count (`EnlargedIsLarger`), with the primes' assumption below the end of the
list and with `entries * 10` beyond it.

Three more theorems look at the table as the set of its entries. The lemmas
`PushMember`, `CutMember` and `ReplaceMember` say what a change of one chain does to
that set, so that every step either leaves it alone (all the steps of an enlargement
do), adds or removes one entry, or puts one in the place of the one with its key.
`OwnershipTheorem` (`Ownership`) adds that no two entries share a value object and
that the objects of an insertion under way are not in the table (`OwnInv`); it rests
on `ObjectsAssumption`, that no object is both a key and a value, and counts the
objects by a bijection from the keys. `HashTableRefinesMap` (`ImplementsMap`) reads
the set as a function, `BindingsOf`, and shows each change of it to be a put, a
removal or the destruction. `IterationTheorem` (`IterationExact`) states where the
iterator is (`NextAt`): the keys it has returned are exactly those of the entries
before its own, chain by chain; cutting another entry out of its chain moves its
position up by one or not at all (`CutNext`), and the chains it passes over are empty
(`NextChainFirst`).

**Queue** (in `Graph_proofs`). `QueueCorrect` is `Spec => [](TypeOK /\ WellFormed)`:
the pointers of the allocated entries, followed from either end, form one order.
Its invariant is `WellFormed` with the type and the fact that nothing is allocated
while there is no queue; the lemmas say, for each of the four ways in which an
entry comes or goes, which order witnesses the new links. `PeeksCorrect` and
`QueueRefinesDeque` rest on a lemma that the order is unique, so that `Contents`,
which chooses one, is determined: each step is then shown to be the operation of
the deque, or to stutter, on the sequence it determines.

**Array list** (in `Lists_proofs`). `ArrayCorrect` is
`Spec => [](TypeOK /\ WellFormed)`: at every step, those inside a sort included, no
slot below the length is unwritten, the ranges still to be sorted lie in the array
one after the other, the range being parted holds values less than the pivot and
then values that are not, and two values out of order are always in one such range.
The invariant adds only that the block stays within its bound and that only an
existing array is sorted. The heart is the step that ends a parting: the values the
pivot separates are in order, so a pair out of order is within list 1 or within
list 2. `SortTheorem`, that a sort leaves no value after a greater one, follows:
when no range is left, no pair is out of order. `ArrayRefinesList` (`ImplementsList`)
says that each call is one operation on a sequence: the loops that `memmove` stands for
move every value once (the lemmas give the sequence after an insertion and after a
removal of a range, whatever lies past the length), and a sort under way keeps
`Permutes(Stored, unsorted)` (`KeepsValues`), since exchanging two slots keeps the
number of slots that hold a value (a bijection of the slots shows it).
`SeqStackRefinesStack` reads the same lemmas at the end of the array: what is pushed is
popped, as long as no empty stack is read (`ReadsEmpty = FALSE`; finding 4 is what
happens otherwise); `StackCorrect` needs no such hypothesis. The theorems assume
`Parameters`, which the run checks of its instance: the ranks are integers and the
width of the index is more than twice the largest block.

**Linked lists and `lstack`** (`Lists_proofs`). The theorems are about the specification
of the run, which holds both lists, the array list and both stacks. `ListsAreWellFormed`
(`ListsWellFormed`), `ListsRefineList` (`ListsImplementList`), `ListsIterateExactly`
(`ListsIterationExact`) and `StacksAreStacks` (`StacksImplementStack`) rest on four
layers:

* *The order.* The links of the allocated entries are those of one sequence of all of
  them (`DOK`, `SOK`; in the doubly linked list both links of an entry are read off its
  place). There is only one such sequence, so that `Contents`, which chooses it, is
  determined, and for each call a lemma names the sequence after it. The invariant
  `ListsInv` adds that an active iterator holds the caller's list pointer or the link of
  an allocated entry (`Anchored`), without which a removal through it could cut
  anything, and has the invariant of the array list beside it.
* *The removals.* The loop of `remove_data` is followed turn by turn (`SweepTurns`): the
  entries it has passed over and kept, in their order, and those it has not reached are
  together the list; the count is that of the entries that went.
* *The sort.* A call on a list of entries promises (`SortsD`, `SortsS`) to return a list
  of the same entries with ascending ranks and its last entry, through which the results
  are joined around the pivot, to free nothing and to leave the links of every other entry
  alone: the second recursive call then spoils nothing of what the first returned. That
  calls nested as deep as the list is long keep the promise is an induction over the
  nesting. It is deep enough, because a call leaves its pivot out of the two lists it
  sorts.
* *The iterations.* The iterator's link leads out of the first `j` entries, and the first
  `m` entries have been returned, `m` being `j`, or `j + 1` while there is a current
  entry (`At`). Appending leaves `j` and `m`, removing an entry further up or further down
  shifts them, and removing the current one brings `m` back to `j` (`IterInv`).

`ListsIterateExactly` has the hypothesis that the caller leaves the current entry to the
iterator (`DropsCurrent = FALSE`): finding 1 is what happens otherwise. `StacksAreStacks`
has `ReadsEmpty = FALSE`, as `SeqStackRefinesStack` (finding 4); a stack of `lstack.c`
is its list read backwards. The other two hold without them. The assumptions
(`ListAssumption`, `ArrayAssumption`, `KindsAssumption`: addresses that are no `NULL` and
no `ROOT`, ranks that are integers, kinds that the run has) are checked by the run.

**Set** (`Set_proofs`). `SetsCorrect`, `SetsOwn`, `SetsIterate` and `SetsRefine` state
`WellFormed`, `Ownership`, `IterationExact` and `ImplementsSets`, for any number of
sets. One invariant, `IInv`, carries the first three. Its part `Tables` is that of the
hash table, for each set with the old table of the one that is being enlarged. `Jobs`
says what a union or an intersection may rely on while it runs: that its new set is
neither of its operands, owns nothing, and that its iterator is on the operand whose
turn it is. `Progress` relates the loops to their results: the classes in the new set,
with the one that is on its way in, are those of the values the iterator has returned
(and, in the second loop of a union, of all of the first operand; in an intersection,
those that are also in the second). At the end of the loops the iterator has returned
every value (`At`, as `NextAt` of the hash table), so that the new set is the union or
the intersection, and an insertion that fails in a loop frees a set that owns nothing.

**Bloom filter** (`FiltersCorrect` in `BloomFilter`). A filter answers yes for every
value it must know, and a bit is set only for such a value unless an intersection had a
part in it. The invariant says so also of the array that a filter is read into and
loaded from, and that tables made with the same arguments have the same bytes, of which
the last has only the bits below `table_size`: a byte is the union of the bits its
values have in it, and a union or intersection of two filters is taken byte by byte.
`SetsNeverForget` (in `Set_proofs`) states it as the run does, of the specification that
has the sets beside the filters.

**Binary heap** (`BinaryHeap_proofs`). `HeapCorrect` (`WellFormed`) says at every turn
of the two loops that no slot outside the block is written and that only the value on
its way is out of order: on its way up with its parent, on its way down with its
children. That is not inductive, for moving a value of the path up or down puts it
beside new neighbours: `Passed` adds that the values below the hole do not come before
the one above it. `HeapRefinesQueue` (`ImplementsQueue`) maps the slots, with the value
on its way in the hole, to a bag: a turn exchanges the contents of two slots and keeps
the bag, and the value in slot 0 comes before every other by following parents (a least
slot that it did not come before would have a smaller one above it).

**Graph** (`Graph_proofs`, over the theorems of the queue). `TraversalsExact` is `GraphSpec =>
[]TraversalExact`: in every graph, from every start and whichever pushes fail, a
traversal calls back once for every vertex but those it marked and then lost, and when
it lost none the vertices with one number are those reached from the root of that number
and not met before, breadth first in the order of their distance. `GraphTyped` says of
the lists of edges, through all calls that build a graph, how often each edge is in each.
The only assumption, `GraphAssumption`, is that a vertex can be pushed. The argument has
three layers:

* *The word.* The vertices called back for, followed by those in the queue, make a
  sequence without repetition (`Word`, `Distinct`) that falls into pieces, one a root.
  `Pieces` says that what was met before the current piece is closed under the arcs, and
  that every vertex of the piece but its root has an arc from an earlier one (`Grown`).
  `Covered` (breadth first) and `Explored` (depth first) say that an arc out of the piece
  leads to a vertex of the word, unless it is over an edge that a frame has still to look
  at (`Pending`). So when nothing is left to look at, the word is closed, and
  `PieceIsReached` concludes: the vertex at place `i` of the piece is reached in at most
  `i - 1` steps, and what is reached does not leave the word. Depth first, the edge looked
  at is out of an outer call's vertex, which is why the invariant also has the running
  calls' vertices (`Active`) in the current piece.
* *The levels.* Breadth first each vertex of the piece has a level, one more than that of
  the vertex that queued it; levels ascend along the word and those in the queue are on
  the level of the vertex being looked at or one below (`Levels`). Then no arc goes down
  by more than one level, and `LevelIsDistance` shows the level to be the distance. The
  levels are not in the program: the invariant says that there are some.
* *The marks.* `BfsMarks` and `DfsMarks` say what a mark means: 2 is called back for, 1 is
  queued or lost. A root is queued without a mark; it cannot be queued twice because it is
  then alone in the queue and no edge is looked at before it is taken. The invariant of
  the word holds only while no push has failed, that of the marks always.

`GInv` puts these together at each point of a call, with the invariant of the queue, of
which the proof uses that `Contents` loses its first value at a pop and gains a last one
at a push. For `critical_path_method` it says only that the vertices queued and the
current one are vertices of the graph, and that there is a current one to turn back at.

**Map matrix** (`MapSparseMatrix`). The matrix keeps a value under the number
`n * i + j` of its place, `n` to a row. `OneNumber` shows that a number determines
its row and column (of two rows, the later begins at least a row's length after the
other), and `NumberThenPlace` and `PlaceThenNumber` that reading the place off a
number undoes the numbering. The invariant `IInv` is the types, that no key lies
past the last place, and that `unzeroNum` is the number of keys. `MapCorrect` (the
count is that of the places holding a value), `SquareCorrect` (a square matrix
answers what was written) and `MapRefinesMatrix` (each step is one of
`AbstractMatrix`) follow. They assume `Parameters`: sizes are pairs of naturals and
the values integers with zero among them; the run `power` checks this of its
instance. `SquareCorrect` does not extend to other shapes, because the code reads
under another number there (see the end of the findings).

**Sparse matrix** (`Power_proofs`). `SparseWellLinked` is `SM!Spec => [](SM!TypeOK /\
SM!WellLinked)`, for a matrix of any size: every node is on the list of its row and on
that of its column, once, and both are sorted. The invariant is a local one, `Linked`: on
each line, with its head, `next` of a node is the node with the next greater key (a column
on a row, a row on a column), and of the last one the head (`IsRing`). Three layers take it
to the operators of the model:

* *What the loops find.* `BeforeStops`: the walk of `setValue` along a ring ends at the last
  node before the place of a position. The function that walks is recursive; that it is
  defined all along the ring is an argument by well-founded recursion on the places left.
* *What a new node does.* `LinkedIn`: linked behind that node, it is in order on the line,
  and the other lines are not touched. The row and the column are two walks with two
  results; that the node found on the row has the position itself exactly when the column
  has it too follows from both lines being made of the same nodes.
* *What a list is.* `LineIs`: the list read from the head holds every node of the line once
  and in order. So `freeSpace`, which goes along the rows, loses nothing (`NothingLost`) and
  `makeZero` reaches every value.

`SparseRefinesMatrix` then shows each call to be one of `AbstractMatrix`: `setValue` changes
one cell (`PutIs`), and the loop of `add` writes the other matrix's cells one after the other
without meeting one twice (`AddIs`). `MatricesAreMatrices` states it of both classes as the
run does (`PowerMatrixImplemented`).

**Bus numbering** (`Power_proofs`). The part "numbering" of `PowerWellFormed`, and
`NumbersAreRecovered`, for an island with any buses and branches. The steps are:

* *The neighbours.* `NeighboursAre`: the loop over the branches ends with a list of
  neighbours for each number that was read, because every bus is on a branch.
* *The order.* `SelectIs`: a turn of `quickSort` exchanges two members of the order, and
  after it one more is in its place; so (`SortedIs`) the last turn leaves every number
  once, by degree. `MapsNumber`: the maps `tinney1` makes of it undo one another.
* *The calls.* `trans` and `recover` may be called in any order, and nothing stops a
  caller from doing so when the numbers are already new ones. The invariant `BusInv`
  therefore says where the numbers came from: those of the buses are those that were read,
  renumbered by `old2new` as often as `trans` was called more often than `recover`, or by
  `new2old` as often as the other way around (`Turned`); the branches end at the numbers
  of their buses. A turn of one adds to a chain of such renumberings (`RenumberedAgain`)
  and a turn of the other takes its last one away (`RenumberedBack`), which is where the
  maps must undo one another. `tinney1` called again in between makes the same maps, since
  the neighbours are collected once (`FormedIs`). With a chain of none, the numbers are
  those that were read.

**Power flow** (`Power_proofs`). `PowersAreWellFormed` is `PowerSpec =>
[]PowerWellFormed`, with the two matrices and the numbering as above. Of a program it says
that the measures filled in are measures, whatever the types of the buses (`PolarIn`,
`RectIn`, `OPFIn`, `CIIn`), that the initial state is filled in below its length also where
residuals follow it (`SEInitialInv`), and that no cell of the Jacobian comes from an
evaluation that was not made. `FlowInv` adds that the numbers of the buses go up to their
count, which is what keeps an entry by bus number inside the state (`PartsIn`).

The assumption of all these, `PowerAssumption`, is that sizes are pairs of naturals and
values integers with zero among them; that an island to be renumbered has different numbers,
at least one branch, every bus on a branch and no branch with both ends at one bus; and that
a problem has a driver, measures, and an island with the numbers from 1 to their count.

**Only model-checked**: liveness under fairness; the binomial heap, whose `Unref` is a
RECURSIVE operator that the prover does not take; the trie and the trees; the spanning trees,
shortest paths and critical path of the graph, which are sums and minima over sets of
paths; that the sizes a power flow program declares are those it answers with and its
matrices the derivatives (`PowerDeclaredAnswered`, `PowerAnswersTrue`); and what the formed
arrays of a `SparseMatrix` say (`AnswersAgree`). What a recursive function computes is not
proved by induction with the library's theorems, which take an operator; where it was needed (`LeastExists` of the
queue, the balls of `Within`, the root of the binary heap, the nesting of a sort) the
argument is by a least counterexample.

## Not modelled

* The numbers of the power flow: admittances, derivatives, bounds, the value and the
  gradient of the objective, and whether an iteration converges. What is checked is
  which quantities go where and when. The solvers (Ipopt, SuperLU) are represented by
  the calls they may make. The modes `SE_MODE_UI` and `OPF_MODE_UI` are unfinished in
  the code (their Jacobians are commented out), and so is `BasicCPF`, whose matrix is
  never given a size.
* The removals of `bs-tree.c`, which does not compile.
* The reading and writing of IEEE files and of measurement files: columns of text, no
  state that two operations share.
* The hash and compare functions, which are constants here; the tests.

## Plan

What would come next, each step with its theorems:

1. The entries of an ordered tree as an order of the allocated nodes, as for the lists.
2. The binomial heap, with `Unref` as the recursive function that the sort of the lists is.
3. Floyd's matrix: after round `k` a distance is the least over paths through the first
   `k` vertices.
