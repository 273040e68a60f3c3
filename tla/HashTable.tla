----------------------------- MODULE HashTable -----------------------------
(***************************************************************************)
(* The chained hash table of src/src/base/hash-table.c.                    *)
(*                                                                         *)
(* A chain is the sequence of its entries, head first.  hash_table_insert  *)
(* is modelled at the grain of its loops: the call allocates the larger    *)
(* table (hash_table_enlarge), moves one entry per step from the old table *)
(* to the new one, then places the key.  Any calloc or malloc may fail.    *)
(* Every other call is one step.                                           *)
(*                                                                         *)
(* Keys have an identity (KeyObj: the pointer the caller passes) and an    *)
(* equality class (Key: what equal_func and hash_func see), so that the    *)
(* ownership of keys and values, which the free functions hand to the      *)
(* table, can be followed.                                                 *)
(*                                                                         *)
(* An operator X_Suffix next to an operator X is X with a plausible bug;   *)
(* no action uses it.                                                      *)
(***************************************************************************)
EXTENDS Integers, SequencesExt

CONSTANTS
  Key,      \* equivalence classes of equal_func
  KeyObj,   \* key objects a caller can pass
  ValObj,   \* value objects a caller can pass
  ClassOf,  \* the class of a key object
  Hash,     \* hash_func, which must respect equal_func
  Primes,   \* hash_table_primes
  NULL      \* the NULL of the iterator's next_entry

ASSUME KeyAssumption ==
  /\ IsFiniteSet(Key)
  /\ ClassOf \in [KeyObj -> Key]
  /\ Hash \in [Key -> Nat]
  /\ NULL \notin KeyObj

(* An object is passed as a key or as a value, never as both: with both    *)
(* free functions registered it would be freed twice.                      *)
ASSUME ObjectsAssumption == KeyObj \cap ValObj = {}

(* Each prime of the list is about twice the one before it. *)
ASSUME PrimesAssumption ==
  /\ Primes \in Seq(Nat \ {0})
  /\ Len(Primes) > 0
  /\ \A n \in 1 .. Len(Primes) - 1 : Primes[n + 1] >= Primes[n] + 3

Entry == [key : KeyObj, value : ValObj]

VARIABLES
  pc,           \* where the program is: "none" (no table), "idle" (between
                \* calls), "rehash" (in hash_table_enlarge's loop), "place"
  table,        \* table[0 .. table_size - 1], each a chain
  table_size,
  entries,
  prime_index,
  old_table,    \* hash_table_enlarge's old table, empty outside the loop
  old_size,     \* its size, old_table_size
  i,            \* hash_table_enlarge's loop counter
  arg,          \* the key and value of the insertion under way
  result,       \* what the last insertion or removal returned
  free_funcs,   \* whether the two free functions are registered
  live,         \* the objects handed over to the table and not yet freed
  iter          \* the caller's iterator, and the keys it has returned

contents == <<table, table_size, entries, prime_index>>
loop == <<old_table, old_size, i>>
vars == <<pc, contents, loop, arg, result, free_funcs, live, iter>>

-----------------------------------------------------------------------------
EmptyTable(n) == [c \in 0 .. n - 1 |-> <<>>]

Class(e) == ClassOf[e.key]
Index(k, size) == Hash[k] % size

(* The entries of a table, and the objects they point to. *)
StoredIn(t) == UNION {ToSet(t[c]) : c \in DOMAIN t}
Stored == StoredIn(table) \cup StoredIn(old_table)
StoredKeys == {Class(e) : e \in Stored}
StoredObjects == {e.key : e \in Stored} \cup {e.value : e \in Stored}

(* The walk down a chain to an entry equal to k, 0 if there is none; it    *)
(* stops at the first, and Distinct below says that there is no second.    *)
Matches_LastSkipped(chain, k) ==
  {p \in 1 .. Len(chain) - 1 : Class(chain[p]) = k}
Matches(chain, k) == {p \in DOMAIN chain : Class(chain[p]) = k}

Find(chain, k) ==
  IF Matches(chain, k) = {} THEN 0 ELSE CHOOSE p \in Matches(chain, k) : TRUE

(* hash_table_lookup: NULL, or the value of the entry found. *)
Lookup(k) ==
  LET chain == table[Index(k, table_size)]
      p == Find(chain, k)
  IN  IF p = 0 THEN NULL ELSE chain[p].value

(* hash_table_free_entry: what freeing an entry releases, if anything. *)
Release(objects) == IF free_funcs THEN live \ objects ELSE live
Acquire(objs, objects) == IF free_funcs THEN objs \cup objects ELSE objs

NoIterator == [active |-> FALSE, next_entry |-> NULL, next_chain |-> 0,
               returned |-> {}]
NoArg == [key |-> NULL, value |-> NULL]
NoTable == [c \in {} |-> <<>>]

-----------------------------------------------------------------------------
Init ==
  /\ pc = "none"
  /\ table = NoTable
  /\ table_size = 0
  /\ entries = 0
  /\ prime_index = 0
  /\ old_table = NoTable
  /\ old_size = 0
  /\ i = 0
  /\ arg = NoArg
  /\ result = 0
  /\ free_funcs = FALSE
  /\ live = {}
  /\ iter = NoIterator

(* hash_table_allocate_table: the size the table gets. *)
NewTableSize(index) ==
  IF index < Len(Primes) THEN Primes[index + 1] ELSE entries * 10

(* hash_table_new; a failed allocation leaves the caller with no table. *)
New ==
  /\ pc = "none"
  /\ pc' = "idle"
  /\ prime_index' = 0
  /\ entries' = 0
  /\ table_size' = NewTableSize(0)
  /\ table' = EmptyTable(table_size')
  /\ free_funcs' = FALSE
  /\ UNCHANGED <<loop, arg, result, live, iter>>

(* hash_table_register_free_functions, called before the first insertion:  *)
(* from then on the table owns what is inserted.                           *)
RegisterFreeFunctions ==
  /\ pc = "idle"
  /\ entries = 0
  /\ free_funcs' = TRUE
  /\ UNCHANGED <<pc, contents, loop, arg, result, live, iter>>

(* hash_table_free *)
Free ==
  /\ pc = "idle"
  /\ pc' = "none"
  /\ live' = Release(StoredObjects)
  /\ table' = NoTable
  /\ table_size' = 0
  /\ entries' = 0
  /\ prime_index' = 0
  /\ result' = 0
  /\ iter' = NoIterator
  /\ UNCHANGED <<loop, arg, free_funcs>>

-----------------------------------------------------------------------------
TooFull == (entries * 3) \div table_size > 0

(* hash_table_enlarge up to its loop: the new table is allocated ... *)
Enlarge ==
  /\ prime_index' = prime_index + 1
  /\ table_size' = NewTableSize(prime_index + 1)
  /\ table' = EmptyTable(table_size')
  /\ old_table' = table
  /\ old_size' = table_size
  /\ i' = 0
  /\ pc' = "rehash"
  /\ UNCHANGED result

(* ... or calloc fails, the old size and index are put back and the        *)
(* insertion returns 0.                                                    *)
PutBack_IndexKept == prime_index' = prime_index + 1 /\ UNCHANGED table_size
PutBack == UNCHANGED <<prime_index, table_size>>

EnlargeFails ==
  /\ result' = 0
  /\ pc' = "idle"
  /\ PutBack
  /\ UNCHANGED <<table, loop>>

(* hash_table_insert up to the search for the key.  The caller hands over  *)
(* objects the table does not already hold, and gives up its iterator: an  *)
(* enlargement moves the entries under it.                                 *)
Insert(k, v) ==
  /\ pc = "idle"
  /\ {k, v} \cap StoredObjects = {}
  /\ \/ /\ TooFull
        /\ Enlarge
        /\ arg' = [key |-> k, value |-> v]
     \/ /\ TooFull
        /\ EnlargeFails
        /\ arg' = NoArg
     \/ /\ ~TooFull
        /\ pc' = "place"
        /\ arg' = [key |-> k, value |-> v]
        /\ UNCHANGED <<table, table_size, prime_index, loop, result>>
  /\ iter' = NoIterator
  /\ UNCHANGED <<entries, free_funcs, live>>

(* One turn of the inner loop: the head of old chain i becomes the head of *)
(* the chain its hash selects in the new table.  The rest of the old chain *)
(* is saved before the entry is relinked.                                  *)
NewIndex_OldSize(rover) == Index(Class(rover), old_size)
NewIndex(rover) == Index(Class(rover), table_size)

Rest_Relinked(chain) == <<>>    \* mutant: the next entry is not saved
Rest(chain) == Tail(chain)

MoveEntry ==
  /\ pc = "rehash"
  /\ i < old_size
  /\ old_table[i] # <<>>
  /\ LET rover == Head(old_table[i])
     IN  /\ old_table' = [old_table EXCEPT ![i] = Rest(@)]
         /\ table' = [table EXCEPT ![NewIndex(rover)] = <<rover>> \o @]
  /\ UNCHANGED <<pc, table_size, entries, prime_index, old_size, i, arg,
                 result, free_funcs, live, iter>>

(* One turn of the outer loop: old chain i is exhausted. *)
Advance_Forgotten == i' = i
Advance == i' = i + 1

NextOldChain ==
  /\ pc = "rehash"
  /\ i < old_size
  /\ old_table[i] = <<>>
  /\ Advance
  /\ UNCHANGED <<pc, contents, old_table, old_size, arg, result,
                 free_funcs, live, iter>>

(* The loop ends and the old table is freed. *)
EndRehash ==
  /\ pc = "rehash"
  /\ i = old_size
  /\ old_table' = NoTable
  /\ old_size' = 0
  /\ i' = 0
  /\ pc' = "place"
  /\ UNCHANGED <<contents, arg, result, free_funcs, live, iter>>

(* The entry at position p is overwritten: its old value and key are freed *)
(* and both are replaced.                                                  *)
Overwritten_KeyKept(e) == [e EXCEPT !.value = arg.value]
Overwritten(e) == arg

Overwrite(index, p) ==
  /\ table' = [table EXCEPT ![index][p] = Overwritten(@)]
  /\ live' = Acquire(Release({table[index][p].key, table[index][p].value}),
                     {arg.key, arg.value})
  /\ result' = 1
  /\ UNCHANGED entries

(* A new entry becomes the head of its chain. *)
AddEntry(index) ==
  /\ table' = [table EXCEPT ![index] = <<arg>> \o @]
  /\ live' = Acquire(live, {arg.key, arg.value})
  /\ entries' = entries + 1
  /\ result' = 1

(* malloc fails: the table, possibly enlarged, does not take the objects.  *)
AddEntryFails ==
  /\ result' = 0
  /\ UNCHANGED <<table, live, entries>>

(* hash_table_insert from the computation of the index on. *)
Place ==
  /\ pc = "place"
  /\ LET k == ClassOf[arg.key]
         index == Index(k, table_size)
         p == Find(table[index], k)
     IN  \/ p # 0 /\ Overwrite(index, p)
         \/ p = 0 /\ AddEntry(index)
         \/ p = 0 /\ AddEntryFails
  /\ pc' = "idle"
  /\ arg' = NoArg
  /\ UNCHANGED <<table_size, prime_index, loop, free_funcs, iter>>

CountAfterRemove_Always(p) == entries - 1
CountAfterRemove(p) == IF p # 0 THEN entries - 1 ELSE entries

(* hash_table_remove.  While it iterates the caller may remove any key but *)
(* the one its iterator points at.                                         *)
RemoveKey(k) ==
  /\ pc = "idle"
  /\ iter.next_entry # NULL => ClassOf[iter.next_entry] # k
  /\ LET index == Index(k, table_size)
         p == Find(table[index], k)
     IN  /\ entries' = CountAfterRemove(p)
         /\ \/ /\ p # 0
               /\ live' = Release({table[index][p].key, table[index][p].value})
               /\ table' = [table EXCEPT ![index] = RemoveAt(@, p)]
               /\ result' = 1
            \/ /\ p = 0
               /\ result' = 0
               /\ UNCHANGED <<live, table>>
  /\ UNCHANGED <<pc, table_size, prime_index, loop, arg, free_funcs,
                 iter>>

-----------------------------------------------------------------------------
(* The first non-empty chain at or after c, table_size if there is none. *)
NextChain(c) ==
  LET rest == {d \in c .. table_size - 1 : table[d] # <<>>}
  IN  IF rest = {} THEN table_size
      ELSE CHOOSE d \in rest : \A e \in rest : d <= e

FirstOf(c) == IF c < table_size THEN table[c][1].key ELSE NULL

(* hash_table_iterate; next_chain is left unset when the table is empty. *)
Iterate ==
  /\ pc = "idle"
  /\ LET c == NextChain(0)
     IN  iter' = [active |-> TRUE,
                  next_entry |-> FirstOf(c),
                  next_chain |-> IF c < table_size THEN c ELSE 0,
                  returned |-> {}]
  /\ UNCHANGED <<pc, contents, loop, arg, result, free_funcs, live>>

ChainOfNext_Kept(more, c) == iter.next_chain    \* mutant: c not recorded
ChainOfNext(more, c) == IF more THEN iter.next_chain ELSE c

(* hash_table_iter_next, when hash_table_iter_has_more *)
IterNext ==
  /\ pc = "idle"
  /\ iter.next_entry # NULL
  /\ LET chain == table[iter.next_chain]
         k == ClassOf[iter.next_entry]
         p == Find(chain, k)
         more == p < Len(chain)
         c == NextChain(iter.next_chain + 1)
     IN  iter' = [iter EXCEPT
                    !.returned = @ \cup {k},
                    !.next_entry = IF more THEN chain[p + 1].key
                                   ELSE FirstOf(c),
                    !.next_chain = ChainOfNext(more, c)]
  /\ UNCHANGED <<pc, contents, loop, arg, result, free_funcs, live>>

-----------------------------------------------------------------------------
InsertSteps == MoveEntry \/ NextOldChain \/ EndRehash \/ Place

Next ==
  \/ New
  \/ RegisterFreeFunctions
  \/ Free
  \/ \E k \in KeyObj, v \in ValObj : Insert(k, v)
  \/ InsertSteps
  \/ \E k \in Key : RemoveKey(k)
  \/ Iterate
  \/ IterNext

Spec == Init /\ [][Next]_vars

(* A call, once made, runs to its end. *)
FairSpec == Spec /\ WF_vars(InsertSteps)

-----------------------------------------------------------------------------
(* The shape of the state. *)
TypeOK ==
  /\ pc \in {"none", "idle", "rehash", "place"}
  /\ table_size \in Nat
  /\ table \in [0 .. table_size - 1 -> Seq(Entry)]
  /\ entries \in Nat
  /\ prime_index \in Nat
  /\ i \in Nat
  /\ old_size \in Nat
  /\ old_table \in [0 .. old_size - 1 -> Seq(Entry)]
  /\ arg \in Entry \cup {NoArg}
  /\ result \in {0, 1}
  /\ free_funcs \in BOOLEAN
  /\ live \in SUBSET (KeyObj \cup ValObj)
  /\ iter \in [active : BOOLEAN, next_entry : KeyObj \cup {NULL},
               next_chain : Nat, returned : SUBSET Key]

(* Every entry hangs in the chain its hash selects for the size of the     *)
(* table it is in, the half-emptied old table of an enlargement included.  *)
PlacedIn(t, size) ==
  \A c \in DOMAIN t : \A p \in DOMAIN t[c] : Index(Class(t[c][p]), size) = c
Placement == PlacedIn(table, table_size)

(* No two entries of a table are equal: the walk of hash_table_insert      *)
(* meets any equal entry before it adds one.                               *)
DistinctIn(t) ==
  \A c, d \in DOMAIN t : \A p \in DOMAIN t[c], q \in DOMAIN t[d] :
    Class(t[c][p]) = Class(t[d][q]) => c = d /\ p = q
Distinct == DistinctIn(table)

(* hash_table_num_entries is the number of keys stored, counted in both    *)
(* tables while entries move.                                              *)
EntriesIsCount == entries = Cardinality(StoredKeys)

(* The table is well formed at every step, in the middle of an enlargement *)
(* too.                                                                    *)
WellFormed == Placement /\ Distinct /\ EntriesIsCount

(* Between calls a lookup finds every entry, through any history of        *)
(* collisions, enlargements, overwrites, removals and failed allocations.  *)
LookupFindsAll ==
  pc = "idle" =>
    /\ \A e \in Stored : Lookup(Class(e)) = e.value
    /\ \A k \in Key \ StoredKeys : Lookup(k) = NULL

(* The table is never more than one insertion past a third full, however   *)
(* often an enlargement has failed or been followed by a failed malloc.    *)
LoadBound ==
  pc = "idle" /\ entries > 0 => (entries - 1) * 3 < table_size

(* The recorded prime and the size agree, after a failed enlargement too.  *)
SizeMatchesPrime ==
  pc # "none" /\ prime_index < Len(Primes)
    => table_size = Primes[prime_index + 1]

(* Whatever allocations have failed, the table is as large as its entries  *)
(* need and as its index says.                                             *)
SizeAndLoad == LoadBound /\ SizeMatchesPrime

(* With free functions registered the table owns exactly the objects it    *)
(* points at: nothing is leaked, nothing stored has been freed, and no     *)
(* object is in two entries; after hash_table_free it owns nothing.        *)
Ownership ==
  free_funcs /\ pc \in {"none", "idle"} =>
    /\ live = StoredObjects
    /\ Cardinality(live) = 2 * entries

(* An iteration meets every key once: the next entry exists and has not    *)
(* been returned, and when none is left every key still stored has been    *)
(* returned, though the caller removed others as it went.                  *)
IterationExact ==
  iter.active =>
    IF iter.next_entry = NULL
    THEN StoredKeys \subseteq iter.returned
    ELSE /\ ClassOf[iter.next_entry] \notin iter.returned
         /\ iter.next_chain \in DOMAIN table
         /\ \E e \in ToSet(table[iter.next_chain]) : e.key = iter.next_entry

(* A call of hash_table_insert returns: the walk of the old chains ends.   *)
CallReturns == pc \in {"rehash", "place"} ~> pc = "idle"

(* The table is a map, and every call, over all its steps, is one atomic   *)
(* operation on it: the entries in flight between the two tables of an     *)
(* enlargement are never lost, and a refused insertion changes nothing.    *)
Bindings == [k \in StoredKeys |-> (CHOOSE e \in Stored : Class(e) = k).value]
Abstract == INSTANCE AbstractMap WITH
  Value <- ValObj,
  map <- Bindings,
  ok <- result
ImplementsMap == Abstract!Spec

=============================================================================
