-------------------------------- MODULE Set --------------------------------
(***************************************************************************)
(* The sets of src/src/base/set.c, chained hash tables, and the union and  *)
(* the intersection of two of them.                                        *)
(*                                                                         *)
(* A chain is the sequence of its values, head first.  set_insert, and     *)
(* set_union and set_intersection, which call it, are modelled at the      *)
(* grain of their loops: one turn moves a value to the larger table, or    *)
(* takes one from an iterator.  Any calloc or malloc on the way may fail.  *)
(* Every other call is one step.                                           *)
(*                                                                         *)
(* Values have an identity and a class, which is what hash_func and        *)
(* equal_func, the same for all sets, see of them.                         *)
(*                                                                         *)
(* An operator X_Suffix next to an operator X is X with a plausible bug;   *)
(* no action uses it.                                                      *)
(***************************************************************************)
EXTENDS Integers, SequencesExt

CONSTANTS
  Name,     \* the pointers in which the caller keeps its sets
  Value,    \* the values a caller can pass
  ClassOf,  \* the class of a value
  Hash,     \* the hash of a class
  Primes,   \* set_primes
  NULL,
  MaxStored \* bound: the caller inserts no more when its sets hold as many

ASSUME SetAssumption ==
  /\ IsFiniteSet(Value)
  /\ DOMAIN ClassOf = Value
  /\ \A v \in Value : Hash[ClassOf[v]] \in Nat
  /\ NULL \notin Name \cup Value \cup {0, 1}
  /\ \A classes \in SUBSET {ClassOf[v] : v \in Value} : classes # NULL
  /\ Primes \in Seq(Nat \ {0})
  /\ Len(Primes) > 0

VARIABLES
  sets,      \* the set each pointer stands for, NoSet or a record of its fields
  iter,      \* the iterator in use, the caller's or that of a union, and
             \* the values still in the set that it has returned
  job,       \* the union or intersection under way: its operands, its target,
             \* and whether the loop over the first or the second is running
  pc,        \* where an insertion is: "idle" if there is none, "enlarge",
             \* "rehash" (in set_enlarge's loop) or "place"
  target,    \* the set it inserts into
  data,      \* the value it inserts
  old,       \* set_enlarge's old_table and old_table_size
  live,      \* the values handed over to an owning set and not yet freed
  result,    \* what the last call returned, 1 if it was a set or nothing
  memory     \* whether it got all the memory it asked for

insertion == <<pc, target, data, old>>
outcome == <<result, memory>>
vars == <<sets, iter, job, insertion, live, outcome>>

EmptyTable(size) == [c \in 0 .. size - 1 |-> <<>>]
NoTable == [table |-> EmptyTable(0), table_size |-> 0]
NoSet == [table |-> EmptyTable(0), table_size |-> 0, entries |-> 0,
          prime_index |-> 0, free_func |-> FALSE]
NoIterator == [set |-> NULL, next_entry |-> NULL, next_chain |-> 0,
               returned |-> {}]
NoJob == [op |-> "none", loop |-> 0, set1 |-> NULL, set2 |-> NULL,
          new_set |-> NULL]

-----------------------------------------------------------------------------
Index(v, size) == Hash[ClassOf[v]] % size
Chain(set, v) == set.table[Index(v, set.table_size)]

(* The values of a table, and those of the set of a pointer, some of which *)
(* are still in the old table while it is enlarged.                        *)
StoredIn(table) == UNION {ToSet(table[c]) : c \in DOMAIN table}
Stored(s) ==
  StoredIn(sets[s].table) \cup IF s = target THEN StoredIn(old.table) ELSE {}
Classes(s) == {ClassOf[v] : v \in Stored(s)}

(* equal_func of v along a chain *)
Matches(chain, v) == {p \in DOMAIN chain : ClassOf[chain[p]] = ClassOf[v]}

(* set_query *)
Query(set, v) == Matches(Chain(set, v), v) # {}

(* set_allocate_table: the size the table gets. *)
NewTableSize(index, entries) ==
  IF index < Len(Primes) THEN Primes[index + 1] ELSE entries * 10

(* set_new *)
NewSet == [NoSet EXCEPT !.table_size = NewTableSize(0, 0),
                        !.table = EmptyTable(NewTableSize(0, 0))]

TooFull(set) == (set.entries * 3) \div set.table_size > 0

(* A set with the new table of an enlargement, with a value as the head of *)
(* its chain, and with an entry more.                                      *)
Enlarged(set) ==
  LET size == NewTableSize(set.prime_index + 1, set.entries)
  IN  [set EXCEPT !.prime_index = @ + 1, !.table_size = size,
                  !.table = EmptyTable(size)]
Hooked(set, v) ==
  [set EXCEPT !.table[Index(v, set.table_size)] = <<v>> \o @]
WithEntry(set, v) == [Hooked(set, v) EXCEPT !.entries = @ + 1]

(* set_free_entry of each of some values. *)
Release_Always(set, values) == live \ values     \* mutant: no test for NULL
Release(set, values) == IF set.free_func THEN live \ values ELSE live

-----------------------------------------------------------------------------
(* The first chain at or after c that has a value, table_size if none has, *)
(* of a set or of its old table.                                           *)
NextChain(set, c) ==
  LET rest == {d \in c .. set.table_size - 1 : set.table[d] # <<>>}
  IN  IF rest = {} THEN set.table_size
      ELSE CHOOSE d \in rest : \A e \in rest : d <= e

FirstOf(set, c) == IF c < set.table_size THEN set.table[c][1] ELSE NULL

(* set_iterate *)
IteratorOf(s) ==
  LET c == NextChain(sets[s], 0)
  IN  [set |-> s, next_entry |-> FirstOf(sets[s], c), next_chain |-> c,
       returned |-> {}]

(* set_iter_next: the iterator after it has returned its next_entry. *)
SearchFrom_SameChain(it) == it.next_chain   \* mutant: + 1 is lost
SearchFrom(it) == it.next_chain + 1

Advanced(it) ==
  LET set == sets[it.set]
      chain == set.table[it.next_chain]
      p == CHOOSE q \in DOMAIN chain : chain[q] = it.next_entry
      c == NextChain(set, SearchFrom(it))
      passed == [it EXCEPT !.returned = @ \cup {it.next_entry}]
  IN  IF p < Len(chain) THEN [passed EXCEPT !.next_entry = chain[p + 1]]
      ELSE [passed EXCEPT !.next_entry = FirstOf(set, c), !.next_chain = c]

HasMore == iter.next_entry # NULL

-----------------------------------------------------------------------------
Idle == job = NoJob /\ pc = "idle"
Exists(s) == sets[s].table_size # 0

Init ==
  /\ sets = [s \in Name |-> NoSet]
  /\ iter = NoIterator
  /\ job = NoJob
  /\ pc = "idle"
  /\ target = NULL
  /\ data = NULL
  /\ old = NoTable
  /\ live = {}
  /\ result = 1
  /\ memory = TRUE

Answers(answer, granted) == result' = answer /\ memory' = granted
NoAnswer == Answers(1, TRUE)

New(s) ==
  /\ Idle
  /\ ~Exists(s)
  /\ sets' = [sets EXCEPT ![s] = NewSet]
  /\ Answers(1, TRUE)
  /\ UNCHANGED <<iter, job, insertion, live>>

(* set_register_free_function, before the first insertion.  The caller has *)
(* one set that owns its values at a time, for a value in two such sets    *)
(* would be freed twice.                                                   *)
RegisterFreeFunction(s) ==
  /\ Idle
  /\ Exists(s)
  /\ Stored(s) = {}
  /\ \A t \in Name : ~sets[t].free_func
  /\ sets' = [sets EXCEPT ![s].free_func = TRUE]
  /\ UNCHANGED <<iter, job, insertion, live>>
  /\ NoAnswer

(* set_free.  The caller frees a set that owns its values last. *)
Free(s) ==
  /\ Idle
  /\ Exists(s)
  /\ sets[s].free_func => \A t \in Name \ {s} : Stored(t) \cap Stored(s) = {}
  /\ sets' = [sets EXCEPT ![s] = NoSet]
  /\ live' = Release(sets[s], Stored(s))
  /\ iter' = IF iter.set = s THEN NoIterator ELSE iter
  /\ UNCHANGED <<job, insertion>>
  /\ NoAnswer

-----------------------------------------------------------------------------
(* set_insert up to the enlargement that it may need. *)
SetInsert(s, v) ==
  /\ pc' = IF TooFull(sets[s]) THEN "enlarge" ELSE "place"
  /\ target' = s
  /\ data' = v
  /\ UNCHANGED old

InsertionOver ==
  /\ pc' = "idle"
  /\ target' = NULL
  /\ data' = NULL
  /\ UNCHANGED old

(* Bound: the caller changes no set while all its pointers are in use. *)
SparePointer == \E t \in Name : ~Exists(t)

(* set_insert by the caller, who gives up an iterator of the set: an       *)
(* enlargement moves the values under it.                                  *)
Insert(s, v) ==
  /\ SparePointer
  /\ Idle
  /\ Exists(s)
  /\ MapThenSumSet(LAMBDA t : sets[t].entries, Name) < MaxStored
  /\ SetInsert(s, v)
  /\ iter' = IF iter.set = s THEN NoIterator ELSE iter
  /\ UNCHANGED <<sets, job, live>>
  /\ NoAnswer

(* set_insert returns 0: to the caller, or to a union or an intersection,  *)
(* which then frees the new set and returns NULL.                          *)
Fails(granted) ==
  /\ InsertionOver
  /\ \/ /\ job = NoJob
        /\ Answers(0, granted)
        /\ UNCHANGED <<sets, live, iter, job>>
     \/ /\ job # NoJob
        /\ sets' = [sets EXCEPT ![target] = NoSet]
        /\ live' = Release(sets[target], Stored(target))
        /\ iter' = NoIterator
        /\ job' = NoJob
        /\ Answers(NULL, granted)

(* set_enlarge up to its loop: the new table is allocated ... *)
Enlarge ==
  /\ pc = "enlarge"
  /\ sets' = [sets EXCEPT ![target] = Enlarged(@)]
  /\ old' = [table |-> sets[target].table,
             table_size |-> sets[target].table_size]
  /\ pc' = "rehash"
  /\ UNCHANGED <<iter, job, target, data, live, outcome>>

(* ... or calloc fails, and the set is as it was. *)
EnlargeFails == pc = "enlarge" /\ Fails(FALSE)

(* One turn of the inner loop: the head of the first old chain that is not *)
(* exhausted is hooked into the new table, after the rest of its chain has *)
(* been saved.                                                             *)
Rest_Relinked(chain) == <<>>    \* mutant: the next entry is not saved
Rest(chain) == Tail(chain)

MoveEntry ==
  /\ pc = "rehash"
  /\ LET c == NextChain(old, 0)
     IN  /\ c < old.table_size
         /\ old' = [old EXCEPT !.table[c] = Rest(@)]
         /\ sets' = [sets EXCEPT ![target] = Hooked(@, old.table[c][1])]
  /\ UNCHANGED <<iter, job, pc, target, data, live, outcome>>

(* All chains are exhausted and the old table is freed. *)
EndRehash ==
  /\ pc = "rehash"
  /\ NextChain(old, 0) = old.table_size
  /\ old' = NoTable
  /\ pc' = "place"
  /\ UNCHANGED <<sets, iter, job, target, data, live, outcome>>

(* The rest of set_insert: an equal value is found, in a set that may just *)
(* have been enlarged ...                                                  *)
AlreadyThere ==
  /\ pc = "place"
  /\ Query(sets[target], data)
  /\ Fails(TRUE)

(* ... or malloc fails, or the value is added. *)
AddEntryFails ==
  /\ pc = "place"
  /\ ~Query(sets[target], data)
  /\ Fails(FALSE)

AddEntry ==
  /\ pc = "place"
  /\ ~Query(sets[target], data)
  /\ sets' = [sets EXCEPT ![target] = WithEntry(@, data)]
  /\ live' = IF sets[target].free_func THEN live \cup {data} ELSE live
  /\ InsertionOver
  /\ UNCHANGED <<iter, job>>
  /\ Answers(1, TRUE)

InsertSteps ==
  \/ Enlarge
  \/ EnlargeFails
  \/ MoveEntry
  \/ EndRehash
  \/ AlreadyThere
  \/ AddEntryFails
  \/ AddEntry

-----------------------------------------------------------------------------
(* set_remove.  The caller does not remove the value its iterator stands   *)
(* before, nor one that another set still uses from the set that owns it.  *)
RemoveNothing(s, v) ==
  /\ Idle
  /\ Exists(s)
  /\ ~Query(sets[s], v)
  /\ UNCHANGED <<sets, iter, job, insertion, live>>
  /\ Answers(0, TRUE)

RemoveAtPlace(s, index, p) ==
  /\ <<s, sets[s].table[index][p]>> # <<iter.set, iter.next_entry>>
  /\ sets[s].free_func =>
       \A t \in Name \ {s} : sets[s].table[index][p] \notin Stored(t)
  /\ sets' = [sets EXCEPT ![s].table[index] = RemoveAt(@, p),
                          ![s].entries = @ - 1]
  /\ live' = Release(sets[s], {sets[s].table[index][p]})
  /\ iter' = [iter EXCEPT !.returned =
                IF iter.set = s THEN @ \ {sets[s].table[index][p]} ELSE @]
  /\ UNCHANGED <<job, insertion>>
  /\ Answers(1, TRUE)

RemoveValue(s, v) ==
  /\ SparePointer
  /\ Idle
  /\ Exists(s)
  /\ \E p \in Matches(Chain(sets[s], v), v) :
       RemoveAtPlace(s, Index(v, sets[s].table_size), p)

(* The caller iterates. *)
Iterate(s) ==
  /\ Idle
  /\ Exists(s)
  /\ iter' = IteratorOf(s)
  /\ UNCHANGED <<sets, job, insertion, live>>
  /\ NoAnswer

IterNext ==
  /\ Idle
  /\ HasMore
  /\ iter' = Advanced(iter)
  /\ UNCHANGED <<sets, job, insertion, live>>
  /\ NoAnswer

-----------------------------------------------------------------------------
(* set_union and set_intersection up to their first loops.  Their iterator *)
(* is their own; a caller that iterates begins again after them.           *)
Begin(op, s1, s2, s) ==
  /\ Idle
  /\ Exists(s1) /\ Exists(s2) /\ ~Exists(s)
  /\ sets' = [sets EXCEPT ![s] = NewSet]
  /\ job' = [op |-> op, loop |-> 1, set1 |-> s1, set2 |-> s2, new_set |-> s]
  /\ iter' = IteratorOf(s1)
  /\ UNCHANGED <<insertion, live>>
  /\ NoAnswer

(* set_new fails and there is nothing to return. *)
NewFails ==
  /\ Idle
  /\ Answers(NULL, FALSE)
  /\ UNCHANGED <<sets, iter, job, insertion, live>>

(* Which values a turn inserts: all of the first set of a union, those of  *)
(* the second that are not in the new set yet, those of the first set of   *)
(* an intersection that are in the second.                                 *)
Wanted_NoQuery(v) ==     \* mutant: the second loop does not query the new set
  \/ job.op = "union"
  \/ job.op = "intersection" /\ Query(sets[job.set2], v)
Wanted(v) ==
  \/ job.op = "union" /\ job.loop = 1
  \/ job.op = "union" /\ job.loop = 2 /\ ~Query(sets[job.new_set], v)
  \/ job.op = "intersection" /\ Query(sets[job.set2], v)

Working == job # NoJob /\ pc = "idle"

PassOver ==
  /\ Working
  /\ HasMore
  /\ ~Wanted(iter.next_entry)
  /\ iter' = Advanced(iter)
  /\ UNCHANGED <<sets, job, insertion, live, outcome>>

Copy ==
  /\ Working
  /\ HasMore
  /\ Wanted(iter.next_entry)
  /\ iter' = Advanced(iter)
  /\ SetInsert(job.new_set, iter.next_entry)
  /\ UNCHANGED <<sets, job, live, outcome>>

(* The loop over the first set is over. *)
SecondLoop ==
  /\ Working
  /\ job.op = "union" /\ job.loop = 1
  /\ ~HasMore
  /\ iter' = IteratorOf(job.set2)
  /\ job' = [job EXCEPT !.loop = 2]
  /\ UNCHANGED <<sets, insertion, live, outcome>>

(* The last loop is over and the new set is returned. *)
Return ==
  /\ Working
  /\ job.op = "intersection" \/ job.loop = 2
  /\ ~HasMore
  /\ iter' = NoIterator
  /\ job' = NoJob
  /\ Answers(1, TRUE)
  /\ UNCHANGED <<sets, insertion, live>>

JobSteps == PassOver \/ Copy \/ SecondLoop \/ Return

Next ==
  \/ \E s \in Name : New(s) \/ RegisterFreeFunction(s) \/ Free(s) \/ Iterate(s)
  \/ \E s \in Name, v \in Value :
       Insert(s, v) \/ RemoveValue(s, v) \/ RemoveNothing(s, v)
  \/ IterNext
  \/ \E s1, s2, s \in Name :
       Begin("union", s1, s2, s) \/ Begin("intersection", s1, s2, s)
  \/ NewFails
  \/ InsertSteps
  \/ JobSteps

Spec == Init /\ [][Next]_vars

-----------------------------------------------------------------------------
(* The shape of the state. *)
TypeOK ==
  /\ DOMAIN sets = Name
  /\ \A s \in Name :
       /\ sets[s] \in [table : {sets[s].table}, table_size : Nat, entries : Nat,
                       prime_index : Nat, free_func : BOOLEAN]
       /\ sets[s].table \in [0 .. sets[s].table_size - 1 -> Seq(Value)]
  /\ iter \in [set : Name \cup {NULL}, next_entry : Value \cup {NULL},
               next_chain : Nat, returned : SUBSET Value]
  /\ job \in {NoJob} \cup
       [op : {"union", "intersection"}, loop : {1, 2}, set1 : Name,
        set2 : Name, new_set : Name]
  /\ pc \in {"idle", "enlarge", "rehash", "place"}
  /\ pc = "idle" => target = NULL /\ data = NULL
  /\ pc # "idle" => target \in Name /\ data \in Value
  /\ old \in [table : {old.table}, table_size : Nat]
  /\ old.table \in [0 .. old.table_size - 1 -> Seq(Value)]
  /\ live \in SUBSET Value
  /\ result \in {0, 1, NULL}
  /\ memory \in BOOLEAN

(* In every set, one under construction included, a value hangs in the     *)
(* chain its hash selects and no equal one in the same chain, so nowhere,  *)
(* and the count is that of the values, in both tables while it is         *)
(* enlarged: set_query, which looks in one chain, finds all.               *)
PlacedIn(table, size) ==
  \A c \in DOMAIN table : \A p \in DOMAIN table[c] : Index(table[c][p], size) = c
DistinctIn(table) ==
  \A c \in DOMAIN table : \A p, q \in DOMAIN table[c] :
    ClassOf[table[c][p]] = ClassOf[table[c][q]] => p = q
WellLinked ==
  \A s \in Name :
    /\ PlacedIn(sets[s].table, sets[s].table_size)
    /\ DistinctIn(sets[s].table)
    /\ sets[s].entries = Cardinality(Classes(s))
WellFormed == TypeOK /\ WellLinked

(* The set with a free function owns exactly the values in it: nothing is  *)
(* leaked by an insertion it refuses, and no union or intersection, failed *)
(* or not, and no set made by one, frees a value that it owns.             *)
Owners == {s \in Name : sets[s].free_func}
Ownership == live = UNION {Stored(s) : s \in Owners}

(* An iteration, the caller's and that of a union's loop, meets each value *)
(* once, though the caller removes others as it goes.                      *)
IterationExact ==
  iter.set # NULL =>
    IF HasMore
    THEN /\ iter.next_chain \in DOMAIN sets[iter.set].table
         /\ iter.next_entry \in ToSet(sets[iter.set].table[iter.next_chain])
         /\ iter.next_entry \notin iter.returned
    ELSE Stored(iter.set) \subseteq iter.returned

(* Each call, a union and an intersection over all their turns and their   *)
(* insertions, is one operation on sets of classes; one that fails half    *)
(* way, which it does only for want of memory, leaves no set.              *)
Members(s) == IF Exists(s) /\ s # job.new_set THEN Classes(s) ELSE NULL
Contents == [s \in Name |-> Members(s)]
Sets == INSTANCE AbstractSets WITH
  Value <- {ClassOf[v] : v \in Value},
  Absent <- NULL,
  members <- Contents
ImplementsSets == Sets!Spec
=============================================================================
