---------------------------- MODULE BloomFilter ----------------------------
(***************************************************************************)
(* The Bloom filters of src/src/base/bloom-filter.c: tables of bits packed *)
(* into bytes, their union, their intersection, and the array through      *)
(* which the caller reads one filter and loads another.  A call is one     *)
(* step.                                                                   *)
(*                                                                         *)
(* An operator X_Suffix next to an operator X is X with a plausible bug;   *)
(* no action uses it.                                                      *)
(***************************************************************************)
EXTENDS Integers, FiniteSets, TLAPS

CONSTANTS
  Name,          \* the pointers in which the caller keeps its filters
  Value,
  Params,        \* what bloom_filter_new is called with: records of a
                 \* table_size, a hash_func and a num_functions
  SubHash,       \* SubHash[h][v][i]: h's hash of v, XORed with salt i
  MaxFunctions,  \* the number of salts: 64
  NULL

VARIABLES
  filters,  \* the filter each pointer stands for, NoFilter or its fields:
            \* the table, as the set of bits set in each byte, and params; for
            \* the statement of what a filter promises it also records the
            \* values it must know, and whether it knows no others
  array     \* the filter that bloom_filter_read last copied

vars == <<filters, array>>

NoTable == [n \in {} |-> {}]
NoFilter == [table |-> NoTable, params |-> NULL, known |-> {}, exact |-> FALSE]

-----------------------------------------------------------------------------
(* The size of a table in bytes, rounded up. *)
ArraySize(params) == (params.table_size + 7) \div 8

(* Where a value's bits are. *)
Indexes(params, v) ==
  {SubHash[params.hash_func][v][i] % params.table_size :
     i \in 1 .. params.num_functions}
BitsOf(params, v, n) ==
  {index % 8 : index \in {x \in Indexes(params, v) : x \div 8 = n}}

(* bloom_filter_query *)
Query(filter, v) ==
  \A n \in DOMAIN filter.table :
    BitsOf(filter.params, v, n) \subseteq filter.table[n]

(* bloom_filter_new; NULL for too many functions, and if an allocation     *)
(* fails, which the caller sees as well.                                   *)
NewFilter(params) ==
  [table |-> [n \in 0 .. ArraySize(params) - 1 |-> {}], params |-> params,
   known |-> {}, exact |-> TRUE]
Allowed(params) == params.num_functions <= MaxFunctions

Exists(s) == filters[s].params # NULL

-----------------------------------------------------------------------------
Init ==
  /\ filters = [s \in Name |-> NoFilter]
  /\ array = NoFilter

New(s, params) ==
  /\ ~Exists(s)
  /\ Allowed(params)
  /\ filters' = [filters EXCEPT ![s] = NewFilter(params)]
  /\ UNCHANGED array

(* bloom_filter_free *)
Free(s) ==
  /\ Exists(s)
  /\ filters' = [filters EXCEPT ![s] = NoFilter]
  /\ UNCHANGED array

(* Bound: the caller changes no filter while all its pointers are in use. *)
SparePointer == \E t \in Name : ~Exists(t)

(* bloom_filter_insert *)
Insert(s, v) ==
  /\ SparePointer
  /\ Exists(s)
  /\ filters' = [filters EXCEPT
       ![s].table = [n \in DOMAIN @ |->
                       @[n] \cup BitsOf(filters[s].params, v, n)],
       ![s].known = @ \cup {v}]
  /\ UNCHANGED array

(* bloom_filter_read copies the whole table. *)
Read(s) ==
  /\ SparePointer
  /\ Exists(s)
  /\ array' = filters[s]
  /\ UNCHANGED filters

(* bloom_filter_load copies it back, whatever the filter held, into a      *)
(* filter made with the arguments of the one that was read.                *)
Load(s) ==
  /\ SparePointer
  /\ Exists(s)
  /\ filters[s].params = array.params
  /\ filters' = [filters EXCEPT ![s] = array]
  /\ UNCHANGED array

(* The test at the start of bloom_filter_union and _intersection, which    *)
(* return NULL when it fails.                                              *)
SameParams_AnyHash(f1, f2) ==      \* mutant: the hash functions may differ
  /\ f1.params.table_size = f2.params.table_size
  /\ f1.params.num_functions = f2.params.num_functions
SameParams(f1, f2) ==
  /\ f1.params.table_size = f2.params.table_size
  /\ f1.params.num_functions = f2.params.num_functions
  /\ f1.params.hash_func = f2.params.hash_func

(* bloom_filter_union and bloom_filter_intersection go over all the bytes. *)
Union(s1, s2, s) ==
  LET f1 == filters[s1]
      f2 == filters[s2]
  IN  /\ Exists(s1) /\ Exists(s2) /\ ~Exists(s)
      /\ SameParams(f1, f2)
      /\ filters' = [filters EXCEPT ![s] =
           [table |-> [n \in DOMAIN f1.table |-> f1.table[n] \cup f2.table[n]],
            params |-> f1.params,
            known |-> f1.known \cup f2.known,
            exact |-> f1.exact /\ f2.exact]]
      /\ UNCHANGED array

Intersection(s1, s2, s) ==
  LET f1 == filters[s1]
      f2 == filters[s2]
  IN  /\ Exists(s1) /\ Exists(s2) /\ ~Exists(s)
      /\ SameParams(f1, f2)
      /\ filters' = [filters EXCEPT ![s] =
           [table |-> [n \in DOMAIN f1.table |-> f1.table[n] \cap f2.table[n]],
            params |-> f1.params,
            known |-> f1.known \cap f2.known,
            exact |-> FALSE]]
      /\ UNCHANGED array

Next ==
  \/ \E s \in Name, params \in Params : New(s, params)
  \/ \E s \in Name : Free(s) \/ Read(s) \/ Load(s)
  \/ \E s \in Name, v \in Value : Insert(s, v)
  \/ \E s1, s2, s \in Name : Union(s1, s2, s) \/ Intersection(s1, s2, s)

Spec == Init /\ [][Next]_vars

-----------------------------------------------------------------------------
(* The shape of the state: a table has a byte for every bit it has room    *)
(* for, and no bit past its size is set.                                   *)
TypeOK ==
  \A f \in {filters[s] : s \in Name} \cup {array} :
    /\ f.params \in Params \cup {NULL}
    /\ f.params # NULL =>
         /\ DOMAIN f.table = {i \div 8 : i \in 0 .. f.params.table_size - 1}
         /\ \A n \in DOMAIN f.table : \A bit \in f.table[n] :
              bit \in 0 .. 7 /\ n * 8 + bit < f.params.table_size
    /\ f.known \in SUBSET Value
    /\ f.exact \in BOOLEAN

(* A filter never denies a value inserted into it, into either half of a   *)
(* union or both of an intersection, or into the filter it was loaded      *)
(* from; and short of an intersection no bit is set but for such a value,  *)
(* what it held before a load included.                                    *)
NeverForgets ==
  \A s \in Name : Exists(s) =>
    LET f == filters[s]
    IN  /\ \A v \in f.known : Query(f, v)
        /\ f.exact => \A n \in DOMAIN f.table :
             f.table[n] = UNION {BitsOf(f.params, v, n) : v \in f.known}

-----------------------------------------------------------------------------
(* Proofs.  What is asked of the constants: *)
Parameters ==
  /\ NULL \notin Params
  /\ \A p \in Params :
       /\ p = [table_size |-> p.table_size, hash_func |-> p.hash_func,
               num_functions |-> p.num_functions]
       /\ p.table_size \in Nat \ {0}
       /\ p.num_functions \in Nat
       /\ Allowed(p) =>
            \A v \in Value, i \in 1 .. p.num_functions : SubHash[p.hash_func][v][i] \in Nat

(* All the bits of some values in a byte. *)
AllBits(p, V, n) == UNION {BitsOf(p, v, n) : v \in V}

(* The inductive invariant: what is promised of the filters holds also of  *)
(* the array, which a load makes a filter again, and tables made with the  *)
(* same arguments have the same bytes.                                     *)
Knows(f) ==
  /\ \A v \in f.known : Query(f, v)
  /\ f.exact => \A n \in DOMAIN f.table : f.table[n] = AllBits(f.params, f.known, n)
Room(p, n) == {bit \in 0 .. 7 : n * 8 + bit < p.table_size}
IsTable(t, p) ==
  /\ t = [n \in 0 .. ArraySize(p) - 1 |-> t[n]]
  /\ \A n \in 0 .. ArraySize(p) - 1 : t[n] \subseteq Room(p, n)
Good(f) ==
  /\ f = [table |-> f.table, params |-> f.params, known |-> f.known, exact |-> f.exact]
  /\ f.params \in Params \cup {NULL}
  /\ f.params = NULL => f = NoFilter
  /\ f.params # NULL => Allowed(f.params) /\ IsTable(f.table, f.params)
  /\ f.known \in SUBSET Value
  /\ f.exact \in BOOLEAN
  /\ Knows(f)
IInv ==
  /\ DOMAIN filters = Name
  /\ \A s \in Name : Good(filters[s])
  /\ Good(array)

LEMMA Bytes ==
  ASSUME Parameters, NEW p \in Params
  PROVE  0 .. ArraySize(p) - 1 = {i \div 8 : i \in 0 .. p.table_size - 1}
<1> DEFINE n == p.table_size
<1>1. n \in Nat /\ n > 0
  BY DEF Parameters
<1>2. ArraySize(p) = (n + 7) \div 8
  BY DEF ArraySize
<1> HIDE DEF n
<1>3. ASSUME NEW k \in 0 .. (n + 7) \div 8 - 1
      PROVE  \E i \in 0 .. n - 1 : k = i \div 8
  <2>1. k * 8 \in 0 .. n - 1 /\ (k * 8) \div 8 = k
    BY <1>1
  <2> QED BY <2>1
<1>4. ASSUME NEW i \in 0 .. n - 1 PROVE i \div 8 \in 0 .. (n + 7) \div 8 - 1
  BY <1>1
<1> QED BY <1>2, <1>3, <1>4 DEF n

LEMMA BitsFit ==
  ASSUME Parameters, NEW p \in Params, Allowed(p), NEW v \in Value, NEW n \in Int
  PROVE  BitsOf(p, v, n) \subseteq Room(p, n)
<1> SUFFICES ASSUME NEW bit \in BitsOf(p, v, n) PROVE bit \in Room(p, n)
  OBVIOUS
<1>1. PICK x \in Indexes(p, v) : x \div 8 = n /\ bit = x % 8
  BY DEF BitsOf
<1>2. PICK i \in 1 .. p.num_functions : x = SubHash[p.hash_func][v][i] % p.table_size
  BY <1>1 DEF Indexes
<1>3. p.table_size \in Nat /\ p.table_size > 0 /\ SubHash[p.hash_func][v][i] \in Nat
  BY DEF Parameters
<1>4. x \in 0 .. p.table_size - 1
  BY <1>2, <1>3
<1>5. bit \in 0 .. 7 /\ n * 8 + bit = x
  BY <1>1, <1>4
<1> QED BY <1>3, <1>4, <1>5 DEF Room

LEMMA AllBitsUnion ==
  ASSUME NEW p, NEW n, NEW V, NEW W
  PROVE  AllBits(p, V \cup W, n) = AllBits(p, V, n) \cup AllBits(p, W, n)
<1>1. \A U, x : x \in AllBits(p, U, n) <=> \E w \in U : x \in BitsOf(p, w, n)
  BY DEF AllBits
<1> QED BY <1>1

LEMMA AllBitsWith ==
  ASSUME NEW p, NEW n, NEW V, NEW v
  PROVE  AllBits(p, V \cup {v}, n) = AllBits(p, V, n) \cup BitsOf(p, v, n)
<1>1. \A U, x : x \in AllBits(p, U, n) <=> \E w \in U : x \in BitsOf(p, w, n)
  BY DEF AllBits
<1> QED BY <1>1

(* An insertion, into a filter. *)
Inserted(f, v) ==
  [f EXCEPT !.table = [n \in DOMAIN f.table |-> f.table[n] \cup BitsOf(f.params, v, n)],
            !.known = f.known \cup {v}]

LEMMA NoFilterGood == Good(NoFilter)
<1>1. /\ NoFilter.table = NoTable /\ NoFilter.params = NULL /\ NoFilter.known = {}
      /\ NoFilter.exact = FALSE
  BY DEF NoFilter
<1>2. Knows(NoFilter)
  BY <1>1 DEF Knows
<1> QED BY <1>1, <1>2 DEF Good, NoFilter

LEMMA NewGood ==
  ASSUME Parameters, NEW p \in Params, Allowed(p)
  PROVE  Good(NewFilter(p))
<1> DEFINE f == NewFilter(p)
<1>1. /\ f.table = [n \in 0 .. ArraySize(p) - 1 |-> {}] /\ f.params = p /\ f.known = {}
      /\ f.exact = TRUE
      /\ f = [table |-> f.table, params |-> f.params, known |-> f.known, exact |-> f.exact]
  BY DEF NewFilter
<1> HIDE DEF f
<1>2. IsTable(f.table, p)
  BY <1>1 DEF IsTable
<1>3. \A n \in DOMAIN f.table : f.table[n] = {}
  BY <1>1
<1>4. \A n : AllBits(f.params, f.known, n) = {}
  BY <1>1 DEF AllBits
<1>5. Knows(f)
  BY <1>1, <1>3, <1>4 DEF Knows
<1>6. p # NULL
  BY DEF Parameters
<1> QED BY <1>1, <1>2, <1>5, <1>6 DEF Good, f

LEMMA InsertGood ==
  ASSUME Parameters, NEW f, Good(f), f.params # NULL, NEW v \in Value,
         NEW g, g = Inserted(f, v)
  PROVE  Good(g)
<1> DEFINE p == f.params
           t == [n \in DOMAIN f.table |-> f.table[n] \cup BitsOf(p, v, n)]
<1>1. p \in Params /\ Allowed(p) /\ IsTable(f.table, p) /\ Knows(f) /\ f.known \in SUBSET Value
      /\ f.exact \in BOOLEAN
  BY DEF Good
<1>2. g = [table |-> t, params |-> p, known |-> f.known \cup {v}, exact |-> f.exact]
  <2>1. f = [table |-> f.table, params |-> f.params, known |-> f.known, exact |-> f.exact]
    BY DEF Good
  <2> QED BY <2>1 DEF Inserted
<1>3. DOMAIN f.table = 0 .. ArraySize(p) - 1
  BY <1>1 DEF IsTable
<1>a. \A n \in 0 .. ArraySize(p) - 1 : t[n] = f.table[n] \cup BitsOf(p, v, n)
  BY <1>3
<1>b. t = [n \in 0 .. ArraySize(p) - 1 |-> t[n]]
  BY <1>3
<1> HIDE DEF t, p
<1>4. IsTable(t, p)
  <2>1. p \in Params /\ Allowed(p) /\ \A n \in 0 .. ArraySize(p) - 1 : f.table[n] \subseteq Room(p, n)
    BY <1>1 DEF IsTable
  <2>2. \A n \in 0 .. ArraySize(p) - 1 : n \in Int /\ BitsOf(p, v, n) \subseteq Room(p, n)
    BY <2>1, BitsFit
  <2>3. \A n \in 0 .. ArraySize(p) - 1 : t[n] \subseteq Room(p, n)
    BY <2>1, <2>2, <1>a
  <2> QED BY <2>3, <1>b DEF IsTable
<1>5. g.table = t /\ g.params = p /\ g.known = f.known \cup {v} /\ g.exact = f.exact
  BY <1>2
<1>6. DOMAIN t = 0 .. ArraySize(p) - 1 /\ f.params = p
  BY <1>b DEF p
<1>7. ASSUME NEW w \in g.known PROVE Query(g, w)
  <2>1. CASE w \in f.known
    <3>1. Query(f, w)
      BY <2>1, <1>1 DEF Knows
    <3> QED BY <3>1, <1>3, <1>5, <1>6, <1>a DEF Query
  <2>2. CASE w = v
    BY <2>2, <1>5, <1>6, <1>a DEF Query
  <2> QED BY <1>5, <1>7, <2>1, <2>2
<1>8. ASSUME g.exact, NEW n \in DOMAIN g.table
      PROVE  g.table[n] = AllBits(g.params, g.known, n)
  <2>1. f.table[n] = AllBits(p, f.known, n)
    BY <1>1, <1>3, <1>5, <1>6, <1>8 DEF Knows
  <2>2. g.table[n] = AllBits(p, g.known, n)
    <3>1. AllBits(p, f.known \cup {v}, n) = AllBits(p, f.known, n) \cup BitsOf(p, v, n)
      BY AllBitsWith
    <3>2. g.table[n] = f.table[n] \cup BitsOf(p, v, n)
      BY <1>5, <1>6, <1>8, <1>a
    <3> QED BY <2>1, <3>1, <3>2, <1>5
  <2> QED BY <2>2, <1>5
<1>9. Knows(g)
  BY <1>7, <1>8 DEF Knows
<1>10. g.params # NULL /\ g.params \in Params /\ Allowed(g.params) /\ IsTable(g.table, g.params)
  BY <1>1, <1>4, <1>5 DEF p
<1> QED BY <1>1, <1>2, <1>5, <1>9, <1>10 DEF Good

(* Two filters made with the same arguments. *)
LEMMA Alike ==
  ASSUME Parameters, NEW f, NEW g, Good(f), Good(g), f.params # NULL, g.params # NULL,
         SameParams(f, g)
  PROVE  /\ g.params = f.params /\ f.params \in Params /\ Allowed(f.params)
         /\ DOMAIN f.table = 0 .. ArraySize(f.params) - 1
         /\ DOMAIN g.table = 0 .. ArraySize(f.params) - 1
         /\ \A n \in 0 .. ArraySize(f.params) - 1 :
              f.table[n] \subseteq Room(f.params, n) /\ g.table[n] \subseteq Room(f.params, n)
<1>1. f.params \in Params /\ g.params \in Params
  BY DEF Good
<1>2. g.params = f.params
  BY <1>1 DEF Parameters, SameParams
<1>3. Allowed(f.params) /\ IsTable(f.table, f.params) /\ IsTable(g.table, f.params)
  BY <1>2 DEF Good
<1> QED BY <1>1, <1>2, <1>3 DEF IsTable

LEMMA UnionGood ==
  ASSUME Parameters, NEW f, NEW g, Good(f), Good(g), f.params # NULL, g.params # NULL,
         SameParams(f, g),
         NEW h, h = [table |-> [n \in DOMAIN f.table |-> f.table[n] \cup g.table[n]],
                     params |-> f.params,
                     known |-> f.known \cup g.known,
                     exact |-> f.exact /\ g.exact]
  PROVE  Good(h)
<1> DEFINE p == f.params
           N == 0 .. ArraySize(p) - 1
<1>1. /\ g.params = p /\ p \in Params /\ Allowed(p) /\ DOMAIN f.table = N /\ DOMAIN g.table = N
      /\ \A n \in N : f.table[n] \subseteq Room(p, n) /\ g.table[n] \subseteq Room(p, n)
  BY Alike
<1>2. /\ h.params = p /\ h.known = f.known \cup g.known /\ h.exact = (f.exact /\ g.exact)
      /\ h.table = [n \in N |-> f.table[n] \cup g.table[n]]
      /\ h = [table |-> h.table, params |-> h.params, known |-> h.known, exact |-> h.exact]
  BY <1>1
<1>3. f.params = p
  OBVIOUS
<1>4. /\ Knows(f) /\ Knows(g) /\ f.known \in SUBSET Value /\ g.known \in SUBSET Value
      /\ f.exact \in BOOLEAN /\ g.exact \in BOOLEAN
  BY DEF Good
<1>5. IsTable(h.table, p)
  BY <1>1, <1>2 DEF IsTable
<1> HIDE DEF p, N
<1>6. DOMAIN h.table = N /\ \A n \in N : h.table[n] = f.table[n] \cup g.table[n]
  BY <1>2
<1>7. ASSUME NEW w \in h.known PROVE Query(h, w)
  <2>1. (w \in f.known /\ Query(f, w)) \/ (w \in g.known /\ Query(g, w))
    BY <1>2, <1>4 DEF Knows
  <2> QED BY <2>1, <1>1, <1>2, <1>3, <1>6 DEF Query
<1>8. ASSUME h.exact, NEW n \in DOMAIN h.table
      PROVE  h.table[n] = AllBits(h.params, h.known, n)
  <2>1. f.table[n] = AllBits(p, f.known, n) /\ g.table[n] = AllBits(p, g.known, n)
    BY <1>1, <1>2, <1>3, <1>4, <1>6, <1>8 DEF Knows
  <2>2. h.table[n] = AllBits(p, h.known, n)
    <3>1. AllBits(p, f.known \cup g.known, n) = AllBits(p, f.known, n) \cup AllBits(p, g.known, n)
      BY AllBitsUnion
    <3>2. h.table[n] = f.table[n] \cup g.table[n]
      BY <1>6, <1>8
    <3> QED BY <2>1, <3>1, <3>2, <1>2
  <2> QED BY <2>2, <1>2
<1>9. Knows(h)
  BY <1>7, <1>8 DEF Knows
<1>10. p # NULL /\ h.known \in SUBSET Value /\ h.exact \in BOOLEAN
  BY <1>2, <1>3, <1>4
<1> QED BY <1>1, <1>2, <1>5, <1>9, <1>10 DEF Good

LEMMA IntersectionGood ==
  ASSUME Parameters, NEW f, NEW g, Good(f), Good(g), f.params # NULL, g.params # NULL,
         SameParams(f, g),
         NEW h, h = [table |-> [n \in DOMAIN f.table |-> f.table[n] \cap g.table[n]],
                     params |-> f.params,
                     known |-> f.known \cap g.known,
                     exact |-> FALSE]
  PROVE  Good(h)
<1> DEFINE p == f.params
           N == 0 .. ArraySize(p) - 1
<1>1. /\ g.params = p /\ p \in Params /\ Allowed(p) /\ DOMAIN f.table = N /\ DOMAIN g.table = N
      /\ \A n \in N : f.table[n] \subseteq Room(p, n) /\ g.table[n] \subseteq Room(p, n)
  BY Alike
<1>2. /\ h.params = p /\ h.known = f.known \cap g.known /\ h.exact = FALSE
      /\ h.table = [n \in N |-> f.table[n] \cap g.table[n]]
      /\ h = [table |-> h.table, params |-> h.params, known |-> h.known, exact |-> h.exact]
  BY <1>1
<1>3. f.params = p
  OBVIOUS
<1>4. Knows(f) /\ Knows(g) /\ f.known \in SUBSET Value /\ g.known \in SUBSET Value
  BY DEF Good
<1>5. IsTable(h.table, p)
  BY <1>1, <1>2 DEF IsTable
<1> HIDE DEF p, N
<1>6. DOMAIN h.table = N /\ \A n \in N : h.table[n] = f.table[n] \cap g.table[n]
  BY <1>2
<1>7. ASSUME NEW w \in h.known PROVE Query(h, w)
  <2>1. Query(f, w) /\ Query(g, w)
    BY <1>2, <1>4 DEF Knows
  <2> QED BY <2>1, <1>1, <1>2, <1>3, <1>6 DEF Query
<1>8. Knows(h)
  BY <1>2, <1>7 DEF Knows
<1>9. p # NULL /\ h.known \in SUBSET Value
  BY <1>2, <1>3, <1>4
<1> QED BY <1>1, <1>2, <1>5, <1>8, <1>9 DEF Good

LEMMA InitInv == Init => IInv
BY NoFilterGood DEF Init, IInv

(* A step that gives one pointer another good filter. *)
LEMMA OneFilter ==
  ASSUME IInv, NEW s \in Name, NEW f, Good(f), filters' = [filters EXCEPT ![s] = f],
         array' = array
  PROVE  IInv'
BY DEF IInv

LEMMA NextInv ==
  ASSUME Parameters, IInv, [Next]_vars
  PROVE  IInv'
<1>1. ASSUME NEW s \in Name, NEW p \in Params, New(s, p) PROVE IInv'
  BY <1>1, NewGood, OneFilter DEF New
<1>2. ASSUME NEW s \in Name, Free(s) PROVE IInv'
  BY <1>2, NoFilterGood, OneFilter DEF Free
<1>3. ASSUME NEW s \in Name, Read(s) PROVE IInv'
  BY <1>3 DEF Read, IInv
<1>4. ASSUME NEW s \in Name, Load(s) PROVE IInv'
  <2>1. Good(array)
    BY DEF IInv
  <2> QED BY <1>4, <2>1, OneFilter DEF Load
<1>5. ASSUME NEW s \in Name, NEW v \in Value, Insert(s, v) PROVE IInv'
  <2> DEFINE f == filters[s]
             g == Inserted(f, v)
  <2>1. filters' = [filters EXCEPT ![s] = g] /\ array' = array /\ f.params # NULL
    BY <1>5 DEF Insert, Exists, IInv, Inserted
  <2>2. Good(f)
    BY DEF IInv
  <2>3. Good(g)
    BY <2>1, <2>2, InsertGood
  <2> HIDE DEF g
  <2> QED BY <2>1, <2>3, OneFilter
<1>6. ASSUME NEW s1 \in Name, NEW s2 \in Name, NEW s \in Name, Union(s1, s2, s) PROVE IInv'
  <2> DEFINE f == filters[s1]
             g == filters[s2]
             h == [table |-> [n \in DOMAIN f.table |-> f.table[n] \cup g.table[n]],
                   params |-> f.params, known |-> f.known \cup g.known,
                   exact |-> f.exact /\ g.exact]
  <2>1. /\ filters' = [filters EXCEPT ![s] = h] /\ array' = array
        /\ f.params # NULL /\ g.params # NULL /\ SameParams(f, g)
    BY <1>6 DEF Union, Exists
  <2>2. Good(f) /\ Good(g)
    BY DEF IInv
  <2>3. Good(h)
    BY <2>1, <2>2, UnionGood
  <2> HIDE DEF h
  <2> QED BY <2>1, <2>3, OneFilter
<1>7. ASSUME NEW s1 \in Name, NEW s2 \in Name, NEW s \in Name, Intersection(s1, s2, s)
      PROVE  IInv'
  <2> DEFINE f == filters[s1]
             g == filters[s2]
             h == [table |-> [n \in DOMAIN f.table |-> f.table[n] \cap g.table[n]],
                   params |-> f.params, known |-> f.known \cap g.known, exact |-> FALSE]
  <2>1. /\ filters' = [filters EXCEPT ![s] = h] /\ array' = array
        /\ f.params # NULL /\ g.params # NULL /\ SameParams(f, g)
    BY <1>7 DEF Intersection, Exists
  <2>2. Good(f) /\ Good(g)
    BY DEF IInv
  <2>3. Good(h)
    BY <2>1, <2>2, IntersectionGood
  <2> HIDE DEF h
  <2> QED BY <2>1, <2>3, OneFilter
<1>8. CASE UNCHANGED vars
  BY <1>8 DEF vars, IInv
<1> QED BY <1>1, <1>2, <1>3, <1>4, <1>5, <1>6, <1>7, <1>8 DEF Next

LEMMA InvTypeOK == ASSUME Parameters, IInv PROVE TypeOK
<1> SUFFICES ASSUME NEW f, Good(f)
             PROVE  /\ f.params \in Params \cup {NULL}
                    /\ f.params # NULL =>
                         /\ DOMAIN f.table = {i \div 8 : i \in 0 .. f.params.table_size - 1}
                         /\ \A n \in DOMAIN f.table : \A bit \in f.table[n] :
                              bit \in 0 .. 7 /\ n * 8 + bit < f.params.table_size
                    /\ f.known \in SUBSET Value
                    /\ f.exact \in BOOLEAN
  BY DEF TypeOK, IInv
<1>1. ASSUME f.params # NULL
      PROVE  /\ DOMAIN f.table = 0 .. ArraySize(f.params) - 1
             /\ \A n \in DOMAIN f.table : f.table[n] \subseteq Room(f.params, n)
             /\ f.params \in Params
  BY <1>1 DEF Good, IsTable
<1> QED BY <1>1, Bytes DEF Good, Room

LEMMA InvNeverForgets == ASSUME IInv PROVE NeverForgets
BY DEF IInv, Good, Knows, AllBits, Exists, NeverForgets

(* Whatever the hash functions, the sizes and the order of calls, a filter *)
(* answers yes for every value it must know, and no bit is set but for one *)
(* of them short of an intersection.                                       *)
THEOREM FiltersCorrect ==
  ASSUME Parameters
  PROVE  Spec => [](TypeOK /\ NeverForgets)
<1>1. IInv /\ [Next]_vars => IInv'
  BY NextInv
<1>2. IInv => TypeOK /\ NeverForgets
  BY InvTypeOK, InvNeverForgets
<1> QED BY <1>1, <1>2, InitInv, PTL DEF Spec
=============================================================================
