---------------------------- MODULE Graph_proofs ----------------------------
(***************************************************************************)
(* Proofs about the queue and about the graph that is traversed with it.   *)
(* The queue's entries stay linked both ways between head and tail, none   *)
(* leaked and none dangling, and it implements the abstract deque, for     *)
(* every set of addresses and of values.  What the two traversals call     *)
(* back for is exact, for any graph, any start and any pushes that fail,   *)
(* and every call that builds the graph leaves each edge in the lists it   *)
(* belongs to.                                                             *)
(***************************************************************************)
EXTENDS Graph, FiniteSetTheorems, SequenceTheorems, WellFoundedInduction,
        TLAPS

-----------------------------------------------------------------------------
(* s is the order in which the n entries of heap h are linked. *)
Linked(h, hd, tl, s, n) ==
  /\ IsFiniteSet(DOMAIN h)
  /\ n = Cardinality(DOMAIN h)
  /\ n \in Nat
  /\ s \in [1 .. n -> DOMAIN h]
  /\ Links(h, hd, tl, s)

ValuesOf(h, s, n) == [i \in 1 .. n |-> h[s[i]].data]

-----------------------------------------------------------------------------
(* A set of naturals that has a member has a least one. *)
LEMMA LeastExists ==
  ASSUME NEW S, S \subseteq Nat, S # {}
  PROVE  \E i \in S : \A j \in S : i <= j
<1>1. PICK x \in S : \A y \in SetLessThan(x, OpToRel(<, Nat), Nat) : y \notin S
  BY WFMin, NatLessThanWellFounded DEF SetLessThan
<1>2. \A j \in S : x <= j
  <2> SUFFICES ASSUME NEW j \in S, ~(x <= j) PROVE FALSE
    OBVIOUS
  <2>1. j \in Nat /\ x \in Nat /\ j < x
    OBVIOUS
  <2>2. j \in SetLessThan(x, OpToRel(<, Nat), Nat)
    BY <2>1 DEF SetLessThan, OpToRel
  <2> QED BY <1>1, <2>2
<1> QED BY <1>2

(* The pointers determine the order: two orders would differ at a first    *)
(* position, which head or the next pointer before it decides.             *)
LEMMA OrderUnique ==
  ASSUME NEW h, NEW hd, NEW tl, NEW s, NEW t, NEW n,
         Linked(h, hd, tl, s, n), Linked(h, hd, tl, t, n)
  PROVE  s = t
<1> DEFINE Differ == {i \in 1 .. n : s[i] # t[i]}
<1>1. n \in Nat /\ s \in [1 .. n -> DOMAIN h] /\ t \in [1 .. n -> DOMAIN h]
  BY DEF Linked
<1>2. Differ = {}
  <2> SUFFICES ASSUME Differ # {} PROVE FALSE
    OBVIOUS
  <2>0. Differ \subseteq Nat
    BY <1>1
  <2> HIDE DEF Differ
  <2>1. PICK i \in Differ : \A j \in Differ : i <= j
    BY LeastExists, <2>0
  <2>2. i \in 1 .. n /\ s[i] # t[i]
    BY DEF Differ
  <2>3. CASE i = 1
    <3>1. s[1] = hd /\ t[1] = hd
      BY <1>1, <2>2 DEF Linked, Links
    <3> QED BY <2>2, <2>3, <3>1
  <2>4. CASE i # 1
    <3>1. i - 1 \in 1 .. n /\ i - 1 # n /\ i - 1 < i /\ (i - 1) + 1 = i
      BY <1>1, <2>2, <2>4
    <3>2. s[i - 1] = t[i - 1]
      BY <2>1, <3>1 DEF Differ
    <3>3. h[s[i - 1]].next = s[i] /\ h[t[i - 1]].next = t[i]
      BY <1>1, <3>1 DEF Linked, Links
    <3> QED BY <2>2, <3>2, <3>3
  <2> QED BY <2>3, <2>4
<1> QED BY <1>1, <1>2

(* The order the specification chooses is the one there is. *)
LEMMA ContentsIs ==
  ASSUME NEW h, NEW hd, NEW tl, NEW s, NEW n, Linked(h, hd, tl, s, n)
  PROVE  ContentsOf(h, hd, tl) = ValuesOf(h, s, n)
<1>1. s \in Orders(h) /\ Links(h, hd, tl, s)
  BY DEF Linked, Orders
<1>2. OrderOf(h, hd, tl) \in Orders(h) /\ Links(h, hd, tl, OrderOf(h, hd, tl))
  BY <1>1 DEF OrderOf
<1>3. Linked(h, hd, tl, OrderOf(h, hd, tl), n)
  BY <1>2 DEF Linked, Orders
<1>4. OrderOf(h, hd, tl) = s
  BY <1>3, OrderUnique
<1>5. Cardinality(DOMAIN h) = n
  BY DEF Linked
<1> QED BY <1>4, <1>5 DEF ContentsOf, ValuesOf

-----------------------------------------------------------------------------
(* What an action does to the entries, field by field. *)
SameData(h, g, D) == \A x \in D : g[x].data = h[x].data

(* c is added before the first entry. *)
AddsFirst(h, g, hd, c) ==
  /\ DOMAIN g = DOMAIN h \cup {c}
  /\ g[c].prev = NULL /\ g[c].next = hd
  /\ \A x \in DOMAIN h : g[x].next = h[x].next
  /\ \A x \in DOMAIN h : g[x].prev = IF x = hd THEN c ELSE h[x].prev

(* c is added after the last entry. *)
AddsLast(h, g, tl, c) ==
  /\ DOMAIN g = DOMAIN h \cup {c}
  /\ g[c].next = NULL /\ g[c].prev = tl
  /\ \A x \in DOMAIN h : g[x].prev = h[x].prev
  /\ \A x \in DOMAIN h : g[x].next = IF x = tl THEN c ELSE h[x].next

(* The first entry is taken away. *)
CutsFirst(h, g, hd) ==
  /\ DOMAIN g = DOMAIN h \ {hd}
  /\ \A x \in DOMAIN g : g[x].next = h[x].next
  /\ \A x \in DOMAIN g :
       g[x].prev = IF x = h[hd].next THEN NULL ELSE h[x].prev

(* The last entry is taken away. *)
CutsLast(h, g, tl) ==
  /\ DOMAIN g = DOMAIN h \ {tl}
  /\ \A x \in DOMAIN g : g[x].prev = h[x].prev
  /\ \A x \in DOMAIN g :
       g[x].next = IF x = h[tl].prev THEN NULL ELSE h[x].next

(* The order after each of them. *)
ConsOrder(c, s, n) == [i \in 1 .. n + 1 |-> IF i = 1 THEN c ELSE s[i - 1]]
SnocOrder(c, s, n) == [i \in 1 .. n + 1 |-> IF i = n + 1 THEN c ELSE s[i]]
RestOrder(s, n) == [i \in 1 .. n - 1 |-> s[i + 1]]
FrontOrder(s, n) == [i \in 1 .. n - 1 |-> s[i]]

LEMMA AddsFirstLinked ==
  ASSUME NEW h, NEW g, NEW hd, NEW tl, NEW s, NEW n, NEW c,
         Linked(h, hd, tl, s, n), AddsFirst(h, g, hd, c),
         c \notin DOMAIN h, NULL \notin DOMAIN h, c # NULL
  PROVE  Linked(g, c, IF hd = NULL THEN c ELSE tl, ConsOrder(c, s, n), n + 1)
<1> DEFINE t == ConsOrder(c, s, n)
           m == n + 1
           last == IF hd = NULL THEN c ELSE tl
<1>0. /\ n \in Nat /\ m \in Nat /\ m # 0
      /\ s \in [1 .. n -> DOMAIN h]
      /\ DOMAIN g = DOMAIN h \cup {c}
      /\ hd = IF n = 0 THEN NULL ELSE s[1]
      /\ tl = IF n = 0 THEN NULL ELSE s[n]
  BY DEF Linked, Links, AddsFirst
<1>1. IsFiniteSet(DOMAIN g) /\ Cardinality(DOMAIN g) = m
  BY <1>0, FS_AddElement DEF Linked
<1>2. t \in [1 .. m -> DOMAIN g]
  BY <1>0 DEF ConsOrder
<1>a. t[1] = c /\ \A i \in 1 .. n : t[i + 1] = s[i]
  BY <1>0 DEF ConsOrder
<1>b. \A i \in 1 .. m : i # 1 => i - 1 \in 1 .. n /\ t[i] = s[i - 1] /\ t[i] \in DOMAIN h
  BY <1>0 DEF ConsOrder
<1> HIDE DEF t
<1>3. \A i, j \in 1 .. m : t[i] = t[j] => i = j
  <2> SUFFICES ASSUME NEW i \in 1 .. m, NEW j \in 1 .. m, t[i] = t[j] PROVE i = j
    OBVIOUS
  <2>1. CASE i = 1 \/ j = 1
    BY <2>1, <1>a, <1>b
  <2>2. CASE i # 1 /\ j # 1
    <3>1. s[i - 1] = s[j - 1] /\ i - 1 \in 1 .. n /\ j - 1 \in 1 .. n
      BY <2>2, <1>b
    <3>2. i - 1 = j - 1
      BY <3>1 DEF Linked, Links
    <3> QED BY <3>2, <1>0
  <2> QED BY <2>1, <2>2
<1>4. \A x \in DOMAIN g : \E i \in 1 .. m : t[i] = x
  <2> SUFFICES ASSUME NEW x \in DOMAIN g PROVE \E i \in 1 .. m : t[i] = x
    OBVIOUS
  <2>1. CASE x = c
    BY <2>1, <1>a, <1>0
  <2>2. CASE x \in DOMAIN h
    <3>1. PICK i \in 1 .. n : s[i] = x
      BY <2>2 DEF Linked, Links
    <3>2. i + 1 \in 1 .. m /\ t[i + 1] = x
      BY <3>1, <1>a, <1>0
    <3> QED BY <3>2
  <2> QED BY <2>1, <2>2, <1>0
<1>5. c = t[1] /\ last = t[m]
  <2>1. CASE n = 0
    BY <2>1, <1>0, <1>a
  <2>2. CASE n # 0
    <3>1. hd # NULL /\ t[m] = s[n]
      BY <2>2, <1>0, <1>a
    <3> QED BY <3>1, <2>2, <1>0, <1>a
  <2> QED BY <2>1, <2>2
<1>6. \A i \in 1 .. m : g[t[i]].next = IF i = m THEN NULL ELSE t[i + 1]
  <2> SUFFICES ASSUME NEW i \in 1 .. m
               PROVE  g[t[i]].next = IF i = m THEN NULL ELSE t[i + 1]
    OBVIOUS
  <2>1. CASE i = 1
    <3>1. g[t[i]].next = hd
      BY <2>1, <1>a DEF AddsFirst
    <3>2. n # 0 => t[i + 1] = s[1]
      BY <2>1, <1>a, <1>0
    <3> QED BY <3>1, <3>2, <2>1, <1>0
  <2>2. CASE i # 1
    <3>1. g[t[i]].next = h[s[i - 1]].next /\ i - 1 \in 1 .. n
      BY <2>2, <1>b DEF AddsFirst
    <3>2. h[s[i - 1]].next = IF i - 1 = n THEN NULL ELSE s[(i - 1) + 1]
      BY <3>1 DEF Linked, Links
    <3>3. (i - 1 = n <=> i = m) /\ (i - 1) + 1 = i
      BY <1>0
    <3>4. i # m => i \in 1 .. n /\ t[i + 1] = s[i]
      BY <1>0, <1>a
    <3> QED BY <3>1, <3>2, <3>3, <3>4
  <2> QED BY <2>1, <2>2
<1>7. \A i \in 1 .. m : g[t[i]].prev = IF i = 1 THEN NULL ELSE t[i - 1]
  <2> SUFFICES ASSUME NEW i \in 1 .. m
               PROVE  g[t[i]].prev = IF i = 1 THEN NULL ELSE t[i - 1]
    OBVIOUS
  <2>1. CASE i = 1
    BY <2>1, <1>a DEF AddsFirst
  <2>2. CASE i = 2
    <3>1. t[2] = s[1] /\ s[1] = hd /\ 1 \in 1 .. n
      BY <2>2, <1>b, <1>0
    <3>2. g[t[2]].prev = c
      BY <3>1, <2>2, <1>b DEF AddsFirst
    <3> QED BY <3>2, <2>2, <1>a
  <2>3. CASE i # 1 /\ i # 2
    <3>1. t[i] = s[i - 1] /\ i - 1 \in 1 .. n /\ t[i] \in DOMAIN h /\ i - 1 # 1
      BY <2>3, <1>b, <1>0
    <3>2. s[i - 1] # s[1] /\ s[1] = hd
      BY <3>1, <1>0 DEF Linked, Links
    <3>3. g[t[i]].prev = h[s[i - 1]].prev
      BY <3>1, <3>2 DEF AddsFirst
    <3>4. h[s[i - 1]].prev = s[(i - 1) - 1]
      BY <3>1 DEF Linked, Links
    <3>5. t[i - 1] = s[(i - 1) - 1]
      BY <2>3, <1>b, <1>0
    <3> QED BY <3>3, <3>4, <3>5, <2>3
  <2> QED BY <2>1, <2>2, <2>3
<1> HIDE DEF m, last
<1>8. Links(g, c, last, t)
  BY <1>0, <1>1, <1>3, <1>4, <1>5, <1>6, <1>7 DEF Links
<1>9. Linked(g, c, last, t, m)
  BY <1>0, <1>1, <1>2, <1>8 DEF Linked
<1> QED BY <1>9 DEF m, t, last

LEMMA AddsLastLinked ==
  ASSUME NEW h, NEW g, NEW hd, NEW tl, NEW s, NEW n, NEW c,
         Linked(h, hd, tl, s, n), AddsLast(h, g, tl, c),
         c \notin DOMAIN h, NULL \notin DOMAIN h, c # NULL
  PROVE  Linked(g, IF tl = NULL THEN c ELSE hd, c, SnocOrder(c, s, n), n + 1)
<1> DEFINE t == SnocOrder(c, s, n)
           m == n + 1
           first == IF tl = NULL THEN c ELSE hd
<1>0. /\ n \in Nat /\ m \in Nat /\ m # 0
      /\ s \in [1 .. n -> DOMAIN h]
      /\ DOMAIN g = DOMAIN h \cup {c}
      /\ hd = IF n = 0 THEN NULL ELSE s[1]
      /\ tl = IF n = 0 THEN NULL ELSE s[n]
  BY DEF Linked, Links, AddsLast
<1>1. IsFiniteSet(DOMAIN g) /\ Cardinality(DOMAIN g) = m
  BY <1>0, FS_AddElement DEF Linked
<1>2. t \in [1 .. m -> DOMAIN g]
  BY <1>0 DEF SnocOrder
<1>a. t[m] = c
  BY <1>0 DEF SnocOrder
<1>b. \A i \in 1 .. m : i # m => i \in 1 .. n /\ t[i] = s[i] /\ t[i] \in DOMAIN h
  BY <1>0 DEF SnocOrder
<1>c. \A i \in 1 .. n : i \in 1 .. m /\ i # m
  BY <1>0
<1> HIDE DEF t
<1>3. \A i, j \in 1 .. m : t[i] = t[j] => i = j
  <2> SUFFICES ASSUME NEW i \in 1 .. m, NEW j \in 1 .. m, t[i] = t[j] PROVE i = j
    OBVIOUS
  <2>1. CASE i = m \/ j = m
    BY <2>1, <1>a, <1>b
  <2>2. CASE i # m /\ j # m
    <3>1. s[i] = s[j] /\ i \in 1 .. n /\ j \in 1 .. n
      BY <2>2, <1>b
    <3> QED BY <3>1 DEF Linked, Links
  <2> QED BY <2>1, <2>2
<1>4. \A x \in DOMAIN g : \E i \in 1 .. m : t[i] = x
  <2> SUFFICES ASSUME NEW x \in DOMAIN g PROVE \E i \in 1 .. m : t[i] = x
    OBVIOUS
  <2>1. CASE x = c
    BY <2>1, <1>a, <1>0
  <2>2. CASE x \in DOMAIN h
    <3>1. PICK i \in 1 .. n : s[i] = x
      BY <2>2 DEF Linked, Links
    <3> QED BY <3>1, <1>b, <1>c
  <2> QED BY <2>1, <2>2, <1>0
<1>5. first = t[1] /\ c = t[m]
  <2>1. CASE n = 0
    BY <2>1, <1>0, <1>a
  <2>2. CASE n # 0
    <3>1. tl # NULL /\ 1 \in 1 .. n /\ t[1] = s[1]
      BY <2>2, <1>0, <1>b, <1>c
    <3> QED BY <3>1, <2>2, <1>0, <1>a
  <2> QED BY <2>1, <2>2
<1>6. \A i \in 1 .. m : g[t[i]].next = IF i = m THEN NULL ELSE t[i + 1]
  <2> SUFFICES ASSUME NEW i \in 1 .. m
               PROVE  g[t[i]].next = IF i = m THEN NULL ELSE t[i + 1]
    OBVIOUS
  <2>1. CASE i = m
    BY <2>1, <1>a DEF AddsLast
  <2>2. CASE i = n
    <3>1. i # m /\ i \in 1 .. n /\ t[i] = s[n] /\ s[n] = tl /\ i + 1 = m
      BY <2>2, <1>0, <1>b
    <3>2. g[t[i]].next = c
      BY <3>1, <1>b DEF AddsLast
    <3> QED BY <3>1, <3>2, <1>a
  <2>3. CASE i # m /\ i # n
    <3>1. t[i] = s[i] /\ i \in 1 .. n /\ t[i] \in DOMAIN h /\ i + 1 \in 1 .. n
      BY <2>3, <1>b, <1>0
    <3>2. s[i] # s[n] /\ s[n] = tl
      BY <3>1, <2>3, <1>0 DEF Linked, Links
    <3>3. g[t[i]].next = h[s[i]].next
      BY <3>1, <3>2 DEF AddsLast
    <3>4. h[s[i]].next = s[i + 1]
      BY <3>1, <2>3 DEF Linked, Links
    <3>5. t[i + 1] = s[i + 1]
      BY <3>1, <1>b, <1>c
    <3> QED BY <3>3, <3>4, <3>5, <2>3
  <2> QED BY <2>1, <2>2, <2>3
<1>7. \A i \in 1 .. m : g[t[i]].prev = IF i = 1 THEN NULL ELSE t[i - 1]
  <2> SUFFICES ASSUME NEW i \in 1 .. m
               PROVE  g[t[i]].prev = IF i = 1 THEN NULL ELSE t[i - 1]
    OBVIOUS
  <2>1. CASE i = m
    <3>1. g[t[i]].prev = tl
      BY <2>1, <1>a DEF AddsLast
    <3>2. n # 0 => n \in 1 .. n /\ t[n] = s[n]
      BY <1>b, <1>c, <1>0
    <3> QED BY <3>1, <3>2, <2>1, <1>0
  <2>2. CASE i # m
    <3>1. t[i] = s[i] /\ i \in 1 .. n /\ t[i] \in DOMAIN h
      BY <2>2, <1>b
    <3>2. g[t[i]].prev = IF i = 1 THEN NULL ELSE s[i - 1]
      BY <3>1 DEF AddsLast, Linked, Links
    <3>3. i # 1 => i - 1 \in 1 .. n /\ t[i - 1] = s[i - 1]
      BY <3>1, <1>b, <1>c, <1>0
    <3> QED BY <3>2, <3>3
  <2> QED BY <2>1, <2>2
<1> HIDE DEF m, first
<1>8. Links(g, first, c, t)
  BY <1>0, <1>1, <1>3, <1>4, <1>5, <1>6, <1>7 DEF Links
<1>9. Linked(g, first, c, t, m)
  BY <1>0, <1>1, <1>2, <1>8 DEF Linked
<1> QED BY <1>9 DEF m, t, first

LEMMA CutsFirstLinked ==
  ASSUME NEW h, NEW g, NEW hd, NEW tl, NEW s, NEW n,
         Linked(h, hd, tl, s, n), CutsFirst(h, g, hd),
         n # 0, NULL \notin DOMAIN h
  PROVE  Linked(g, h[hd].next, IF h[hd].next = NULL THEN NULL ELSE tl,
                RestOrder(s, n), n - 1)
<1> DEFINE t == RestOrder(s, n)
           m == n - 1
           first == h[hd].next
           last == IF first = NULL THEN NULL ELSE tl
<1>0. /\ n \in Nat /\ m \in Nat /\ m + 1 = n /\ 1 \in 1 .. n
      /\ s \in [1 .. n -> DOMAIN h]
      /\ DOMAIN g = DOMAIN h \ {hd}
      /\ hd = s[1] /\ tl = s[n] /\ hd \in DOMAIN h
      /\ \A i, j \in 1 .. n : s[i] = s[j] => i = j
  BY DEF Linked, Links, CutsFirst
<1>1. IsFiniteSet(DOMAIN g) /\ Cardinality(DOMAIN g) = m
  BY <1>0, FS_RemoveElement DEF Linked
<1>a. \A i \in 1 .. m : i + 1 \in 1 .. n /\ t[i] = s[i + 1] /\ t[i] \in DOMAIN g
  <2> SUFFICES ASSUME NEW i \in 1 .. m
               PROVE  i + 1 \in 1 .. n /\ t[i] = s[i + 1] /\ t[i] \in DOMAIN g
    OBVIOUS
  <2>1. i + 1 \in 1 .. n /\ t[i] = s[i + 1] /\ i + 1 # 1
    BY <1>0 DEF RestOrder
  <2>2. s[i + 1] # s[1]
    BY <1>0, <2>1
  <2> QED BY <2>1, <2>2, <1>0
<1>2. t \in [1 .. m -> DOMAIN g]
  BY <1>a DEF RestOrder
<1> HIDE DEF t
<1>3. \A i, j \in 1 .. m : t[i] = t[j] => i = j
  <2> SUFFICES ASSUME NEW i \in 1 .. m, NEW j \in 1 .. m, t[i] = t[j] PROVE i = j
    OBVIOUS
  <2>1. i + 1 = j + 1
    BY <1>a, <1>0
  <2> QED BY <2>1, <1>0
<1>4. \A x \in DOMAIN g : \E i \in 1 .. m : t[i] = x
  <2> SUFFICES ASSUME NEW x \in DOMAIN g PROVE \E i \in 1 .. m : t[i] = x
    OBVIOUS
  <2>1. PICK i \in 1 .. n : s[i] = x
    BY <1>0 DEF Linked, Links
  <2>2. i - 1 \in 1 .. m /\ (i - 1) + 1 = i
    BY <2>1, <1>0
  <2>3. t[i - 1] = s[(i - 1) + 1]
    BY <2>2, <1>a
  <2> QED BY <2>1, <2>2, <2>3
<1>b. first = IF n = 1 THEN NULL ELSE s[1 + 1]
  BY <1>0 DEF Linked, Links
<1>c. n # 1 => 1 \in 1 .. m /\ m \in 1 .. m /\ t[1] = s[1 + 1] /\ t[m] = s[n]
              /\ t[1] # NULL
  BY <1>a, <1>0
<1>5. /\ first = IF m = 0 THEN NULL ELSE t[1]
      /\ last = IF m = 0 THEN NULL ELSE t[m]
  <2>1. CASE n = 1
    BY <2>1, <1>0, <1>b
  <2>2. CASE n # 1
    BY <2>2, <1>0, <1>b, <1>c
  <2> QED BY <2>1, <2>2
<1>6. \A i \in 1 .. m : g[t[i]].next = IF i = m THEN NULL ELSE t[i + 1]
  <2> SUFFICES ASSUME NEW i \in 1 .. m
               PROVE  g[t[i]].next = IF i = m THEN NULL ELSE t[i + 1]
    OBVIOUS
  <2>1. g[t[i]].next = h[s[i + 1]].next /\ i + 1 \in 1 .. n
    BY <1>a DEF CutsFirst
  <2>2. h[s[i + 1]].next = IF i + 1 = n THEN NULL ELSE s[(i + 1) + 1]
    BY <2>1 DEF Linked, Links
  <2>3. i + 1 = n <=> i = m
    BY <1>0
  <2>4. i # m => i + 1 \in 1 .. m /\ t[i + 1] = s[(i + 1) + 1]
    BY <1>a, <1>0
  <2> QED BY <2>1, <2>2, <2>3, <2>4
<1>7. \A i \in 1 .. m : g[t[i]].prev = IF i = 1 THEN NULL ELSE t[i - 1]
  <2> SUFFICES ASSUME NEW i \in 1 .. m
               PROVE  g[t[i]].prev = IF i = 1 THEN NULL ELSE t[i - 1]
    OBVIOUS
  <2>0. n # 1 /\ first = t[1]
    BY <1>0, <1>b, <1>c
  <2>1. CASE i = 1
    BY <2>0, <2>1, <1>a DEF CutsFirst
  <2>2. CASE i # 1
    <3>1. t[i] # first
      BY <2>0, <2>2, <1>3, <1>c
    <3>2. g[t[i]].prev = h[s[i + 1]].prev /\ i + 1 \in 1 .. n
      BY <3>1, <1>a DEF CutsFirst
    <3>3. h[s[i + 1]].prev = s[(i + 1) - 1]
      BY <3>2, <2>2 DEF Linked, Links
    <3>4. i - 1 \in 1 .. m /\ t[i - 1] = s[(i - 1) + 1]
      BY <2>2, <1>a, <1>0
    <3>5. (i + 1) - 1 = (i - 1) + 1
      OBVIOUS
    <3> QED BY <3>2, <3>3, <3>4, <3>5, <2>2
  <2> QED BY <2>1, <2>2
<1> HIDE DEF m, first, last
<1>8. Links(g, first, last, t)
  BY <1>0, <1>1, <1>3, <1>4, <1>5, <1>6, <1>7 DEF Links
<1>9. Linked(g, first, last, t, m)
  BY <1>0, <1>1, <1>2, <1>8 DEF Linked
<1> QED BY <1>9 DEF m, t, first, last

LEMMA CutsLastLinked ==
  ASSUME NEW h, NEW g, NEW hd, NEW tl, NEW s, NEW n,
         Linked(h, hd, tl, s, n), CutsLast(h, g, tl),
         n # 0, NULL \notin DOMAIN h
  PROVE  Linked(g, IF h[tl].prev = NULL THEN NULL ELSE hd, h[tl].prev,
                FrontOrder(s, n), n - 1)
<1> DEFINE t == FrontOrder(s, n)
           m == n - 1
           last == h[tl].prev
           first == IF last = NULL THEN NULL ELSE hd
<1>0. /\ n \in Nat /\ m \in Nat /\ m + 1 = n /\ n \in 1 .. n
      /\ s \in [1 .. n -> DOMAIN h]
      /\ DOMAIN g = DOMAIN h \ {tl}
      /\ hd = s[1] /\ tl = s[n] /\ tl \in DOMAIN h
      /\ \A i, j \in 1 .. n : s[i] = s[j] => i = j
  BY DEF Linked, Links, CutsLast
<1>1. IsFiniteSet(DOMAIN g) /\ Cardinality(DOMAIN g) = m
  BY <1>0, FS_RemoveElement DEF Linked
<1>a. \A i \in 1 .. m : i \in 1 .. n /\ i # n /\ t[i] = s[i] /\ t[i] \in DOMAIN g
  <2> SUFFICES ASSUME NEW i \in 1 .. m
               PROVE  i \in 1 .. n /\ i # n /\ t[i] = s[i] /\ t[i] \in DOMAIN g
    OBVIOUS
  <2>1. i \in 1 .. n /\ t[i] = s[i] /\ i # n
    BY <1>0 DEF FrontOrder
  <2>2. s[i] # s[n]
    BY <1>0, <2>1
  <2> QED BY <2>1, <2>2, <1>0
<1>2. t \in [1 .. m -> DOMAIN g]
  BY <1>a DEF FrontOrder
<1> HIDE DEF t
<1>3. \A i, j \in 1 .. m : t[i] = t[j] => i = j
  BY <1>a, <1>0
<1>4. \A x \in DOMAIN g : \E i \in 1 .. m : t[i] = x
  <2> SUFFICES ASSUME NEW x \in DOMAIN g PROVE \E i \in 1 .. m : t[i] = x
    OBVIOUS
  <2>1. PICK i \in 1 .. n : s[i] = x
    BY <1>0 DEF Linked, Links
  <2>2. i \in 1 .. m
    BY <2>1, <1>0
  <2> QED BY <2>1, <2>2, <1>a
<1>b. last = IF n = 1 THEN NULL ELSE s[n - 1]
  BY <1>0 DEF Linked, Links
<1>c. n # 1 => 1 \in 1 .. m /\ m \in 1 .. m /\ t[1] = s[1] /\ t[m] = s[n - 1]
              /\ t[m] # NULL
  BY <1>a, <1>0
<1>5. /\ first = IF m = 0 THEN NULL ELSE t[1]
      /\ last = IF m = 0 THEN NULL ELSE t[m]
  <2>1. CASE n = 1
    BY <2>1, <1>0, <1>b
  <2>2. CASE n # 1
    BY <2>2, <1>0, <1>b, <1>c
  <2> QED BY <2>1, <2>2
<1>6. \A i \in 1 .. m : g[t[i]].next = IF i = m THEN NULL ELSE t[i + 1]
  <2> SUFFICES ASSUME NEW i \in 1 .. m
               PROVE  g[t[i]].next = IF i = m THEN NULL ELSE t[i + 1]
    OBVIOUS
  <2>0. n # 1 /\ last = t[m]
    BY <1>0, <1>b, <1>c
  <2>1. CASE i = m
    BY <2>0, <2>1, <1>a DEF CutsLast
  <2>2. CASE i # m
    <3>1. t[i] # last
      BY <2>0, <2>2, <1>3, <1>c
    <3>2. g[t[i]].next = h[s[i]].next /\ i \in 1 .. n /\ i # n
      BY <3>1, <1>a DEF CutsLast
    <3>3. h[s[i]].next = s[i + 1]
      BY <3>2 DEF Linked, Links
    <3>4. i + 1 \in 1 .. m /\ t[i + 1] = s[i + 1]
      BY <2>2, <1>a, <1>0
    <3> QED BY <3>2, <3>3, <3>4, <2>2
  <2> QED BY <2>1, <2>2
<1>7. \A i \in 1 .. m : g[t[i]].prev = IF i = 1 THEN NULL ELSE t[i - 1]
  <2> SUFFICES ASSUME NEW i \in 1 .. m
               PROVE  g[t[i]].prev = IF i = 1 THEN NULL ELSE t[i - 1]
    OBVIOUS
  <2>1. g[t[i]].prev = h[s[i]].prev /\ i \in 1 .. n
    BY <1>a DEF CutsLast
  <2>2. h[s[i]].prev = IF i = 1 THEN NULL ELSE s[i - 1]
    BY <2>1 DEF Linked, Links
  <2>3. i # 1 => i - 1 \in 1 .. m /\ t[i - 1] = s[i - 1]
    BY <1>a, <1>0
  <2> QED BY <2>1, <2>2, <2>3
<1> HIDE DEF m, first, last
<1>8. Links(g, first, last, t)
  BY <1>0, <1>1, <1>3, <1>4, <1>5, <1>6, <1>7 DEF Links
<1>9. Linked(g, first, last, t, m)
  BY <1>0, <1>1, <1>2, <1>8 DEF Linked
<1> QED BY <1>9 DEF m, t, first, last

-----------------------------------------------------------------------------
(* What the assignments through a pointer do to a heap. *)
LEMMA SetPrevFacts ==
  ASSUME NEW D, NEW h \in [D -> Entry], NEW c \in D, NEW p \in Pointer
  PROVE  /\ SetPrev(h, c, p) \in [D -> Entry]
         /\ \A x \in D : /\ SetPrev(h, c, p)[x].next = h[x].next
                         /\ SetPrev(h, c, p)[x].data = h[x].data
                         /\ SetPrev(h, c, p)[x].prev = IF x = c THEN p ELSE h[x].prev
  BY DEF SetPrev, Entry

LEMMA SetNextFacts ==
  ASSUME NEW D, NEW h \in [D -> Entry], NEW c \in D, NEW p \in Pointer
  PROVE  /\ SetNext(h, c, p) \in [D -> Entry]
         /\ \A x \in D : /\ SetNext(h, c, p)[x].prev = h[x].prev
                         /\ SetNext(h, c, p)[x].data = h[x].data
                         /\ SetNext(h, c, p)[x].next = IF x = c THEN p ELSE h[x].next
  BY DEF SetNext, Entry

-----------------------------------------------------------------------------
(* The inductive invariant. *)
IInv ==
  /\ TypeOK
  /\ IsFiniteSet(DOMAIN heap)
  /\ WellLinked
  /\ FreeReleasesAll

LEMMA InvLinked ==
  ASSUME IInv
  PROVE  /\ \E s \in Orders(heap) : Linked(heap, head, tail, s, Cardinality(DOMAIN heap))
         /\ NULL \notin DOMAIN heap
<1>1. Cardinality(DOMAIN heap) \in Nat
  BY FS_CardinalityType DEF IInv
<1>2. PICK s \in Orders(heap) : Links(heap, head, tail, s)
  BY DEF IInv, WellLinked
<1>3. Linked(heap, head, tail, s, Cardinality(DOMAIN heap))
  BY <1>1, <1>2 DEF Linked, Orders, IInv
<1> QED BY <1>2, <1>3, CellAssumption DEF IInv, TypeOK

(* Between the two ends of a linked heap: empty, or both ends allocated. *)
LEMMA LinkedEnds ==
  ASSUME NEW h, NEW hd, NEW tl, NEW s, NEW n,
         Linked(h, hd, tl, s, n), NULL \notin DOMAIN h
  PROVE  /\ hd = NULL <=> n = 0
         /\ tl = NULL <=> n = 0
         /\ n # 0 => hd \in DOMAIN h /\ tl \in DOMAIN h
         /\ n = 0 => DOMAIN h = {}
<1>1. n \in Nat /\ s \in [1 .. n -> DOMAIN h]
  BY DEF Linked
<1>2. n # 0 => s[1] \in DOMAIN h /\ s[n] \in DOMAIN h
  BY <1>1
<1>3. n = 0 => DOMAIN h = {}
  BY FS_EmptySet DEF Linked
<1>4. hd = (IF n = 0 THEN NULL ELSE s[1]) /\ tl = (IF n = 0 THEN NULL ELSE s[n])
  BY DEF Linked, Links
<1> QED BY <1>2, <1>3, <1>4

LEMMA PushHeadStep ==
  ASSUME IInv, NEW c \in Cell, NEW v \in Value, PushHead(c, v),
         NEW s, NEW n, Linked(heap, head, tail, s, n)
  PROVE  /\ TypeOK'
         /\ Linked(heap', head', tail', ConsOrder(c, s, n), n + 1)
         /\ heap'[c].data = v
         /\ SameData(heap, heap', DOMAIN heap)
<1> DEFINE D == DOMAIN heap
           e == NewEntry(v, NULL, head)
           h1 == Alloc(heap, c, e)
<1>0. /\ heap \in [D -> Entry] /\ D \subseteq Cell /\ head \in Pointer
      /\ tail \in Pointer /\ c \notin D /\ NULL \notin D /\ c # NULL
      /\ pc' \in {"none", "idle", "freeing"}
  BY CellAssumption DEF IInv, TypeOK, PushHead
<1>1. e \in Entry /\ e.data = v /\ e.prev = NULL /\ e.next = head
  BY <1>0 DEF NewEntry, Entry, Pointer
<1> HIDE DEF e
<1>2. /\ h1 \in [D \cup {c} -> Entry] /\ h1[c] = e
      /\ \A x \in D : h1[x] = heap[x]
  BY <1>0, <1>1 DEF Alloc
<1>3. heap' = LinkHead(h1, c) /\ head' = c /\ tail' = TailAfterPushHead(c)
  BY DEF PushHead, e
<1> HIDE DEF h1
<1>4. head = NULL \/ head \in D
  BY <1>0, LinkedEnds
<1>5. /\ heap' \in [D \cup {c} -> Entry]
      /\ heap'[c].data = v
      /\ \A x \in D : heap'[x].data = heap[x].data
      /\ AddsFirst(heap, heap', head, c)
  <2>1. CASE head = NULL
    BY <2>1, <1>0, <1>1, <1>2, <1>3 DEF LinkHead, AddsFirst
  <2>2. CASE head \in D
    <3>1. heap' = SetPrev(h1, head, c) /\ c \in Pointer /\ head \in D \cup {c}
      BY <2>2, <1>0, <1>3 DEF LinkHead, Pointer
    <3>2. /\ heap' \in [D \cup {c} -> Entry]
          /\ \A x \in D \cup {c} :
               /\ heap'[x].next = h1[x].next
               /\ heap'[x].data = h1[x].data
               /\ heap'[x].prev = IF x = head THEN c ELSE h1[x].prev
      BY <3>1, <1>2, SetPrevFacts
    <3>3. c # head
      BY <2>2, <1>0
    <3>4. heap'[c].next = head /\ heap'[c].data = v /\ heap'[c].prev = NULL
      BY <3>2, <3>3, <1>1, <1>2
    <3>5. \A x \in D : /\ heap'[x].next = heap[x].next
                       /\ heap'[x].data = heap[x].data
                       /\ heap'[x].prev = IF x = head THEN c ELSE heap[x].prev
      BY <3>2, <1>2
    <3>6. DOMAIN heap' = D \cup {c}
      BY <3>2
    <3> QED BY <3>2, <3>4, <3>5, <3>6 DEF AddsFirst
  <2> QED BY <1>4, <2>1, <2>2
<1>6. Linked(heap', c, IF head = NULL THEN c ELSE tail, ConsOrder(c, s, n), n + 1)
  BY <1>0, <1>5, AddsFirstLinked
<1>7. Linked(heap', head', tail', ConsOrder(c, s, n), n + 1)
  BY <1>3, <1>6 DEF TailAfterPushHead
<1>8. TypeOK'
  <2>1. DOMAIN heap' = D \cup {c}
    BY <1>5
  <2>2. DOMAIN heap' \subseteq Cell /\ heap' \in [DOMAIN heap' -> Entry]
    BY <2>1, <1>0, <1>5
  <2>3. head' \in Pointer /\ tail' \in Pointer
    BY <1>0, <1>3 DEF TailAfterPushHead, Pointer
  <2>4. result' = 1
    BY DEF PushHead
  <2> QED BY <2>2, <2>3, <2>4, <1>0 DEF TypeOK
<1> QED BY <1>5, <1>7, <1>8 DEF SameData

LEMMA PushTailStep ==
  ASSUME IInv, NEW c \in Cell, NEW v \in Value, PushTail(c, v),
         NEW s, NEW n, Linked(heap, head, tail, s, n)
  PROVE  /\ TypeOK'
         /\ Linked(heap', head', tail', SnocOrder(c, s, n), n + 1)
         /\ heap'[c].data = v
         /\ SameData(heap, heap', DOMAIN heap)
<1> DEFINE D == DOMAIN heap
           e == NewEntry(v, tail, NULL)
           h1 == Alloc(heap, c, e)
<1>0. /\ heap \in [D -> Entry] /\ D \subseteq Cell /\ head \in Pointer
      /\ tail \in Pointer /\ c \notin D /\ NULL \notin D /\ c # NULL
      /\ pc' \in {"none", "idle", "freeing"}
  BY CellAssumption DEF IInv, TypeOK, PushTail
<1>1. e \in Entry /\ e.data = v /\ e.prev = tail /\ e.next = NULL
  BY <1>0 DEF NewEntry, Entry, Pointer
<1> HIDE DEF e
<1>2. /\ h1 \in [D \cup {c} -> Entry] /\ h1[c] = e
      /\ \A x \in D : h1[x] = heap[x]
  BY <1>0, <1>1 DEF Alloc
<1>3. heap' = LinkTail(h1, c) /\ tail' = c /\ head' = HeadAfterPushTail(c)
  BY DEF PushTail, e
<1> HIDE DEF h1
<1>4. tail = NULL \/ tail \in D
  BY <1>0, LinkedEnds
<1>5. /\ heap' \in [D \cup {c} -> Entry]
      /\ heap'[c].data = v
      /\ \A x \in D : heap'[x].data = heap[x].data
      /\ AddsLast(heap, heap', tail, c)
  <2>1. CASE tail = NULL
    BY <2>1, <1>0, <1>1, <1>2, <1>3 DEF LinkTail, AddsLast
  <2>2. CASE tail \in D
    <3>1. heap' = SetNext(h1, tail, c) /\ c \in Pointer /\ tail \in D \cup {c}
      BY <2>2, <1>0, <1>3 DEF LinkTail, Pointer
    <3>2. /\ heap' \in [D \cup {c} -> Entry]
          /\ \A x \in D \cup {c} :
               /\ heap'[x].prev = h1[x].prev
               /\ heap'[x].data = h1[x].data
               /\ heap'[x].next = IF x = tail THEN c ELSE h1[x].next
      BY <3>1, <1>2 DEF SetNext, Entry
    <3>3. c # tail
      BY <2>2, <1>0
    <3>4. heap'[c].prev = tail /\ heap'[c].data = v /\ heap'[c].next = NULL
      BY <3>2, <3>3, <1>1, <1>2
    <3>5. \A x \in D : /\ heap'[x].prev = heap[x].prev
                       /\ heap'[x].data = heap[x].data
                       /\ heap'[x].next = IF x = tail THEN c ELSE heap[x].next
      BY <3>2, <1>2
    <3>6. DOMAIN heap' = D \cup {c}
      BY <3>2
    <3> QED BY <3>2, <3>4, <3>5, <3>6 DEF AddsLast
  <2> QED BY <1>4, <2>1, <2>2
<1>6. Linked(heap', IF tail = NULL THEN c ELSE head, c, SnocOrder(c, s, n), n + 1)
  BY <1>0, <1>5, AddsLastLinked
<1>7. Linked(heap', head', tail', SnocOrder(c, s, n), n + 1)
  BY <1>3, <1>6 DEF HeadAfterPushTail
<1>8. TypeOK'
  <2>1. DOMAIN heap' = D \cup {c}
    BY <1>5
  <2>2. DOMAIN heap' \subseteq Cell /\ heap' \in [DOMAIN heap' -> Entry]
    BY <2>1, <1>0, <1>5
  <2>3. head' \in Pointer /\ tail' \in Pointer
    BY <1>0, <1>3 DEF HeadAfterPushTail, Pointer
  <2>4. result' = 1
    BY DEF PushTail
  <2> QED BY <2>2, <2>3, <2>4, <1>0 DEF TypeOK
<1> QED BY <1>5, <1>7, <1>8 DEF SameData

(* The unlinking of the first entry, by queue_pop_head or queue_free. *)
LEMMA UnlinkHeadStep ==
  ASSUME IInv, ~IsEmpty, UnlinkHead,
         NEW s, NEW n, Linked(heap, head, tail, s, n)
  PROVE  /\ head' \in Pointer /\ tail' \in Pointer
         /\ DOMAIN heap' \subseteq Cell /\ heap' \in [DOMAIN heap' -> Entry]
         /\ Linked(heap', head', tail', RestOrder(s, n), n - 1)
         /\ n # 0
         /\ SameData(heap, heap', DOMAIN heap')
<1> DEFINE D == DOMAIN heap
           h1 == CutHead(heap)
           q == heap[head].next
<1>0. /\ heap \in [D -> Entry] /\ D \subseteq Cell /\ tail \in Pointer
      /\ NULL \notin D /\ head # NULL
  BY CellAssumption DEF IInv, TypeOK, IsEmpty
<1>1. n # 0 /\ head \in D
  BY <1>0, LinkedEnds
<1>2. q \in Pointer /\ NULL \in Pointer
  BY <1>0, <1>1 DEF Entry, Pointer
<1>3. q = NULL \/ q \in D
  <2>1. n - 1 = 0 \/ s[1 + 1] \in D
    BY <1>1 DEF Linked
  <2>2. heap[s[1]].next = (IF 1 = n THEN NULL ELSE s[1 + 1]) /\ head = s[1] /\ n \in Nat
    BY <1>1 DEF Linked, Links
  <2> QED BY <2>1, <2>2, <1>1
<1>4. /\ h1 \in [D -> Entry]
      /\ \A x \in D : /\ h1[x].next = heap[x].next
                      /\ h1[x].data = heap[x].data
                      /\ h1[x].prev = IF x = q THEN NULL ELSE heap[x].prev
  <2>1. CASE q = NULL
    BY <2>1, <1>0 DEF CutHead
  <2>2. CASE q \in D
    <3>1. h1 = SetPrev(heap, q, NULL)
      BY <2>2, <1>0 DEF CutHead
    <3> QED BY <3>1, <2>2, <1>0, <1>2, SetPrevFacts
  <2> QED BY <1>3, <2>1, <2>2
<1> HIDE DEF h1
<1>5. heap' = Dealloc(h1, head) /\ head' = q /\ tail' = IF q = NULL THEN NULL ELSE tail
  BY DEF UnlinkHead, h1
<1>6. heap' \in [D \ {head} -> Entry] /\ \A x \in D \ {head} : heap'[x] = h1[x]
  BY <1>4, <1>5 DEF Dealloc
<1>7. DOMAIN heap' = D \ {head}
  BY <1>6
<1>8. CutsFirst(heap, heap', head) /\ SameData(heap, heap', DOMAIN heap')
  BY <1>4, <1>6, <1>7 DEF CutsFirst, SameData
<1>9. Linked(heap', q, IF q = NULL THEN NULL ELSE tail, RestOrder(s, n), n - 1)
  BY <1>0, <1>1, <1>8, CutsFirstLinked
<1> QED BY <1>0, <1>1, <1>2, <1>5, <1>6, <1>7, <1>8, <1>9

LEMMA UnlinkTailStep ==
  ASSUME IInv, ~IsEmpty, UnlinkTail,
         NEW s, NEW n, Linked(heap, head, tail, s, n)
  PROVE  /\ head' \in Pointer /\ tail' \in Pointer
         /\ DOMAIN heap' \subseteq Cell /\ heap' \in [DOMAIN heap' -> Entry]
         /\ Linked(heap', head', tail', FrontOrder(s, n), n - 1)
         /\ n # 0
         /\ SameData(heap, heap', DOMAIN heap')
<1> DEFINE D == DOMAIN heap
           h1 == CutTail(heap)
           q == heap[tail].prev
<1>0. /\ heap \in [D -> Entry] /\ D \subseteq Cell /\ head \in Pointer
      /\ NULL \notin D /\ head # NULL
  BY CellAssumption DEF IInv, TypeOK, IsEmpty
<1>1. n # 0 /\ tail \in D
  BY <1>0, LinkedEnds
<1>2. q \in Pointer /\ NULL \in Pointer
  BY <1>0, <1>1 DEF Entry, Pointer
<1>3. q = NULL \/ q \in D
  <2>1. n - 1 = 0 \/ s[n - 1] \in D
    BY <1>1 DEF Linked
  <2>2. heap[s[n]].prev = (IF n = 1 THEN NULL ELSE s[n - 1]) /\ tail = s[n] /\ n \in Nat
    BY <1>1 DEF Linked, Links
  <2> QED BY <2>1, <2>2, <1>1
<1>4. /\ h1 \in [D -> Entry]
      /\ \A x \in D : /\ h1[x].prev = heap[x].prev
                      /\ h1[x].data = heap[x].data
                      /\ h1[x].next = IF x = q THEN NULL ELSE heap[x].next
  <2>1. CASE q = NULL
    BY <2>1, <1>0 DEF CutTail
  <2>2. CASE q \in D
    <3>1. h1 = SetNext(heap, q, NULL)
      BY <2>2, <1>0 DEF CutTail
    <3> QED BY <3>1, <2>2, <1>0, <1>2, SetNextFacts
  <2> QED BY <1>3, <2>1, <2>2
<1> HIDE DEF h1
<1>5. heap' = Dealloc(h1, tail) /\ tail' = q /\ head' = IF q = NULL THEN NULL ELSE head
  BY DEF UnlinkTail, h1
<1>6. heap' \in [D \ {tail} -> Entry] /\ \A x \in D \ {tail} : heap'[x] = h1[x]
  BY <1>4, <1>5 DEF Dealloc
<1>7. DOMAIN heap' = D \ {tail}
  BY <1>6
<1>8. CutsLast(heap, heap', tail) /\ SameData(heap, heap', DOMAIN heap')
  BY <1>4, <1>6, <1>7 DEF CutsLast, SameData
<1>9. Linked(heap', IF q = NULL THEN NULL ELSE head, q, FrontOrder(s, n), n - 1)
  BY <1>0, <1>1, <1>8, CutsLastLinked
<1> QED BY <1>0, <1>1, <1>2, <1>5, <1>6, <1>7, <1>8, <1>9

-----------------------------------------------------------------------------
(* A linked heap is a well linked queue. *)
LEMMA LinkedIsWell ==
  ASSUME NEW h, NEW hd, NEW tl, NEW s, NEW n, Linked(h, hd, tl, s, n)
  PROVE  IsFiniteSet(DOMAIN h) /\ \E r \in Orders(h) : Links(h, hd, tl, r)
<1>1. s \in Orders(h) /\ Links(h, hd, tl, s)
  BY DEF Linked, Orders
<1> QED BY <1>1 DEF Linked

(* Initially there is no queue and no entry. *)
LEMMA InitInv == Init => IInv
<1> SUFFICES ASSUME Init PROVE IInv
  OBVIOUS
<1>1. DOMAIN heap = {} /\ Cardinality({}) = 0 /\ IsFiniteSet({})
  BY FS_EmptySet DEF Init, NoHeap
<1>2. TypeOK
  BY <1>1 DEF Init, TypeOK, Pointer
<1> DEFINE s == [i \in 1 .. 0 |-> NULL]
<1>3. 1 .. 0 = {}
  OBVIOUS
<1>4. s \in Orders(heap)
  BY <1>1, <1>3 DEF Orders
<1>5. Links(heap, head, tail, s)
  BY <1>1, <1>3 DEF Links, Init
<1> QED BY <1>1, <1>2, <1>4, <1>5 DEF IInv, WellLinked, FreeReleasesAll

LEMMA NextInv == IInv /\ [Next]_vars => IInv'
<1> SUFFICES ASSUME IInv, [Next]_vars PROVE IInv'
  OBVIOUS
<1>0. PICK s \in Orders(heap), n \in {Cardinality(DOMAIN heap)} :
        Linked(heap, head, tail, s, n)
  BY InvLinked
<1>00. NULL \notin DOMAIN heap
  BY InvLinked
<1>t. TypeOK /\ IsFiniteSet(DOMAIN heap) /\ WellLinked /\ FreeReleasesAll
  BY DEF IInv
<1>1. CASE New
  <2>1. DOMAIN heap = {} /\ head' = NULL /\ tail' = NULL /\ heap' = heap
    BY <1>1, <1>t DEF New, FreeReleasesAll
  <2>2. head = NULL /\ tail = NULL
    BY <2>1, <1>0, <1>00, LinkedEnds, FS_EmptySet
  <2>3. WellLinked'
    BY <2>1, <2>2, <1>t DEF WellLinked
  <2> QED BY <2>1, <2>2, <2>3, <1>1, <1>t DEF IInv, New, TypeOK, FreeReleasesAll
<1>2. ASSUME NEW c \in Cell, NEW v \in Value, PushHead(c, v) PROVE IInv'
  <2>1. TypeOK' /\ Linked(heap', head', tail', ConsOrder(c, s, n), n + 1)
    BY <1>0, <1>2, PushHeadStep
  <2>2. IsFiniteSet(DOMAIN heap') /\ \E r \in Orders(heap') : Links(heap', head', tail', r)
    BY <2>1, LinkedIsWell
  <2>3. pc' # "none"
    BY <1>2 DEF PushHead
  <2> QED BY <2>1, <2>2, <2>3 DEF IInv, WellLinked, FreeReleasesAll
<1>3. ASSUME NEW c \in Cell, NEW v \in Value, PushTail(c, v) PROVE IInv'
  <2>1. TypeOK' /\ Linked(heap', head', tail', SnocOrder(c, s, n), n + 1)
    BY <1>0, <1>3, PushTailStep
  <2>2. IsFiniteSet(DOMAIN heap') /\ \E r \in Orders(heap') : Links(heap', head', tail', r)
    BY <2>1, LinkedIsWell
  <2>3. pc' # "none"
    BY <1>3 DEF PushTail
  <2> QED BY <2>1, <2>2, <2>3 DEF IInv, WellLinked, FreeReleasesAll
<1>4. ASSUME ~IsEmpty, UnlinkHead, pc' # "none", pc' = pc,
             result' \in Value \cup {NULL, 0, 1}
      PROVE  IInv'
  <2>1. /\ head' \in Pointer /\ tail' \in Pointer
        /\ DOMAIN heap' \subseteq Cell /\ heap' \in [DOMAIN heap' -> Entry]
        /\ Linked(heap', head', tail', RestOrder(s, n), n - 1)
    BY <1>0, <1>4, UnlinkHeadStep
  <2>2. IsFiniteSet(DOMAIN heap') /\ \E r \in Orders(heap') : Links(heap', head', tail', r)
    BY <2>1, LinkedIsWell
  <2>3. TypeOK'
    BY <2>1, <1>4, <1>t DEF TypeOK
  <2> QED BY <2>2, <2>3, <1>4 DEF IInv, WellLinked, FreeReleasesAll
<1>5. ASSUME ~IsEmpty, UnlinkTail, pc' # "none", pc' = pc,
             result' \in Value \cup {NULL, 0, 1}
      PROVE  IInv'
  <2>1. /\ head' \in Pointer /\ tail' \in Pointer
        /\ DOMAIN heap' \subseteq Cell /\ heap' \in [DOMAIN heap' -> Entry]
        /\ Linked(heap', head', tail', FrontOrder(s, n), n - 1)
    BY <1>0, <1>5, UnlinkTailStep
  <2>2. IsFiniteSet(DOMAIN heap') /\ \E r \in Orders(heap') : Links(heap', head', tail', r)
    BY <2>1, LinkedIsWell
  <2>3. TypeOK'
    BY <2>1, <1>5, <1>t DEF TypeOK
  <2> QED BY <2>2, <2>3, <1>5 DEF IInv, WellLinked, FreeReleasesAll
<1>6. CASE PopHead
  <2>1. head \in DOMAIN heap /\ heap \in [DOMAIN heap -> Entry]
    BY <1>6, <1>0, <1>00, <1>t, LinkedEnds DEF PopHead, IsEmpty, TypeOK
  <2>2. heap[head].data \in Value
    BY <2>1 DEF Entry
  <2> QED BY <1>4, <1>6, <2>2 DEF PopHead
<1>7. CASE PopTail
  <2>1. tail \in DOMAIN heap /\ heap \in [DOMAIN heap -> Entry]
    BY <1>7, <1>0, <1>00, <1>t, LinkedEnds DEF PopTail, IsEmpty, TypeOK
  <2>2. heap[tail].data \in Value
    BY <2>1 DEF Entry
  <2> QED BY <1>5, <1>7, <2>2 DEF PopTail
<1>8. CASE FreeEntry
  BY <1>4, <1>8, <1>t DEF FreeEntry, FreeLoopEnds, TypeOK
<1>9. ASSUME UNCHANGED <<head, tail, heap>>, pc' \in {"none", "idle", "freeing"},
             pc' = "none" => pc = "none" \/ IsEmpty,
             result' \in Value \cup {NULL, 0, 1}
      PROVE  IInv'
  <2>1. IsEmpty => DOMAIN heap = {}
    BY <1>0, <1>00, LinkedEnds DEF IsEmpty
  <2>2. FreeReleasesAll'
    BY <2>1, <1>9, <1>t DEF FreeReleasesAll
  <2>3. TypeOK' /\ WellLinked' /\ IsFiniteSet(DOMAIN heap')
    BY <1>9, <1>t DEF TypeOK, WellLinked
  <2> QED BY <2>2, <2>3 DEF IInv
<1>10. CASE PushFails \/ PopEmpty \/ Free \/ FreeQueue
  BY <1>9, <1>10, <1>t DEF PushFails, PopEmpty, Free, FreeQueue, FreeLoopEnds, TypeOK
<1>11. CASE UNCHANGED vars
  BY <1>9, <1>11, <1>t DEF vars, TypeOK
<1> QED BY <1>1, <1>2, <1>3, <1>6, <1>7, <1>8, <1>10, <1>11 DEF Next

(* Every entry allocated is between head and tail, linked both ways, and   *)
(* queue_free leaves none behind, at any size and after any history.       *)
THEOREM QueueCorrect == Spec => [](TypeOK /\ WellFormed)
<1>1. IInv => TypeOK /\ WellFormed
  BY DEF IInv, WellFormed
<1> QED BY <1>1, InitInv, NextInv, PTL DEF Spec

-----------------------------------------------------------------------------
(* A sequence is the function that its elements make. *)
LEMMA SequenceIsFunction ==
  ASSUME NEW S, NEW q \in Seq(S), NEW n, Len(q) = n
  PROVE  q = [i \in 1 .. n |-> q[i]]
  OBVIOUS

(* The values the pointers give, before and after each operation. *)
LEMMA ValuesType ==
  ASSUME NEW h, NEW s, NEW n \in Nat, s \in [1 .. n -> DOMAIN h],
         h \in [DOMAIN h -> Entry]
  PROVE  /\ ValuesOf(h, s, n) \in Seq(Value)
         /\ Len(ValuesOf(h, s, n)) = n
         /\ \A i \in 1 .. n : ValuesOf(h, s, n)[i] = h[s[i]].data
<1>1. \A i \in 1 .. n : h[s[i]].data \in Value
  BY DEF Entry
<1>2. ValuesOf(h, s, n) \in [1 .. n -> Value]
  BY <1>1 DEF ValuesOf
<1> QED BY <1>2 DEF ValuesOf

LEMMA ValuesCons ==
  ASSUME NEW h, NEW g, NEW s, NEW n \in Nat, NEW c, NEW v \in Value,
         s \in [1 .. n -> DOMAIN h], h \in [DOMAIN h -> Entry],
         g[c].data = v, SameData(h, g, DOMAIN h)
  PROVE  ValuesOf(g, ConsOrder(c, s, n), n + 1) = <<v>> \o ValuesOf(h, s, n)
<1> DEFINE w == ValuesOf(h, s, n)
           t == ConsOrder(c, s, n)
<1>1. w \in Seq(Value) /\ Len(w) = n /\ \A i \in 1 .. n : w[i] = h[s[i]].data
  BY ValuesType
<1>2. \A i \in 1 .. n + 1 :
        g[t[i]].data = IF i = 1 THEN v ELSE h[s[i - 1]].data
  BY DEF ConsOrder, SameData
<1> HIDE DEF w, t
<1>3. \A i \in 1 .. n + 1 : g[t[i]].data = IF i = 1 THEN v ELSE w[i - 1]
  BY <1>1, <1>2
<1>4. <<v>> \o w = [i \in 1 .. n + 1 |-> IF i = 1 THEN v ELSE w[i - 1]]
  BY <1>1
<1>5. ValuesOf(g, t, n + 1) = [i \in 1 .. n + 1 |-> g[t[i]].data]
  BY DEF ValuesOf
<1> QED BY <1>3, <1>4, <1>5 DEF w, t

LEMMA ValuesSnoc ==
  ASSUME NEW h, NEW g, NEW s, NEW n \in Nat, NEW c, NEW v \in Value,
         s \in [1 .. n -> DOMAIN h], h \in [DOMAIN h -> Entry],
         g[c].data = v, SameData(h, g, DOMAIN h)
  PROVE  ValuesOf(g, SnocOrder(c, s, n), n + 1) = Append(ValuesOf(h, s, n), v)
<1> DEFINE w == ValuesOf(h, s, n)
           t == SnocOrder(c, s, n)
<1>1. w \in Seq(Value) /\ Len(w) = n /\ \A i \in 1 .. n : w[i] = h[s[i]].data
  BY ValuesType
<1>2. \A i \in 1 .. n + 1 :
        g[t[i]].data = IF i = n + 1 THEN v ELSE h[s[i]].data
  BY DEF SnocOrder, SameData
<1> HIDE DEF w, t
<1>3. \A i \in 1 .. n + 1 : g[t[i]].data = IF i = n + 1 THEN v ELSE w[i]
  BY <1>1, <1>2
<1>4. Append(w, v) = [i \in 1 .. n + 1 |-> IF i = n + 1 THEN v ELSE w[i]]
  <2>1. /\ Append(w, v) \in Seq(Value) /\ Len(Append(w, v)) = n + 1
        /\ \A i \in 1 .. n : Append(w, v)[i] = w[i]
        /\ Append(w, v)[n + 1] = v
    BY <1>1, AppendProperties
  <2>2. Append(w, v) = [i \in 1 .. n + 1 |-> Append(w, v)[i]]
    BY <2>1, SequenceIsFunction, Zenon
  <2>3. \A i \in 1 .. n + 1 : i # n + 1 => i \in 1 .. n
    OBVIOUS
  <2> QED BY <2>1, <2>2, <2>3
<1>5. ValuesOf(g, t, n + 1) = [i \in 1 .. n + 1 |-> g[t[i]].data]
  BY DEF ValuesOf
<1> QED BY <1>3, <1>4, <1>5 DEF w, t

LEMMA ValuesRest ==
  ASSUME NEW h, NEW g, NEW s, NEW n \in Nat, n # 0,
         s \in [1 .. n -> DOMAIN h], h \in [DOMAIN h -> Entry],
         RestOrder(s, n) \in [1 .. n - 1 -> DOMAIN g],
         SameData(h, g, DOMAIN g)
  PROVE  ValuesOf(g, RestOrder(s, n), n - 1) = Tail(ValuesOf(h, s, n))
<1> DEFINE w == ValuesOf(h, s, n)
           t == RestOrder(s, n)
<1>1. w \in Seq(Value) /\ Len(w) = n /\ \A i \in 1 .. n : w[i] = h[s[i]].data
  BY ValuesType
<1>2. \A i \in 1 .. n - 1 : g[t[i]].data = h[s[i + 1]].data
  BY DEF RestOrder, SameData
<1> HIDE DEF w, t
<1>3. \A i \in 1 .. n - 1 : g[t[i]].data = w[i + 1]
  BY <1>1, <1>2
<1>4. Tail(w) = [i \in 1 .. n - 1 |-> w[i + 1]]
  <2>1. w # <<>>
    BY <1>1
  <2>2. /\ Tail(w) \in Seq(Value) /\ Len(Tail(w)) = n - 1
        /\ \A i \in 1 .. n - 1 : Tail(w)[i] = w[i + 1]
    BY <1>1, <2>1, HeadTailProperties
  <2>3. Tail(w) = [i \in 1 .. n - 1 |-> Tail(w)[i]]
    BY <2>2, SequenceIsFunction, Zenon
  <2> QED BY <2>2, <2>3
<1>5. ValuesOf(g, t, n - 1) = [i \in 1 .. n - 1 |-> g[t[i]].data]
  BY DEF ValuesOf
<1> QED BY <1>3, <1>4, <1>5 DEF w, t

LEMMA ValuesFront ==
  ASSUME NEW h, NEW g, NEW s, NEW n \in Nat, n # 0,
         s \in [1 .. n -> DOMAIN h], h \in [DOMAIN h -> Entry],
         FrontOrder(s, n) \in [1 .. n - 1 -> DOMAIN g],
         SameData(h, g, DOMAIN g)
  PROVE  ValuesOf(g, FrontOrder(s, n), n - 1) = SubSeq(ValuesOf(h, s, n), 1, n - 1)
<1> DEFINE w == ValuesOf(h, s, n)
           t == FrontOrder(s, n)
<1>1. w \in Seq(Value) /\ Len(w) = n /\ \A i \in 1 .. n : w[i] = h[s[i]].data
  BY ValuesType
<1>2. \A i \in 1 .. n - 1 : g[t[i]].data = h[s[i]].data
  BY DEF FrontOrder, SameData
<1> HIDE DEF w, t
<1>3. \A i \in 1 .. n - 1 : g[t[i]].data = w[i]
  BY <1>1, <1>2
<1>4. SubSeq(w, 1, n - 1) = [i \in 1 .. n - 1 |-> w[i]]
  BY <1>1
<1>5. ValuesOf(g, t, n - 1) = [i \in 1 .. n - 1 |-> g[t[i]].data]
  BY DEF ValuesOf
<1> QED BY <1>3, <1>4, <1>5 DEF w, t

(* An empty heap holds no values. *)
LEMMA ValuesNone ==
  ASSUME NEW h, NEW hd, NEW tl, NEW s, Linked(h, hd, tl, s, 0)
  PROVE  ContentsOf(h, hd, tl) = <<>>
<1>1. ContentsOf(h, hd, tl) = ValuesOf(h, s, 0)
  BY ContentsIs
<1> QED BY <1>1 DEF ValuesOf

-----------------------------------------------------------------------------
(* What the two ends of a non-empty queue hold. *)
LEMMA EndValues ==
  ASSUME IInv, ~IsEmpty
  PROVE  /\ Contents \in Seq(Value) /\ Contents # <<>>
         /\ heap[head].data = Contents[1]
         /\ heap[tail].data = Contents[Len(Contents)]
<1>1. PICK s \in Orders(heap), n \in {Cardinality(DOMAIN heap)} :
        Linked(heap, head, tail, s, n)
  BY InvLinked
<1>2. n # 0
  BY <1>1, InvLinked, LinkedEnds DEF IsEmpty
<1>3. Contents = ValuesOf(heap, s, n)
  BY <1>1, ContentsIs DEF Contents
<1>4. /\ n \in Nat /\ 1 \in 1 .. n /\ n \in 1 .. n
      /\ s \in [1 .. n -> DOMAIN heap] /\ heap \in [DOMAIN heap -> Entry]
  BY <1>1, <1>2 DEF Linked, IInv, TypeOK
<1>5. /\ ValuesOf(heap, s, n) \in Seq(Value)
      /\ Len(ValuesOf(heap, s, n)) = n
      /\ \A i \in 1 .. n : ValuesOf(heap, s, n)[i] = heap[s[i]].data
  BY <1>4, ValuesType
<1>6. head = s[1] /\ tail = s[n]
  BY <1>1, <1>2 DEF Linked, Links
<1>7. Contents # <<>>
  BY <1>2, <1>3, <1>5
<1> QED BY <1>3, <1>4, <1>5, <1>6, <1>7

(* queue_peek_head and queue_peek_tail show the two ends of the sequence   *)
(* of values, so what the next pop at that end returns.                    *)
THEOREM PeeksCorrect == Spec => []PeekShowsEnds
<1>1. IInv => PeekShowsEnds
  BY EndValues DEF PeekShowsEnds, PeekHead, PeekTail
<1> QED BY <1>1, InitInv, NextInv, PTL DEF Spec

LEMMA InitMaps == Init => Deque!Init
<1> SUFFICES ASSUME Init PROVE Deque!Init
  OBVIOUS
<1>1. IInv /\ DOMAIN heap = {}
  BY InitInv DEF Init, NoHeap
<1>2. PICK s \in Orders(heap) : Linked(heap, head, tail, s, 0)
  BY <1>1, InvLinked, FS_EmptySet
<1>3. Contents = <<>>
  BY <1>2, ValuesNone DEF Contents
<1> QED BY <1>3 DEF Init, Deque!Init, Items

LEMMA StepMaps == IInv /\ [Next]_vars => [Deque!Next]_Deque!vars
<1> SUFFICES ASSUME IInv, [Next]_vars PROVE [Deque!Next]_Deque!vars
  OBVIOUS
<1>0. PICK s \in Orders(heap), n \in {Cardinality(DOMAIN heap)} :
        Linked(heap, head, tail, s, n)
  BY InvLinked
<1>00. NULL \notin DOMAIN heap
  BY InvLinked
<1>n. n \in Nat /\ s \in [1 .. n -> DOMAIN heap] /\ heap \in [DOMAIN heap -> Entry]
  BY <1>0 DEF Linked, IInv, TypeOK
<1>c. Contents = ValuesOf(heap, s, n)
  BY <1>0, ContentsIs DEF Contents
<1>e. IsEmpty => n = 0 /\ Contents = <<>>
  BY <1>0, <1>00, LinkedEnds, ValuesNone DEF IsEmpty, Contents
<1>1. CASE New
  <2>1. DOMAIN heap = {}
    BY <1>1 DEF New, IInv, FreeReleasesAll
  <2>2. head = NULL /\ tail = NULL
    BY <2>1, <1>0, <1>00, LinkedEnds, FS_EmptySet
  <2>3. Contents' = Contents
    BY <1>1, <2>2 DEF New, Contents
  <2> QED BY <1>1, <2>3 DEF New, Items, Deque!vars
<1>2. ASSUME NEW c \in Cell, NEW v \in Value, PushHead(c, v)
      PROVE  [Deque!Next]_Deque!vars
  <2>1. /\ Linked(heap', head', tail', ConsOrder(c, s, n), n + 1)
        /\ heap'[c].data = v /\ SameData(heap, heap', DOMAIN heap)
    BY <1>0, <1>2, PushHeadStep
  <2>2. Contents' = ValuesOf(heap', ConsOrder(c, s, n), n + 1)
    BY <2>1, ContentsIs DEF Contents
  <2>a. ValuesOf(heap', ConsOrder(c, s, n), n + 1) = <<v>> \o ValuesOf(heap, s, n)
    BY <2>1, <1>n, ValuesCons
  <2>3. Contents' = <<v>> \o Contents
    BY <2>2, <2>a, <1>c
  <2>4. Items = Contents /\ Items' = Contents' /\ result' = 1
    BY <1>2 DEF PushHead, Items
  <2>5. Deque!PushHead(v)
    BY <2>3, <2>4 DEF Deque!PushHead
  <2> QED BY <2>5 DEF Deque!Next
<1>3. ASSUME NEW c \in Cell, NEW v \in Value, PushTail(c, v)
      PROVE  [Deque!Next]_Deque!vars
  <2>1. /\ Linked(heap', head', tail', SnocOrder(c, s, n), n + 1)
        /\ heap'[c].data = v /\ SameData(heap, heap', DOMAIN heap)
    BY <1>0, <1>3, PushTailStep
  <2>2. Contents' = ValuesOf(heap', SnocOrder(c, s, n), n + 1)
    BY <2>1, ContentsIs DEF Contents
  <2>a. ValuesOf(heap', SnocOrder(c, s, n), n + 1) = Append(ValuesOf(heap, s, n), v)
    BY <2>1, <1>n, ValuesSnoc
  <2>3. Contents' = Append(Contents, v)
    BY <2>2, <2>a, <1>c
  <2>4. Items = Contents /\ Items' = Contents' /\ result' = 1
    BY <1>3 DEF PushTail, Items
  <2>5. Deque!PushTail(v)
    BY <2>3, <2>4 DEF Deque!PushTail
  <2> QED BY <2>5 DEF Deque!Next
<1>4. CASE PopHead
  <2>1. /\ Linked(heap', head', tail', RestOrder(s, n), n - 1)
        /\ n # 0 /\ SameData(heap, heap', DOMAIN heap')
    BY <1>0, <1>4, UnlinkHeadStep DEF PopHead
  <2>2. Contents' = ValuesOf(heap', RestOrder(s, n), n - 1)
    BY <2>1, ContentsIs DEF Contents
  <2>3. RestOrder(s, n) \in [1 .. n - 1 -> DOMAIN heap']
    BY <2>1 DEF Linked
  <2>a. ValuesOf(heap', RestOrder(s, n), n - 1) = Tail(ValuesOf(heap, s, n))
    BY <2>1, <2>3, <1>n, ValuesRest
  <2>4. Contents' = Tail(Contents)
    BY <2>2, <2>a, <1>c
  <2>5. Contents # <<>> /\ result' = Contents[1]
    BY <1>4, EndValues DEF PopHead
  <2>6. Items = Contents /\ Items' = Contents'
    BY <1>4 DEF PopHead, Items
  <2>7. Deque!PopHead
    BY <2>4, <2>5, <2>6 DEF Deque!PopHead
  <2> QED BY <2>7 DEF Deque!Next
<1>5. CASE PopTail
  <2>1. /\ Linked(heap', head', tail', FrontOrder(s, n), n - 1)
        /\ n # 0 /\ SameData(heap, heap', DOMAIN heap')
    BY <1>0, <1>5, UnlinkTailStep DEF PopTail
  <2>2. Contents' = ValuesOf(heap', FrontOrder(s, n), n - 1)
    BY <2>1, ContentsIs DEF Contents
  <2>3. FrontOrder(s, n) \in [1 .. n - 1 -> DOMAIN heap']
    BY <2>1 DEF Linked
  <2>a. ValuesOf(heap', FrontOrder(s, n), n - 1)
          = SubSeq(ValuesOf(heap, s, n), 1, n - 1)
    BY <2>1, <2>3, <1>n, ValuesFront
  <2>b. Len(ValuesOf(heap, s, n)) = n
    BY <1>n, ValuesType
  <2>4. Contents' = SubSeq(Contents, 1, n - 1) /\ Len(Contents) = n
    BY <2>2, <2>a, <2>b, <1>c
  <2>5. Contents # <<>> /\ result' = Contents[Len(Contents)]
    BY <1>5, EndValues DEF PopTail
  <2>6. Items = Contents /\ Items' = Contents'
    BY <1>5 DEF PopTail, Items
  <2>7. Deque!PopTail
    BY <2>4, <2>5, <2>6 DEF Deque!PopTail
  <2> QED BY <2>7 DEF Deque!Next
<1>6. CASE PushFails
  <2>1. Items' = Items /\ result' = 0
    BY <1>6 DEF PushFails, Items, Contents
  <2> QED BY <2>1 DEF Deque!Next, Deque!PushRefused
<1>7. CASE PopEmpty
  <2>1. Items' = Items /\ Items = <<>> /\ result' = NULL
    BY <1>7, <1>e DEF PopEmpty, Items, Contents
  <2> QED BY <2>1 DEF Deque!Next, Deque!PopNothing
<1>8. CASE Free
  <2>1. Items' = <<>> /\ result' = result
    BY <1>8 DEF Free, Items
  <2> QED BY <2>1 DEF Deque!Next, Deque!Destroy
<1>9. CASE FreeEntry
  <2>1. Items' = Items /\ result' = result
    BY <1>9 DEF FreeEntry, Items
  <2> QED BY <2>1 DEF Deque!vars
<1>10. CASE FreeQueue
  <2>1. Contents' = <<>>
    BY <1>10, <1>e DEF FreeQueue, FreeLoopEnds, Contents
  <2>2. Items' = Items /\ result' = result
    BY <2>1, <1>10 DEF FreeQueue, Items
  <2> QED BY <2>2 DEF Deque!vars
<1>11. CASE UNCHANGED vars
  <2>1. Items' = Items /\ result' = result
    BY <1>11 DEF vars, Items, Contents
  <2> QED BY <2>1 DEF Deque!vars
<1> QED BY <1>1, <1>2, <1>3, <1>4, <1>5, <1>6, <1>7, <1>8, <1>9, <1>10, <1>11 DEF Next

(* The linked entries behave as the abstract deque in every history: each  *)
(* push and pop is one operation on it and nothing else changes it.        *)
THEOREM QueueRefinesDeque == Spec => ImplementsDeque
<1> QED BY InitInv, NextInv, InitMaps, StepMaps, PTL
    DEF Spec, ImplementsDeque, Deque!Spec

-----------------------------------------------------------------------------
(* The vertices within k edges of one, which Within gives for each k up to *)
(* the number of vertices.                                                 *)

IsBall(f, v, n, arcs) ==
  f = [k \in 0 .. n |->
         IF k = 0 THEN {v}
         ELSE LET near == f[k - 1] IN near \cup {a[2] : a \in {b \in arcs : b[1] \in near}}]

(* The function that Within chooses exists, for any number of vertices.    *)
LEMMA BallExists ==
  ASSUME NEW v, NEW arcs, NEW n \in Nat
  PROVE  \E f : IsBall(f, v, n, arcs)
<1> DEFINE Bad == {m \in Nat : ~ \E f : IsBall(f, v, m, arcs)}
<1> SUFFICES ASSUME Bad # {} PROVE FALSE
  OBVIOUS
<1>1. PICK m \in Bad : \A j \in Bad : m <= j
  BY LeastExists
<1>2. m \in Nat /\ ~ \E f : IsBall(f, v, m, arcs)
  OBVIOUS
<1>3. CASE m = 0
  <2> DEFINE f == [k \in 0 .. 0 |-> {v}]
  <2>1. f = [k \in 0 .. 0 |->
         IF k = 0 THEN {v}
         ELSE LET near == f[k - 1] IN near \cup {a[2] : a \in {b \in arcs : b[1] \in near}}]
    BY \A k \in 0 .. 0 : k = 0
  <2> QED BY <1>2, <1>3, <2>1 DEF IsBall
<1>4. CASE m # 0
  <2>1. m - 1 \in Nat /\ m - 1 \notin Bad
    BY <1>1, <1>2, <1>4
  <2>2. PICK f : IsBall(f, v, m - 1, arcs)
    BY <2>1
  <2> DEFINE near == f[m - 1]
             last == near \cup {a[2] : a \in {b \in arcs : b[1] \in near}}
             g == [k \in 0 .. m |-> IF k = m THEN last ELSE f[k]]
             step(h, k) == h[k - 1] \cup {a[2] : a \in {b \in arcs : b[1] \in h[k - 1]}}
  <2>3. /\ f[0] = {v}
        /\ \A k \in 1 .. m - 1 : f[k] = step(f, k)
    <3>1. f = [k \in 0 .. m - 1 |-> IF k = 0 THEN {v} ELSE step(f, k)]
      BY <2>2 DEF IsBall
    <3>2. 0 \in 0 .. m - 1
      BY <2>1
    <3> HIDE DEF step
    <3>3. f[0] = {v}
      BY <3>1, <3>2
    <3>4. ASSUME NEW k \in 1 .. m - 1 PROVE f[k] = step(f, k)
      <4>1. k \in 0 .. m - 1 /\ k # 0
        BY <2>1
      <4> QED BY <3>1, <4>1
    <3> QED BY <3>3, <3>4
  <2>4. ASSUME NEW k \in 0 .. m
        PROVE  g[k] = IF k = 0 THEN {v} ELSE step(g, k)
    <3>1. CASE k = 0
      BY <3>1, <2>3, <1>4, <1>2
    <3>2. CASE k # 0
      <4>1. k - 1 \in 0 .. m /\ k - 1 # m
        BY <3>2, <1>2
      <4>2. g[k - 1] = f[k - 1]
        BY <4>1
      <4>3. CASE k = m
        BY <4>2, <4>3, <3>2
      <4>4. CASE k # m
        <5>1. k \in 1 .. m - 1
          BY <3>2, <4>4, <1>2
        <5> QED BY <4>2, <4>4, <5>1, <2>3, <3>2
      <4> QED BY <4>3, <4>4
    <3> QED BY <3>1, <3>2
  <2>5. g = [k \in 0 .. m |-> IF k = 0 THEN {v} ELSE step(g, k)]
    BY <2>4
  <2>6. IsBall(g, v, m, arcs)
    BY <2>5 DEF IsBall
  <2> QED BY <1>2, <2>6
<1> QED BY <1>3, <1>4

(* So Within is that function.                                             *)
LEMMA WithinIs ==
  ASSUME VertexNum \in Nat, NEW v
  PROVE  IsBall(Within(v), v, VertexNum, Arcs)
<1>1. PICK f : IsBall(f, v, VertexNum, Arcs)
  BY BallExists
<1> QED BY <1>1 DEF Within, IsBall

-----------------------------------------------------------------------------
(* A word is the vertices met, in the order they were: those that have     *)
(* been called back for, then those in the queue.  It falls into pieces,   *)
(* one for every root, and what is proved of a piece rests on four facts:  *)
(* nothing is twice in the word, what was met before the piece is closed   *)
(* under the arcs, every vertex of the piece but its root has an arc from  *)
(* an earlier one, and when it ends the whole word is closed.              *)

Distinct(w, len) == \A i, j \in 1 .. len : w[i] = w[j] => i = j
Part(w, i, j) == {w[k] : k \in i .. j}
ClosedUnder(arcs, S) == \A a \in arcs : a[1] \in S => a[2] \in S

(* The places after b up to len are those of the current piece: the root   *)
(* first, then vertices with an arc from an earlier one.                   *)
Span(n, len, b) == n \in Nat /\ len \in 0 .. n /\ b \in Nat /\ b < len
Grown(arcs, w, len, b, r) ==
  /\ w[b + 1] = r
  /\ \A i \in b + 2 .. len : \E j \in b + 1 .. i - 1 : <<w[j], w[i]>> \in arcs

(* Induction over an interval, on a set.                                   *)
LEMMA Upward ==
  ASSUME NEW S, NEW n \in Nat, 0 \in S, \A k \in 1 .. n : k - 1 \in S => k \in S
  PROVE  0 .. n \subseteq S
<1> DEFINE Bad == {m \in 0 .. n : m \notin S}
<1> SUFFICES ASSUME Bad # {} PROVE FALSE
  OBVIOUS
<1>1. PICK m \in Bad : \A j \in Bad : m <= j
  <2>1. Bad \subseteq Nat
    OBVIOUS
  <2> QED BY <2>1, LeastExists
<1>2. m \in 1 .. n
  OBVIOUS
<1>3. m - 1 \in 0 .. n /\ m - 1 \in S
  BY <1>1, <1>2
<1> QED BY <1>2, <1>3

(* One arc further. *)
Spread(arcs, S) == S \cup {a[2] : a \in {b \in arcs : b[1] \in S}}

(* Each ball is the one before it and its successors.                      *)
LEMMA BallStep ==
  ASSUME NEW B, NEW v, NEW n \in Nat, NEW arcs, IsBall(B, v, n, arcs)
  PROVE  /\ B[0] = {v}
         /\ \A k \in 1 .. n : B[k] = Spread(arcs, B[k - 1])
<1>1. B = [k \in 0 .. n |-> IF k = 0 THEN {v} ELSE Spread(arcs, B[k - 1])]
  BY DEF IsBall, Spread
<1>2. 0 \in 0 .. n
  OBVIOUS
<1>3. B[0] = {v}
  BY <1>1, <1>2
<1>4. ASSUME NEW k \in 1 .. n PROVE B[k] = Spread(arcs, B[k - 1])
  <2>1. k \in 0 .. n /\ k # 0
    OBVIOUS
  <2> QED BY <1>1, <2>1
<1> QED BY <1>3, <1>4

(* A larger radius loses nothing.                                          *)
LEMMA BallGrows ==
  ASSUME NEW B, NEW v, NEW n \in Nat, NEW arcs, IsBall(B, v, n, arcs),
         NEW j \in 0 .. n, NEW k \in j .. n
  PROVE  B[j] \subseteq B[k]
<1> DEFINE S == {i \in 0 .. n - j : B[j] \subseteq B[j + i]}
<1>1. \A i \in 1 .. n : B[i - 1] \subseteq B[i]
  BY BallStep DEF Spread
<1>2. 0 \in S
  OBVIOUS
<1>3. ASSUME NEW i \in 1 .. n - j, i - 1 \in S PROVE i \in S
  <2>1. j + i \in 1 .. n /\ j + (i - 1) = (j + i) - 1
    OBVIOUS
  <2>2. B[j] \subseteq B[(j + i) - 1]
    BY <1>3, <2>1
  <2> QED BY <1>1, <2>1, <2>2
<1>4. n - j \in Nat
  OBVIOUS
<1> HIDE DEF S
<1>5. 0 .. n - j \subseteq S
  BY <1>2, <1>3, <1>4, Upward
<1>6. k - j \in 0 .. n - j /\ j + (k - j) = k
  OBVIOUS
<1> QED BY <1>5, <1>6 DEF S

(* A vertex of a piece is reached from the root in as many steps as there  *)
(* are vertices of the piece before it; the vertices reached were met.     *)
LEMMA PieceIsReached ==
  ASSUME NEW B, NEW r, NEW n, NEW arcs, IsBall(B, r, n, arcs),
         NEW w, NEW len, NEW b, Span(n, len, b), Grown(arcs, w, len, b, r),
         ClosedUnder(arcs, Part(w, 1, len)),
         Distinct(w, len)
  PROVE  Part(w, b + 1, len) = B[n] \ Part(w, 1, b)
<1>a. n \in Nat
  BY DEF Span
<1> USE DEF Span, Grown
<1>0. /\ B[0] = {r}
      /\ \A k \in 1 .. n : B[k] = Spread(arcs, B[k - 1])
  BY <1>a, BallStep
<1>1. Part(w, b + 1, len) \subseteq B[n]
  <2> DEFINE S == {k \in 0 .. len - b - 1 : \A i \in b + 1 .. b + 1 + k : w[i] \in B[k]}
  <2>1. 0 \in S
    <3>1. \A i \in b + 1 .. b + 1 + 0 : i = b + 1
      OBVIOUS
    <3>2. r \in B[0]
      BY <1>0
    <3>3. 0 \in 0 .. len - b - 1
      OBVIOUS
    <3> QED BY <3>1, <3>2, <3>3
  <2>2. ASSUME NEW k \in 1 .. len - b - 1, k - 1 \in S PROVE k \in S
    <3>1. k \in 1 .. n /\ k \in 0 .. len - b - 1
      OBVIOUS
    <3>2. \A i \in b + 1 .. b + 1 + (k - 1) : w[i] \in B[k - 1]
      BY <2>2
    <3>3. B[k] = Spread(arcs, B[k - 1])
      BY <1>0, <3>1
    <3>4. ASSUME NEW i \in b + 1 .. b + 1 + k PROVE w[i] \in B[k]
      <4>1. CASE i \in b + 1 .. b + 1 + (k - 1)
        BY <4>1, <3>2, <3>3 DEF Spread
      <4>2. CASE i = b + 1 + k
        <5>1. i \in b + 2 .. len /\ i - 1 = b + 1 + (k - 1)
          BY <4>2
        <5>2. PICK j \in b + 1 .. i - 1 : <<w[j], w[i]>> \in arcs
          BY <5>1
        <5>3. w[j] \in B[k - 1]
          BY <5>1, <3>2
        <5>4. w[i] = <<w[j], w[i]>>[2] /\ w[j] = <<w[j], w[i]>>[1]
          OBVIOUS
        <5> QED BY <5>2, <5>3, <5>4, <3>3 DEF Spread
      <4>3. i \in b + 1 .. b + 1 + (k - 1) \/ i = b + 1 + k
        OBVIOUS
      <4> QED BY <4>1, <4>2, <4>3
    <3> QED BY <3>1, <3>4
  <2>3. len - b - 1 \in Nat
    OBVIOUS
  <2> HIDE DEF S
  <2>4. 0 .. len - b - 1 \subseteq S
    BY <2>1, <2>2, <2>3, Upward
  <2>5. len - b - 1 \in S
    BY <2>3, <2>4
  <2>6. \A i \in b + 1 .. len : w[i] \in B[len - b - 1]
    BY <2>5 DEF S
  <2>7. len - b - 1 \in 0 .. n /\ n \in len - b - 1 .. n
    OBVIOUS
  <2>8. B[len - b - 1] \subseteq B[n]
    BY <2>7, BallGrows
  <2> QED BY <2>6, <2>8 DEF Part
<1>2. B[n] \subseteq Part(w, 1, len)
  <2> DEFINE S == {k \in 0 .. n : B[k] \subseteq Part(w, 1, len)}
  <2>1. 0 \in S
    <3>1. b + 1 \in 1 .. len
      OBVIOUS
    <3>2. r \in Part(w, 1, len)
      BY <3>1 DEF Part
    <3> QED BY <3>2, <1>0
  <2>2. ASSUME NEW k \in 1 .. n, k - 1 \in S PROVE k \in S
    <3>1. B[k - 1] \subseteq Part(w, 1, len)
      BY <2>2
    <3>2. B[k] = Spread(arcs, B[k - 1])
      BY <1>0
    <3>3. B[k] \subseteq Part(w, 1, len)
      BY <3>1, <3>2 DEF ClosedUnder, Spread
    <3> QED BY <3>3
  <2> HIDE DEF S
  <2>3. 0 .. n \subseteq S
    BY <2>1, <2>2, Upward
  <2> QED BY <2>3 DEF S
<1>3. Part(w, 1, len) = Part(w, 1, b) \cup Part(w, b + 1, len)
  <2>1. 1 .. len = (1 .. b) \cup (b + 1 .. len)
    OBVIOUS
  <2> QED BY <2>1 DEF Part
<1>4. Part(w, 1, b) \cap Part(w, b + 1, len) = {}
  <2> SUFFICES ASSUME NEW i \in 1 .. b, NEW j \in b + 1 .. len, w[i] = w[j] PROVE FALSE
    BY DEF Part
  <2>1. i \in 1 .. len /\ j \in 1 .. len /\ i # j
    OBVIOUS
  <2> QED BY <2>1 DEF Distinct
<1> QED BY <1>1, <1>2, <1>3, <1>4

-----------------------------------------------------------------------------
(* Breadth first, the levels of the vertices of a piece.                   *)

(* A vertex is one level below one with an arc to it.                      *)
Stepwise(arcs, level, w, len, b) ==
  /\ level \in [1 .. len -> Nat]
  /\ level[b + 1] = 0
  /\ \A i \in b + 2 .. len : \E j \in b + 1 .. i - 1 :
       <<w[j], w[i]>> \in arcs /\ level[i] = level[j] + 1

(* No arc out of vertex i leads outside or down by more than one level. *)
Seen(level, w, len, b, i, u) ==
  \E j \in 1 .. len : w[j] = u /\ (j <= b \/ level[j] <= level[i] + 1)
AllSeen(arcs, level, w, len, b) ==
  \A i \in b + 1 .. len : \A a \in arcs :
    a[1] = w[i] => Seen(level, w, len, b, i, a[2])

(* The last of an interval. *)
LEMMA IntervalEnd ==
  ASSUME NEW a \in Nat, NEW k \in Nat, NEW i \in a .. a + k
  PROVE  i \in a .. a + (k - 1) \/ i = a + k
OBVIOUS

(* Where every vertex of a piece has a level, one below that of a vertex   *)
(* with an arc to it, and no arc goes down by more than one level, the     *)
(* level is the distance from the root.                                    *)
LEMMA LevelIsDistance ==
  ASSUME NEW B, NEW r, NEW n, NEW arcs, IsBall(B, r, n, arcs),
         NEW w, NEW len, NEW b, Span(n, len, b), Grown(arcs, w, len, b, r),
         ClosedUnder(arcs, Part(w, 1, b)), Distinct(w, len),
         NEW level, Stepwise(arcs, level, w, len, b), AllSeen(arcs, level, w, len, b)
  PROVE  \A i \in b + 1 .. len :
           level[i] \in 0 .. n /\ \A k \in 0 .. n : w[i] \in B[k] <=> level[i] <= k
<1> USE DEF Span, Grown, Stepwise, AllSeen, Seen
<1>0. /\ B[0] = {r}
      /\ \A k \in 1 .. n : B[k] = Spread(arcs, B[k - 1])
  BY BallStep, SMTT(30)
<1>1. \A i \in b + 1 .. len : level[i] \in 0 .. i - b - 1 /\ w[i] \in B[level[i]]
  <2> DEFINE S == {k \in 0 .. len - b - 1 : \A i \in b + 1 .. b + 1 + k :
                     level[i] \in 0 .. i - b - 1 /\ w[i] \in B[level[i]]}
  <2>1. 0 \in S
    <3>1. \A i \in b + 1 .. b + 1 + 0 : i = b + 1 /\ 0 \in 0 .. i - b - 1
      OBVIOUS
    <3>2. 0 \in 0 .. len - b - 1
      OBVIOUS
    <3> QED BY <3>1, <3>2, <1>0
  <2>2. ASSUME NEW k \in 1 .. len - b - 1, k - 1 \in S PROVE k \in S
    <3>1. k \in 0 .. len - b - 1
      OBVIOUS
    <3>z. b \in Nat /\ k \in Nat
      OBVIOUS
    <3>2. \A i \in b + 1 .. b + 1 + (k - 1) : level[i] \in 0 .. i - b - 1 /\ w[i] \in B[level[i]]
      BY <2>2
    <3>3. ASSUME NEW i \in b + 1 .. b + 1 + k
          PROVE  level[i] \in 0 .. i - b - 1 /\ w[i] \in B[level[i]]
      <4>1. CASE i \in b + 1 .. b + 1 + (k - 1)
        BY <4>1, <3>2
      <4>2. CASE i = b + 1 + k
        <5>1. i \in b + 2 .. len /\ i - 1 = b + 1 + (k - 1) /\ i \in 1 .. len
          BY <4>2
        <5>2. PICK j \in b + 1 .. i - 1 : <<w[j], w[i]>> \in arcs /\ level[i] = level[j] + 1
          BY <5>1
        <5>3. level[j] \in 0 .. j - b - 1 /\ w[j] \in B[level[j]]
          BY <5>1, <3>2
        <5>4. level[i] \in 0 .. i - b - 1 /\ level[i] \in 1 .. n /\ level[j] = level[i] - 1
          <6> DEFINE l == level[i]
                     p == level[j]
          <6>1. l = p + 1 /\ p \in 0 .. j - b - 1
            BY <5>2, <5>3
          <6>2. j \in b + 1 .. i - 1 /\ i \in b + 2 .. len
            BY <5>1
          <6> HIDE DEF l, p
          <6>3. l \in 0 .. i - b - 1 /\ l \in 1 .. n /\ p = l - 1
            BY <6>1, <6>2
          <6> QED BY <6>3 DEF l, p
        <5>5. B[level[i]] = Spread(arcs, B[level[j]])
          <6> DEFINE l == level[i]
          <6>1. l \in 1 .. n /\ level[j] = l - 1
            BY <5>4
          <6> HIDE DEF l
          <6>2. B[l] = Spread(arcs, B[l - 1])
            BY <1>0, <6>1
          <6>3. B[l] = Spread(arcs, B[level[j]])
            BY <6>1, <6>2
          <6> QED BY <6>3 DEF l
        <5>6. w[i] = <<w[j], w[i]>>[2] /\ w[j] = <<w[j], w[i]>>[1]
          OBVIOUS
        <5>7. w[i] \in Spread(arcs, B[level[j]])
          BY <5>2, <5>3, <5>6 DEF Spread
        <5> QED BY <5>4, <5>5, <5>7
      <4>3. i \in b + 1 .. b + 1 + (k - 1) \/ i = b + 1 + k
        <5> DEFINE a == b + 1
        <5>1. a \in Nat /\ i \in a .. a + k
          BY <3>z
        <5> HIDE DEF a
        <5>2. i \in a .. a + (k - 1) \/ i = a + k
          BY <3>z, <5>1, IntervalEnd
        <5> QED BY <5>2 DEF a
      <4> QED BY <4>1, <4>2, <4>3
    <3> QED BY <3>1, <3>3
  <2>3. len - b - 1 \in Nat
    OBVIOUS
  <2> HIDE DEF S
  <2>4. 0 .. len - b - 1 \subseteq S
    BY <2>1, <2>2, <2>3, Upward
  <2>5. len - b - 1 \in S
    BY <2>3, <2>4
  <2>6. \A i \in b + 1 .. b + 1 + (len - b - 1) :
          level[i] \in 0 .. i - b - 1 /\ w[i] \in B[level[i]]
    BY <2>5 DEF S
  <2>7. b + 1 + (len - b - 1) = len
    OBVIOUS
  <2> QED BY <2>6, <2>7
<1>2. \A k \in 0 .. n : \A u \in B[k] :
        u \in Part(w, 1, b) \/ \E j \in b + 1 .. len : w[j] = u /\ level[j] <= k
  <2> DEFINE Known(k, u) == u \in Part(w, 1, b) \/ \E j \in b + 1 .. len : w[j] = u /\ level[j] <= k
             S == {k \in 0 .. n : \A u \in B[k] : Known(k, u)}
  <2>1. 0 \in S
    <3>1. b + 1 \in b + 1 .. len /\ 0 \in 0 .. n
      OBVIOUS
    <3> QED BY <3>1, <1>0
  <2>2. ASSUME NEW k \in 1 .. n, k - 1 \in S PROVE k \in S
    <3>1. B[k] = Spread(arcs, B[k - 1])
      BY <1>0
    <3>2. \A u \in B[k - 1] : Known(k - 1, u)
      BY <2>2
    <3>3. ASSUME NEW u, Known(k - 1, u) PROVE Known(k, u)
      <4>1. CASE u \in Part(w, 1, b)
        BY <4>1
      <4>2. CASE \E j \in b + 1 .. len : w[j] = u /\ level[j] <= k - 1
        <5>1. PICK j \in b + 1 .. len : w[j] = u /\ level[j] <= k - 1
          BY <4>2
        <5>2. level[j] <= k
          BY <5>1
        <5> QED BY <5>1, <5>2
      <4> QED BY <3>3, <4>1, <4>2
    <3>4. ASSUME NEW a \in arcs, Known(k - 1, a[1]) PROVE Known(k, a[2])
      <4>1. CASE a[1] \in Part(w, 1, b)
        BY <4>1 DEF ClosedUnder
      <4>2. CASE \E i \in b + 1 .. len : w[i] = a[1] /\ level[i] <= k - 1
        <5>1. PICK i \in b + 1 .. len : w[i] = a[1] /\ level[i] <= k - 1
          BY <4>2
        <5>2. PICK j \in 1 .. len : w[j] = a[2] /\ (j <= b \/ level[j] <= level[i] + 1)
          BY <5>1
        <5>3. CASE j <= b
          <6>1. j \in 1 .. b
            BY <5>3
          <6> QED BY <5>2, <6>1 DEF Part
        <5>4. CASE ~(j <= b)
          <6>1. j \in b + 1 .. len
            BY <5>4
          <6>2. i \in 1 .. len /\ level[i] \in Nat /\ level[j] \in Nat
            OBVIOUS
          <6>3. level[j] <= level[i] + 1
            BY <5>2, <5>4
          <6>4. level[j] <= k
            BY <5>1, <6>2, <6>3
          <6> QED BY <5>2, <6>1, <6>4
        <5> QED BY <5>3, <5>4
      <4> QED BY <3>4, <4>1, <4>2
    <3> HIDE DEF Known
    <3>5. \A u \in B[k] : Known(k, u)
      BY <3>1, <3>2, <3>3, <3>4 DEF Spread
    <3> QED BY <3>5
  <2> HIDE DEF S
  <2>3. 0 .. n \subseteq S
    BY <2>1, <2>2, Upward
  <2> QED BY <2>3 DEF S
<1>3. SUFFICES ASSUME NEW i \in b + 1 .. len
      PROVE  level[i] \in 0 .. n /\ \A k \in 0 .. n : w[i] \in B[k] <=> level[i] <= k
  OBVIOUS
<1>4. level[i] \in 0 .. n /\ w[i] \in B[level[i]]
  <2>1. level[i] \in 0 .. i - b - 1 /\ w[i] \in B[level[i]]
    BY <1>1
  <2> QED BY <2>1
<1>5. ASSUME NEW k \in 0 .. n, level[i] <= k PROVE w[i] \in B[k]
  <2>1. k \in level[i] .. n
    BY <1>4, <1>5
  <2>2. B[level[i]] \subseteq B[k]
    BY <1>4, <2>1, BallGrows, ZenonT(40)
  <2> QED BY <1>4, <2>2
<1>6. ASSUME NEW k \in 0 .. n, w[i] \in B[k] PROVE level[i] <= k
  <2>1. w[i] \notin Part(w, 1, b)
    <3> SUFFICES ASSUME NEW j \in 1 .. b, w[i] = w[j] PROVE FALSE
      BY DEF Part
    <3>1. i \in 1 .. len /\ j \in 1 .. len /\ i # j
      OBVIOUS
    <3> QED BY <3>1 DEF Distinct
  <2>2. PICK j \in b + 1 .. len : w[j] = w[i] /\ level[j] <= k
    BY <1>2, <1>6, <2>1
  <2>3. i \in 1 .. len /\ j \in 1 .. len
    OBVIOUS
  <2>4. i = j
    BY <2>2, <2>3 DEF Distinct
  <2> QED BY <2>2, <2>4
<1> QED BY <1>4, <1>5, <1>6

-----------------------------------------------------------------------------
(* The queue under a traversal, of which the proofs about the queue say    *)
(* that it holds what was pushed, in that order.                           *)

(* The queue under a traversal. *)
LEMMA QueueValues ==
  ASSUME IInv
  PROVE  Contents \in Seq(Value) /\ (IsEmpty <=> Contents = <<>>)
<1>1. PICK s \in Orders(heap), n \in {Cardinality(DOMAIN heap)} :
        Linked(heap, head, tail, s, n)
  BY InvLinked
<1>2. n \in Nat /\ s \in [1 .. n -> DOMAIN heap] /\ heap \in [DOMAIN heap -> Entry]
  BY <1>1 DEF Linked, IInv, TypeOK
<1>3. Contents = ValuesOf(heap, s, n)
  BY <1>1, ContentsIs DEF Contents
<1>4. IsEmpty => Contents = <<>>
  BY <1>1, InvLinked, LinkedEnds, ValuesNone DEF IsEmpty, Contents
<1>5. ~IsEmpty => Contents # <<>>
  BY EndValues
<1> QED BY <1>2, <1>3, <1>4, <1>5, ValuesType

(* A vertex that is pushed is the last value of the queue.                 *)
LEMMA PushVertexStep ==
  ASSUME IInv, NEW v \in Value, PushVertex(v)
  PROVE  IInv' /\ Contents' = Append(Contents, v)
<1>1. FreshCell \in Cell /\ PushTail(FreshCell, v)
  BY DEF PushVertex
<1>2. IInv'
  <2>1. Next
    BY <1>1 DEF Next
  <2> QED BY <2>1, NextInv
<1>3. PICK s \in Orders(heap), n \in {Cardinality(DOMAIN heap)} :
        Linked(heap, head, tail, s, n)
  BY InvLinked
<1>4. n \in Nat /\ s \in [1 .. n -> DOMAIN heap] /\ heap \in [DOMAIN heap -> Entry]
  BY <1>3 DEF Linked, IInv, TypeOK
<1>5. Contents = ValuesOf(heap, s, n)
  BY <1>3, ContentsIs DEF Contents
<1>6. /\ Linked(heap', head', tail', SnocOrder(FreshCell, s, n), n + 1)
      /\ heap'[FreshCell].data = v /\ SameData(heap, heap', DOMAIN heap)
  BY <1>1, <1>3, PushTailStep
<1>7. Contents' = ValuesOf(heap', SnocOrder(FreshCell, s, n), n + 1)
  BY <1>6, ContentsIs DEF Contents
<1>8. ValuesOf(heap', SnocOrder(FreshCell, s, n), n + 1) = Append(ValuesOf(heap, s, n), v)
  BY <1>6, <1>4, ValuesSnoc
<1> QED BY <1>2, <1>5, <1>7, <1>8

(* The vertex that is popped was the first.                                *)
LEMMA PopHeadStep ==
  ASSUME IInv, PopHead
  PROVE  /\ IInv' /\ Contents # <<>>
         /\ PeekHead = Head(Contents) /\ Contents' = Tail(Contents)
<1>1. IInv'
  <2>1. Next
    BY DEF Next
  <2> QED BY <2>1, NextInv
<1>2. PICK s \in Orders(heap), n \in {Cardinality(DOMAIN heap)} :
        Linked(heap, head, tail, s, n)
  BY InvLinked
<1>3. n \in Nat /\ s \in [1 .. n -> DOMAIN heap] /\ heap \in [DOMAIN heap -> Entry]
  BY <1>2 DEF Linked, IInv, TypeOK
<1>4. Contents = ValuesOf(heap, s, n)
  BY <1>2, ContentsIs DEF Contents
<1>5. /\ Linked(heap', head', tail', RestOrder(s, n), n - 1)
      /\ n # 0 /\ SameData(heap, heap', DOMAIN heap')
  BY <1>2, UnlinkHeadStep DEF PopHead
<1>6. Contents' = ValuesOf(heap', RestOrder(s, n), n - 1)
  BY <1>5, ContentsIs DEF Contents
<1>7. RestOrder(s, n) \in [1 .. n - 1 -> DOMAIN heap']
  BY <1>5 DEF Linked
<1>8. ValuesOf(heap', RestOrder(s, n), n - 1) = Tail(ValuesOf(heap, s, n))
  BY <1>5, <1>7, <1>3, ValuesRest
<1>9. Contents # <<>> /\ PeekHead = Contents[1] /\ Contents \in Seq(Value)
  BY EndValues DEF PopHead, PeekHead
<1> QED BY <1>1, <1>4, <1>6, <1>8, <1>9

(* A step that leaves the queue alone leaves its values.                   *)
LEMMA QueueSame ==
  ASSUME UNCHANGED vars PROVE Contents' = Contents /\ IsEmpty' = IsEmpty /\ (IInv => IInv')
<1>1. Contents' = Contents /\ IsEmpty' = IsEmpty
  BY DEF vars, Contents, IsEmpty
<1> QED BY <1>1, NextInv

(* The queue that is empty holds nothing.                                  *)
LEMMA EmptyHolds == IInv /\ IsEmpty => Contents = <<>>
BY QueueValues

(* The same after a step.                                                  *)
LEMMA EmptyAfter == (IInv /\ IsEmpty => Contents = <<>>)'
BY EmptyHolds, PTL

(* queue_new, a push that fails and queue_free.                            *)
LEMMA QueueOther ==
  ASSUME IInv, New \/ PushFails \/ Free \/ FreeQueue
  PROVE  /\ IInv'
         /\ PushFails \/ Free => Contents' = Contents
         /\ New => Contents' = <<>>
<1>1. IInv'
  <2>1. Next
    BY DEF Next
  <2> QED BY <2>1, NextInv
<1>2. PushFails \/ Free => Contents' = Contents
  BY DEF PushFails, Free, Contents
<1>3. New => Contents' = <<>>
  <2> SUFFICES ASSUME New PROVE Contents' = <<>>
    OBVIOUS
  <2>1. IsEmpty'
    BY DEF New, IsEmpty
  <2> QED BY <1>1, <2>1, EmptyAfter
<1> QED BY <1>1, <1>2, <1>3

-----------------------------------------------------------------------------
(* The shape of the graph, through the calls that build it.                *)

(* How often e is in a list. *)
Places(list, e) == {i \in DOMAIN list : list[i] = e}
Count(list, e) == Cardinality(Places(list, e))
One(p) == IF p THEN 1 ELSE 0

(* What is in no place of a list is not in it.                             *)
LEMMA PlacesFinite ==
  ASSUME NEW S, NEW list \in Seq(S), NEW e
  PROVE  /\ IsFiniteSet(Places(list, e)) /\ Count(list, e) \in Nat
         /\ Count(list, e) = 0 <=> e \notin ToSet(list)
<1>1. IsFiniteSet(1 .. Len(list))
  BY FS_Interval
<1>2. Places(list, e) \subseteq 1 .. Len(list)
  BY DEF Places
<1>3. IsFiniteSet(Places(list, e))
  BY <1>1, <1>2, FS_Subset
<1>4. Count(list, e) \in Nat /\ (Count(list, e) = 0 <=> Places(list, e) = {})
  BY <1>3, FS_CardinalityType, FS_EmptySet DEF Count
<1>5. Places(list, e) = {} <=> e \notin ToSet(list)
  BY DEF Places, ToSet
<1> QED BY <1>3, <1>4, <1>5

(* A list with x behind has x once more, and the rest as often.            *)
LEMMA CountAppend ==
  ASSUME NEW S, NEW list \in Seq(S), NEW x, NEW e
  PROVE  Count(Append(list, x), e) = Count(list, e) + One(x = e)
<1> DEFINE n == Len(list)
           longer == Append(list, x)
<1>1. /\ n \in Nat /\ DOMAIN list = 1 .. n /\ DOMAIN longer = 1 .. n + 1
      /\ \A i \in 1 .. n : longer[i] = list[i]
      /\ longer[n + 1] = x
  OBVIOUS
<1> HIDE DEF n, longer
<1>2. Places(longer, e) = IF x = e THEN Places(list, e) \cup {n + 1} ELSE Places(list, e)
  <2>1. 1 .. n + 1 = (1 .. n) \cup {n + 1}
    BY <1>1
  <2> QED BY <1>1, <2>1 DEF Places
<1>3. n + 1 \notin Places(list, e)
  BY <1>1 DEF Places
<1>4. IsFiniteSet(Places(list, e)) /\ Count(list, e) \in Nat
  BY PlacesFinite
<1>5. Count(longer, e) = Count(list, e) + One(x = e)
  <2> DEFINE P == Places(list, e)
  <2>1. IsFiniteSet(P) /\ n + 1 \notin P /\ Cardinality(P) \in Nat
    BY <1>3, <1>4 DEF Count
  <2>2. Cardinality(P \cup {n + 1}) = Cardinality(P) + 1
    <3> HIDE DEF P
    <3> QED BY <2>1, FS_AddElement
  <2>3. CASE x = e
    BY <1>2, <2>2, <2>3 DEF Count, One
  <2>4. CASE x # e
    BY <1>2, <1>4, <2>4 DEF Count, One
  <2> QED BY <2>3, <2>4
<1> QED BY <1>5 DEF longer

(* What the elements of a list are not is nowhere in it.                   *)
LEMMA CountNone ==
  ASSUME NEW S, NEW list \in Seq(S), NEW e, e \notin S
  PROVE  Count(list, e) = 0
<1>1. e \notin ToSet(list)
  BY DEF ToSet
<1> QED BY <1>1, PlacesFinite

EdgeType(n) == [from : 1 .. n, to : 1 .. n, weight : Weight]

ShapeOf(g) ==
  /\ g = [graphType |-> g.graphType, incident |-> g.incident, edges |-> g.edges]
  /\ g.edges \in Seq(EdgeType(Len(g.incident)))
  /\ g.incident \in Seq(Seq(1 .. Len(g.edges)))
  /\ Len(g.incident) <= MaxVertices
  /\ \A v \in 1 .. Len(g.incident), e \in 1 .. Len(g.edges) :
       Count(g.incident[v], e)
         = One(g.edges[e].from = v) + One(g.graphType = "undirected" /\ g.edges[e].to = v)

GraphShape == graph # NULL => ShapeOf(graph)

(* graph_new: the empty graph.                                             *)
LEMMA NewShape ==
  ASSUME NEW type
  PROVE  ShapeOf([graphType |-> type, incident |-> <<>>, edges |-> <<>>])
BY GraphAssumption DEF ShapeOf

(* A function on 1 .. n is a sequence.                                     *)
LEMMA FunctionIsSeq ==
  ASSUME NEW S, NEW n \in Nat, NEW f \in [1 .. n -> S]
  PROVE  f \in Seq(S) /\ Len(f) = n
OBVIOUS

(* A sequence over a set is one over a larger set.                         *)
LEMMA WiderSeq ==
  ASSUME NEW S, NEW T, S \subseteq T, NEW s \in Seq(S)
  PROVE  s \in Seq(T)
OBVIOUS

(* graph_add_new_vertex: the new vertex has no edge, and no edge it.       *)
LEMMA VertexShape ==
  ASSUME NEW g, ShapeOf(g), Len(g.incident) < MaxVertices
  PROVE  ShapeOf([graphType |-> g.graphType, incident |-> Append(g.incident, <<>>),
                  edges |-> g.edges])
<1> DEFINE n == Len(g.incident)
           inc == Append(g.incident, <<>>)
           E == 1 .. Len(g.edges)
<1>1. n \in Nat /\ g.incident \in Seq(Seq(E)) /\ g.edges \in Seq(EdgeType(n))
  BY DEF ShapeOf
<1>2. <<>> \in Seq(E)
  OBVIOUS
<1>3. /\ inc \in Seq(Seq(E)) /\ Len(inc) = n + 1
      /\ \A v \in 1 .. n : inc[v] = g.incident[v]
      /\ inc[n + 1] = <<>>
  BY <1>1, <1>2
<1>4. EdgeType(n) \subseteq EdgeType(n + 1)
  BY <1>1 DEF EdgeType
<1>5. g.edges \in Seq(EdgeType(n + 1))
  BY <1>1, <1>4, WiderSeq
<1>6. ASSUME NEW v \in 1 .. n + 1, NEW e \in E
      PROVE  Count(inc[v], e)
         = One(g.edges[e].from = v) + One(g.graphType = "undirected" /\ g.edges[e].to = v)
  <2>1. CASE v \in 1 .. n
    BY <2>1, <1>3 DEF ShapeOf
  <2>2. CASE v = n + 1
    <3>1. g.edges[e].from \in 1 .. n /\ g.edges[e].to \in 1 .. n
      <4>1. g.edges[e] \in EdgeType(n)
        BY <1>1
      <4> QED BY <4>1 DEF EdgeType
    <3>2. g.edges[e].from # v /\ g.edges[e].to # v
      BY <3>1, <2>2, <1>1
    <3>3. Count(inc[v], e) = 0
      <4>1. Places(<<>>, e) = {}
        BY DEF Places
      <4>2. Count(<<>>, e) = 0
        BY <4>1, FS_EmptySet DEF Count
      <4> QED BY <4>2, <1>3, <2>2
    <3>4. One(g.edges[e].from = v) = 0
          /\ One(g.graphType = "undirected" /\ g.edges[e].to = v) = 0
      BY <3>2 DEF One
    <3> QED BY <3>3, <3>4
  <2>3. v \in 1 .. n \/ v = n + 1
    <3>1. n \in Nat /\ v \in 1 .. n + 1
      BY <1>1
    <3> HIDE DEF n
    <3> QED BY <3>1
  <2> QED BY <2>1, <2>2, <2>3
<1>7. Len(inc) <= MaxVertices
  BY <1>1, <1>3, GraphAssumption
<1> HIDE DEF inc, n
<1>8. ShapeOf([graphType |-> g.graphType, incident |-> inc, edges |-> g.edges])
  BY <1>3, <1>5, <1>6, <1>7 DEF ShapeOf
<1> QED BY <1>8 DEF inc

Attached(lists, s, t, both, e) ==
  LET atSource == [lists EXCEPT ![s] = Append(@, e)]
  IN  IF both THEN [atSource EXCEPT ![t] = Append(@, e)] ELSE atSource

(* graph_add_new_edge: the number of the new edge is in no list before.    *)
LEMMA EdgeShape ==
  ASSUME NEW g, ShapeOf(g), NEW s \in 1 .. Len(g.incident),
         NEW t \in 1 .. Len(g.incident), NEW w \in Weight,
         NEW inc, NEW both, both = (g.graphType = "undirected"),
         inc = Attached(g.incident, s, t, both, Len(g.edges) + 1)
  PROVE  ShapeOf([graphType |-> g.graphType, incident |-> inc,
                  edges |-> Append(g.edges, [from |-> s, to |-> t, weight |-> w])])
<1> DEFINE n == Len(g.incident)
           m == Len(g.edges)
           new == [from |-> s, to |-> t, weight |-> w]
           edges == Append(g.edges, new)
           Old == 1 .. m
           E == 1 .. m + 1
           atSource == [g.incident EXCEPT ![s] = Append(@, m + 1)]
<1>1. /\ n \in Nat /\ g.incident \in Seq(Seq(Old)) /\ g.edges \in Seq(EdgeType(n))
      /\ m \in Nat
  BY DEF ShapeOf
<1>2. new \in EdgeType(n)
  BY DEF EdgeType
<1>3. /\ edges \in Seq(EdgeType(n)) /\ Len(edges) = m + 1
      /\ \A e \in Old : edges[e] = g.edges[e]
      /\ edges[m + 1] = new
  BY <1>1, <1>2
<1>4. Old \subseteq E /\ m + 1 \in E /\ m + 1 \notin Old
  BY <1>1
<1>6. /\ DOMAIN g.incident = 1 .. n /\ Len(g.incident) = n
      /\ inc = IF both THEN [atSource EXCEPT ![t] = Append(@, m + 1)] ELSE atSource
      /\ s \in 1 .. n /\ t \in 1 .. n
  BY <1>1 DEF Attached
<1> HIDE DEF n, m, new, edges, Old, E
<1>5. \A v \in 1 .. n : g.incident[v] \in Seq(Old) /\ g.incident[v] \in Seq(E)
  <2> SUFFICES ASSUME NEW v \in 1 .. n PROVE g.incident[v] \in Seq(Old) /\ g.incident[v] \in Seq(E)
    OBVIOUS
  <2>1. g.incident[v] \in Seq(Old)
    BY <1>1, <1>6
  <2> QED BY <2>1, <1>4, WiderSeq
<1>7. /\ DOMAIN atSource = 1 .. n
      /\ \A v \in 1 .. n : atSource[v] = IF v = s THEN Append(g.incident[v], m + 1) ELSE g.incident[v]
  BY <1>6
<1>8. /\ DOMAIN inc = 1 .. n
      /\ \A v \in 1 .. n :
           inc[v] = IF both /\ v = t THEN Append(atSource[v], m + 1) ELSE atSource[v]
  <2>1. inc = IF both THEN [atSource EXCEPT ![t] = Append(@, m + 1)] ELSE atSource
    BY <1>6
  <2> HIDE DEF atSource
  <2>2. CASE both
    BY <1>6, <1>7, <2>1, <2>2
  <2>3. CASE ~both
    BY <1>7, <2>1, <2>3
  <2> QED BY <2>2, <2>3
<1> HIDE DEF atSource
<1>0. \A list \in Seq(E) : Append(list, m + 1) \in Seq(E)
  BY <1>4
<1>9. \A v \in 1 .. n : atSource[v] \in Seq(E)
  BY <1>0, <1>5, <1>7
<1>10. \A v \in 1 .. n : inc[v] \in Seq(E)
  BY <1>0, <1>8, <1>9
<1>11. inc \in Seq(Seq(E)) /\ Len(inc) = n
  <2>1. inc = [v \in 1 .. n |-> inc[v]]
    <3>1. inc = [v \in DOMAIN inc |-> inc[v]]
      BY <1>6 DEF atSource
    <3> QED BY <3>1, <1>8
  <2>2. \A v \in 1 .. n : inc[v] \in Seq(E)
    BY <1>10
  <2>3. inc \in [1 .. n -> Seq(E)]
    BY <2>1, <2>2
  <2> DEFINE Lists == Seq(E)
  <2>4. inc \in [1 .. n -> Lists]
    BY <2>3
  <2>0. n \in Nat
    BY <1>1
  <2> HIDE DEF Lists
  <2>5. inc \in Seq(Lists) /\ Len(inc) = n
    BY <2>0, <2>4
  <2> QED BY <2>5 DEF Lists
<1>12. ASSUME NEW v \in 1 .. n, NEW e \in E
       PROVE  Count(inc[v], e) = Count(g.incident[v], e)
                + One(v = s /\ m + 1 = e) + One(both /\ v = t /\ m + 1 = e)
  <2>1. Count(g.incident[v], e) \in Nat /\ Count(atSource[v], e) \in Nat
    BY <1>5, <1>9, PlacesFinite
  <2>2. Count(atSource[v], e) = Count(g.incident[v], e) + One(v = s /\ m + 1 = e)
    <3>1. CASE v = s
      <4>1. Count(Append(g.incident[v], m + 1), e)
              = Count(g.incident[v], e) + One(m + 1 = e)
        BY <1>5, CountAppend
      <4> QED BY <3>1, <4>1, <1>7 DEF One
    <3>2. CASE v # s
      BY <3>2, <1>7, <2>1 DEF One
    <3> QED BY <3>1, <3>2
  <2>3. Count(inc[v], e) = Count(atSource[v], e) + One(both /\ v = t /\ m + 1 = e)
    <3>1. CASE both /\ v = t
      <4>1. Count(Append(atSource[v], m + 1), e)
              = Count(atSource[v], e) + One(m + 1 = e)
        BY <1>9, CountAppend
      <4> QED BY <3>1, <4>1, <1>8 DEF One
    <3>2. CASE ~(both /\ v = t)
      <4>1. inc[v] = atSource[v] /\ One(both /\ v = t /\ m + 1 = e) = 0
        BY <3>2, <1>8 DEF One
      <4> QED BY <4>1, <2>1
    <3> QED BY <3>1, <3>2
  <2> QED BY <2>2, <2>3
<1>13. ASSUME NEW v \in 1 .. n, NEW e \in E
       PROVE  Count(inc[v], e)
                = One(edges[e].from = v) + One(both /\ edges[e].to = v)
  <2>1. CASE e = m + 1
    <3>1. edges[e].from = s /\ edges[e].to = t
      BY <2>1, <1>3 DEF new
    <3>2. Count(g.incident[v], e) = 0
      BY <2>1, <1>4, <1>5, CountNone
    <3>3. Count(inc[v], e) = Count(g.incident[v], e)
                + One(v = s /\ m + 1 = e) + One(both /\ v = t /\ m + 1 = e)
      BY <1>12
    <3>4. One(v = s /\ m + 1 = e) = One(edges[e].from = v)
          /\ One(both /\ v = t /\ m + 1 = e) = One(both /\ edges[e].to = v)
      BY <2>1, <3>1 DEF One
    <3> QED BY <3>2, <3>3, <3>4 DEF One
  <2>2. CASE e # m + 1
    <3>1. e \in Old
      BY <2>2, <1>1 DEF Old, E
    <3>2. Count(g.incident[v], e) = One(edges[e].from = v) + One(both /\ edges[e].to = v)
      <4>1. Count(g.incident[v], e)
              = One(g.edges[e].from = v) + One(g.graphType = "undirected" /\ g.edges[e].to = v)
        BY <3>1 DEF ShapeOf, n, m, Old
      <4> QED BY <4>1, <3>1, <1>3 DEF One
    <3>3. Count(inc[v], e) = Count(g.incident[v], e)
                + One(v = s /\ m + 1 = e) + One(both /\ v = t /\ m + 1 = e)
      BY <1>12
    <3>4. One(v = s /\ m + 1 = e) = 0 /\ One(both /\ v = t /\ m + 1 = e) = 0
      BY <2>2 DEF One
    <3> QED BY <3>2, <3>3, <3>4 DEF One
  <2> QED BY <2>1, <2>2
<1>14. n <= MaxVertices
  BY DEF ShapeOf, n
<1>15. ShapeOf([graphType |-> g.graphType, incident |-> inc, edges |-> edges])
  <2> DEFINE h == [graphType |-> g.graphType, incident |-> inc, edges |-> edges]
  <2>1. h.graphType = g.graphType /\ h.incident = inc /\ h.edges = edges
    OBVIOUS
  <2> HIDE DEF h
  <2>2. ASSUME NEW v \in 1 .. n, NEW e \in 1 .. m + 1
        PROVE  Count(inc[v], e)
            = One(edges[e].from = v) + One(h.graphType = "undirected" /\ edges[e].to = v)
    <3>1. Count(inc[v], e) = One(edges[e].from = v) + One(both /\ edges[e].to = v)
      BY <1>13 DEF E
    <3>2. (both /\ edges[e].to = v) <=> (h.graphType = "undirected" /\ edges[e].to = v)
      BY <2>1
    <3> QED BY <3>1, <3>2 DEF One
  <2>3. inc \in Seq(Seq(1 .. m + 1))
    BY <1>11 DEF E
  <2>4. h = [graphType |-> h.graphType, incident |-> h.incident, edges |-> h.edges]
    BY <2>1 DEF h
  <2>5. ShapeOf(h)
    <3>1. Len(h.incident) = n /\ Len(h.edges) = m + 1
      BY <2>1, <1>3, <1>11
    <3>2. h.edges \in Seq(EdgeType(Len(h.incident))) /\ Len(h.incident) <= MaxVertices
      BY <3>1, <2>1, <1>3, <1>14
    <3>3. h.incident \in Seq(Seq(1 .. Len(h.edges)))
      BY <3>1, <2>1, <2>3
    <3>4. \A v \in 1 .. Len(h.incident), e \in 1 .. Len(h.edges) :
            Count(h.incident[v], e) = One(h.edges[e].from = v)
              + One(h.graphType = "undirected" /\ h.edges[e].to = v)
      <4> SUFFICES ASSUME NEW v \in 1 .. n, NEW e \in 1 .. m + 1
            PROVE  Count(h.incident[v], e) = One(h.edges[e].from = v)
              + One(h.graphType = "undirected" /\ h.edges[e].to = v)
        BY <3>1
      <4>1. h.incident[v] = inc[v] /\ h.edges[e] = edges[e]
        BY <2>1
      <4>2. Count(inc[v], e)
            = One(edges[e].from = v) + One(h.graphType = "undirected" /\ edges[e].to = v)
        BY <2>2
      <4> QED BY <4>1, <4>2 DEF One
    <3> QED BY <2>4, <3>2, <3>3, <3>4 DEF ShapeOf
  <2> QED BY <2>5 DEF h
<1> QED BY <1>15 DEF edges, new

-----------------------------------------------------------------------------
(* What the shape says of the arcs: the list of a vertex gives every arc   *)
(* out of it and no other.                                                 *)

(* The lists and the edges have the types the algorithms take for granted. *)
LEMMA GraphFacts ==
  ASSUME GraphShape, graph # NULL
  PROVE  /\ VertexNum \in Nat /\ Vertices = 1 .. VertexNum /\ Vertices \subseteq Value
         /\ DOMAIN graph.edges = 1 .. Len(graph.edges)
         /\ \A v \in Vertices : graph.incident[v] \in Seq(DOMAIN graph.edges)
         /\ \A e \in DOMAIN graph.edges :
              graph.edges[e].from \in Vertices /\ graph.edges[e].to \in Vertices
<1>1. ShapeOf(graph)
  BY DEF GraphShape
<1> DEFINE n == VertexNum
           E == 1 .. Len(graph.edges)
<1>2. /\ graph.incident \in Seq(Seq(E)) /\ graph.edges \in Seq(EdgeType(n)) /\ n <= MaxVertices
  BY <1>1 DEF ShapeOf, VertexNum
<1>3. n \in Nat /\ Vertices = 1 .. n /\ DOMAIN graph.edges = E
  BY <1>2 DEF VertexNum, Vertices
<1>4. \A v \in 1 .. n : graph.incident[v] \in Seq(E)
  BY <1>2 DEF VertexNum
<1>5. \A e \in E : graph.edges[e] \in EdgeType(n)
  BY <1>2
<1>6. 1 .. n \subseteq Value
  BY <1>2, <1>3, GraphAssumption
<1> QED BY <1>3, <1>4, <1>5, <1>6 DEF EdgeType

(* The arcs are the edges, of an undirected graph both ways.               *)
LEMMA ArcsAre ==
  /\ \A e \in DOMAIN graph.edges : <<graph.edges[e].from, graph.edges[e].to>> \in Arcs
  /\ Undirected => \A e \in DOMAIN graph.edges : <<graph.edges[e].to, graph.edges[e].from>> \in Arcs
  /\ \A a \in Arcs : \E e \in DOMAIN graph.edges :
       \/ a = <<graph.edges[e].from, graph.edges[e].to>>
       \/ Undirected /\ a = <<graph.edges[e].to, graph.edges[e].from>>
<1> DEFINE forward == {<<graph.edges[e].from, graph.edges[e].to>> : e \in DOMAIN graph.edges}
<1>1. Arcs = IF Undirected THEN forward \cup {<<a[2], a[1]>> : a \in forward} ELSE forward
  BY DEF Arcs
<1>2. \A e \in DOMAIN graph.edges : <<graph.edges[e].from, graph.edges[e].to>> \in forward
  OBVIOUS
<1>3. \A a \in forward : \E e \in DOMAIN graph.edges : a = <<graph.edges[e].from, graph.edges[e].to>>
  OBVIOUS
<1> HIDE DEF forward
<1>4. \A x, y : <<x, y>>[1] = x /\ <<x, y>>[2] = y
  OBVIOUS
<1>5. Undirected => \A e \in DOMAIN graph.edges : <<graph.edges[e].to, graph.edges[e].from>> \in Arcs
  <2> SUFFICES ASSUME Undirected, NEW e \in DOMAIN graph.edges
        PROVE <<graph.edges[e].to, graph.edges[e].from>> \in Arcs
    OBVIOUS
  <2> DEFINE a == <<graph.edges[e].from, graph.edges[e].to>>
  <2>1. a \in forward /\ a[1] = graph.edges[e].from /\ a[2] = graph.edges[e].to
    BY <1>2
  <2>2. <<a[2], a[1]>> \in Arcs
    BY <1>1, <2>1
  <2> QED BY <2>1, <2>2
<1>6. ASSUME NEW a \in Arcs
      PROVE  \E e \in DOMAIN graph.edges :
               \/ a = <<graph.edges[e].from, graph.edges[e].to>>
               \/ Undirected /\ a = <<graph.edges[e].to, graph.edges[e].from>>
  <2>1. CASE a \in forward
    BY <2>1, <1>3
  <2>2. CASE a \notin forward
    <3>1. Undirected /\ \E c \in forward : a = <<c[2], c[1]>>
      BY <2>2, <1>1
    <3>2. PICK c \in forward : a = <<c[2], c[1]>>
      BY <3>1
    <3>3. PICK e \in DOMAIN graph.edges : c = <<graph.edges[e].from, graph.edges[e].to>>
      BY <1>3
    <3>4. a = <<graph.edges[e].to, graph.edges[e].from>>
      BY <3>2, <3>3, <1>4
    <3> QED BY <3>1, <3>4
  <2> QED BY <2>1, <2>2
<1> QED BY <1>1, <1>2, <1>5, <1>6

(* The list of a vertex has the edges over which its arcs go. *)
LEMMA Listed ==
  ASSUME GraphShape, graph # NULL, NEW v \in Vertices, NEW e \in DOMAIN graph.edges
  PROVE  e \in ToSet(graph.incident[v])
           <=> graph.edges[e].from = v \/ (Undirected /\ graph.edges[e].to = v)
<1>1. v \in 1 .. Len(graph.incident) /\ e \in 1 .. Len(graph.edges)
      /\ graph.incident[v] \in Seq(DOMAIN graph.edges)
  BY GraphFacts DEF VertexNum
<1>2. Count(graph.incident[v], e)
        = One(graph.edges[e].from = v) + One(Undirected /\ graph.edges[e].to = v)
  BY <1>1 DEF GraphShape, ShapeOf, Undirected
<1>3. Count(graph.incident[v], e) = 0 <=> e \notin ToSet(graph.incident[v])
  BY <1>1, PlacesFinite
<1> QED BY <1>2, <1>3 DEF One

(* The list of a vertex gives the arcs out of it, through Neighbor.        *)
LEMMA ArcsListed ==
  ASSUME GraphShape, graph # NULL, NEW v \in Vertices
  PROVE  /\ \A e \in ToSet(graph.incident[v]) :
              /\ e \in DOMAIN graph.edges
              /\ Neighbor(v, e) \in Vertices
              /\ <<v, Neighbor(v, e)>> \in Arcs
         /\ \A a \in Arcs : a[1] = v =>
              \E e \in ToSet(graph.incident[v]) : a = <<v, Neighbor(v, e)>>
<1>1. ASSUME NEW e \in ToSet(graph.incident[v])
      PROVE  /\ e \in DOMAIN graph.edges
             /\ Neighbor(v, e) \in Vertices
             /\ <<v, Neighbor(v, e)>> \in Arcs
  <2>1. e \in DOMAIN graph.edges
    <3>1. graph.incident[v] \in Seq(DOMAIN graph.edges)
      BY GraphFacts
    <3> QED BY <3>1 DEF ToSet
  <2>2. graph.edges[e].from = v \/ (Undirected /\ graph.edges[e].to = v)
    BY <2>1, Listed
  <2>3. graph.edges[e].from \in Vertices /\ graph.edges[e].to \in Vertices
    BY <2>1, GraphFacts
  <2>4. /\ <<graph.edges[e].from, graph.edges[e].to>> \in Arcs
        /\ Undirected => <<graph.edges[e].to, graph.edges[e].from>> \in Arcs
    BY <2>1, ArcsAre
  <2> QED BY <2>1, <2>2, <2>3, <2>4 DEF Neighbor
<1>2. ASSUME NEW a \in Arcs, a[1] = v
      PROVE  \E e \in ToSet(graph.incident[v]) : a = <<v, Neighbor(v, e)>>
  <2>1. PICK e \in DOMAIN graph.edges :
         \/ a = <<graph.edges[e].from, graph.edges[e].to>>
         \/ Undirected /\ a = <<graph.edges[e].to, graph.edges[e].from>>
    BY ArcsAre
  <2>2. \A x, y : <<x, y>>[1] = x /\ <<x, y>>[2] = y
    OBVIOUS
  <2>3. e \in ToSet(graph.incident[v])
    BY <2>1, <2>2, <1>2, Listed
  <2>4. a = <<v, Neighbor(v, e)>>
    <3>1. CASE a = <<graph.edges[e].from, graph.edges[e].to>>
      <4>1. graph.edges[e].from = v
        BY <3>1, <2>2, <1>2
      <4> QED BY <3>1, <4>1 DEF Neighbor
    <3>2. CASE Undirected /\ a = <<graph.edges[e].to, graph.edges[e].from>>
      <4>1. graph.edges[e].to = v
        BY <3>2, <2>2, <1>2
      <4> QED BY <3>2, <4>1 DEF Neighbor
    <3> QED BY <2>1, <3>1, <3>2
  <2> QED BY <2>3, <2>4
<1> QED BY <1>1, <1>2

-----------------------------------------------------------------------------
(* The word that calls and queue make, its pieces, and what they come to.  *)

Word(calls, q) ==
  [i \in 1 .. Len(calls) + Len(q) |->
     IF i <= Len(calls) THEN calls[i][1] ELSE q[i - Len(calls)]]
IsWord(w, calls, q) == w = Word(calls, q)

CallSeq(S) == Seq(S \X Nat)

(* The calls up to b have smaller numbers than no, those after it no. *)
Numbering(calls, no, b) ==
  /\ b \in 0 .. Len(calls)
  /\ \A i \in 1 .. b : calls[i][2] < no
  /\ \A i \in b + 1 .. Len(calls) : calls[i][2] = no

RootIs(start, no, b, w) ==
  /\ no = 0 => b = 0 /\ w[1] = start
  /\ no > 0 => w[b + 1] = Min(Vertices \ Part(w, 1, b))

Pieces(op, start, calls, no, w, len, b) ==
  /\ b < len
  /\ Numbering(calls, no, b)
  /\ \A k \in 0 .. no - 1 : PieceExact(op, start, calls, k)
  /\ ClosedUnder(Arcs, Part(w, 1, b))
  /\ RootIs(start, no, b, w)
  /\ Grown(Arcs, w, len, b, w[b + 1])

Ascending(level, len, b) == \A i, j \in b + 1 .. len : i <= j => level[i] <= level[j]

(* Breadth first the levels ascend, and the vertices queued are on the     *)
(* level of the m-th, the current one, or one below.                       *)
Levels(level, w, len, b, m) ==
  /\ Stepwise(Arcs, level, w, len, b)
  /\ Ascending(level, len, b)
  /\ m > b => \A i \in b + 1 .. len : level[i] <= level[m] + 1
  /\ m = b => len = b + 1

(* The word, place by place.                                               *)
LEMMA WordType ==
  ASSUME NEW S, NEW calls \in CallSeq(S), NEW q \in Seq(S), NEW w, IsWord(w, calls, q)
  PROVE  /\ \A i \in 1 .. Len(calls) :
              w[i] = calls[i][1] /\ calls[i][1] \in S /\ calls[i][2] \in Nat
         /\ \A i \in 1 .. Len(q) : w[Len(calls) + i] = q[i]
         /\ w \in [1 .. Len(calls) + Len(q) -> S]
         /\ Len(calls) \in Nat /\ Len(q) \in Nat
<1>1. /\ Len(calls) \in Nat
      /\ \A i \in 1 .. Len(calls) : calls[i][1] \in S /\ calls[i][2] \in Nat
  BY DEF CallSeq
<1> DEFINE n == Len(calls)
           m == Len(q)
           f(i) == calls[i][1]
           g(i) == q[i]
<1>2. w = [i \in 1 .. n + m |-> IF i <= n THEN f(i) ELSE g(i - n)]
  BY DEF Word, IsWord
<1>3. n \in Nat /\ \A i \in 1 .. n : f(i) \in S
  BY <1>1
<1>4. m \in Nat /\ \A i \in 1 .. m : g(i) \in S
  OBVIOUS
<1> HIDE DEF n, f, m, g
<1>5. \A i \in 1 .. n : w[i] = f(i)
  <2>1. \A i \in 1 .. n : i <= n /\ i \in 1 .. n + m
    BY <1>3, <1>4
  <2> QED BY <1>2, <2>1
<1>6. \A i \in 1 .. m : w[n + i] = g(i)
  <2>1. \A i \in 1 .. m : ~(n + i <= n) /\ n + i \in 1 .. n + m /\ (n + i) - n = i
    BY <1>3, <1>4
  <2> QED BY <1>2, <2>1
<1>7. w \in [1 .. n + m -> S]
  <2> SUFFICES ASSUME NEW i \in 1 .. n + m PROVE w[i] \in S
    BY <1>2
  <2>1. CASE i <= n
    <3>1. i \in 1 .. n
      BY <2>1
    <3> QED BY <3>1, <1>3, <1>5
  <2>2. CASE ~(i <= n)
    <3>1. i - n \in 1 .. m /\ n + (i - n) = i
      BY <2>2, <1>3, <1>4
    <3> QED BY <3>1, <1>4, <1>6
  <2> QED BY <2>1, <2>2
<1> QED BY <1>1, <1>4, <1>5, <1>6, <1>7 DEF n, f, m, g

(* When the queue is empty the word is that of the calls.                  *)
LEMMA WordOfCalls ==
  ASSUME NEW S, NEW calls \in CallSeq(S), NEW w, IsWord(w, calls, <<>>)
  PROVE  /\ \A i \in 1 .. Len(calls) :
              w[i] = calls[i][1] /\ calls[i][1] \in S /\ calls[i][2] \in Nat
         /\ w \in [1 .. Len(calls) -> S]
         /\ Len(calls) \in Nat /\ DOMAIN calls = 1 .. Len(calls)
<1> DEFINE q == <<>>
<1>1. q \in Seq(S) /\ Len(q) = 0
  OBVIOUS
<1>w. IsWord(w, calls, q)
  OBVIOUS
<1> HIDE DEF q
<1>t. /\ \A i \in 1 .. Len(calls) :
           w[i] = calls[i][1] /\ calls[i][1] \in S /\ calls[i][2] \in Nat
      /\ w \in [1 .. Len(calls) + Len(q) -> S]
  BY <1>1, <1>w, WordType
<1>2. Len(calls) \in Nat /\ DOMAIN calls = 1 .. Len(calls)
  BY DEF CallSeq
<1>3. Len(calls) + 0 = Len(calls)
  BY <1>2
<1> QED BY <1>1, <1>2, <1>3, <1>t

(* No more different vertices than there are.                              *)
LEMMA DistinctBound ==
  ASSUME NEW n \in Nat, NEW len \in Nat, NEW w \in [1 .. len -> 1 .. n], Distinct(w, len)
  PROVE  len <= n
<1>1. w \in Injection(1 .. len, 1 .. n)
  BY DEF Injection, IsInjective, Distinct
<1>2. IsFiniteSet(1 .. n) /\ Cardinality(1 .. n) = n /\ Cardinality(1 .. len) = len
  BY FS_Interval
<1>3. Cardinality(1 .. len) <= Cardinality(1 .. n)
  BY <1>1, <1>2, FS_Injection
<1> QED BY <1>2, <1>3

(* The vertices with the current number are those of the current piece.    *)
LEMMA NumberedIs ==
  ASSUME NEW S, NEW calls \in CallSeq(S), NEW no \in Nat, NEW b,
         Numbering(calls, no, b), NEW w, IsWord(w, calls, <<>>)
  PROVE  /\ Numbered(calls, no) = Part(w, b + 1, Len(calls))
         /\ Earlier(calls, no) = Part(w, 1, b)
<1>1. /\ \A i \in 1 .. Len(calls) : w[i] = calls[i][1] /\ calls[i][2] \in Nat
      /\ Len(calls) \in Nat /\ DOMAIN calls = 1 .. Len(calls)
  BY WordOfCalls
<1>2. {j \in DOMAIN calls : calls[j][2] = no} = b + 1 .. Len(calls)
  BY <1>1 DEF Numbering
<1>3. {j \in DOMAIN calls : calls[j][2] < no} = 1 .. b
  BY <1>1 DEF Numbering
<1>4. b + 1 .. Len(calls) \subseteq 1 .. Len(calls) /\ 1 .. b \subseteq 1 .. Len(calls)
  BY <1>1 DEF Numbering
<1>5. Numbered(calls, no) = Part(w, b + 1, Len(calls))
  BY <1>1, <1>2, <1>4 DEF Numbered, Part
<1>6. Earlier(calls, no) = Part(w, 1, b)
  BY <1>1, <1>3, <1>4 DEF Earlier, Part
<1> QED BY <1>5, <1>6

(* The distance is the least radius.                                       *)
LEMMA DistanceIs ==
  ASSUME NEW r, NEW u, NEW n \in Nat, n = VertexNum, NEW l \in 0 .. n,
         \A k \in 0 .. n : u \in Within(r)[k] <=> l <= k
  PROVE  Distance(r, u) = l
<1> DEFINE D == {k \in 0 .. n : u \in Within(r)[k]}
<1>1. D = l .. n
  OBVIOUS
<1>2. Min(D) = l
  <2>1. l \in l .. n /\ \A y \in l .. n : l <= y
    OBVIOUS
  <2>2. \A x \in l .. n : (\A y \in l .. n : x <= y) => x = l
    OBVIOUS
  <2> QED BY <1>1, <2>1, <2>2 DEF Min
<1> QED BY <1>2 DEF Distance

(* When everything met has been looked at, the piece is what its number    *)
(* says.                                                                   *)
LEMMA PieceEnds ==
  ASSUME GraphShape, graph # NULL, NEW op, NEW start,
         NEW calls \in CallSeq(Vertices), NEW no \in Nat, NEW b,
         NEW w, IsWord(w, calls, <<>>), NEW len, len = Len(calls),
         Distinct(w, len), Pieces(op, start, calls, no, w, len, b),
         ClosedUnder(Arcs, Part(w, 1, len)),
         op = "bfs" =>
           \E level : Levels(level, w, len, b, len) /\ AllSeen(Arcs, level, w, len, b)
  PROVE  PieceExact(op, start, calls, no)
<1> DEFINE n == VertexNum
           r == w[b + 1]
<1>1. n \in Nat /\ Vertices = 1 .. n
  BY GraphFacts
<1>2. /\ len \in Nat /\ w \in [1 .. len -> Vertices] /\ DOMAIN calls = 1 .. len
      /\ \A i \in 1 .. len : w[i] = calls[i][1]
  BY WordOfCalls
<1> HIDE DEF n
<1>3. len \in 0 .. n
  <2>1. w \in [1 .. len -> 1 .. n]
    BY <1>1, <1>2
  <2>2. len <= n
    BY <1>1, <1>2, <2>1, DistinctBound
  <2> QED BY <1>1, <1>2, <2>2
<1>4. b \in Nat /\ b < len /\ b \in 0 .. Len(calls) /\ Numbering(calls, no, b)
  BY <1>2 DEF Pieces, Numbering
<1>5. Numbered(calls, no) = Part(w, b + 1, len) /\ Earlier(calls, no) = Part(w, 1, b)
  BY <1>4, NumberedIs
<1>6. RootOf(start, calls, no) = r
  <2>1. CASE no = 0
    BY <2>1, <1>5 DEF RootOf, Pieces, RootIs
  <2>2. CASE no > 0
    BY <1>5, <2>2 DEF RootOf, Pieces, RootIs
  <2> QED BY <2>1, <2>2
<1>7. IsBall(Within(r), r, n, Arcs)
  BY <1>1, WithinIs DEF n
<1>s. Span(n, len, b) /\ Grown(Arcs, w, len, b, r)
  BY <1>1, <1>3, <1>4 DEF Span, Pieces
<1> HIDE DEF r
<1>8. Part(w, b + 1, len) = Within(r)[n] \ Part(w, 1, b)
  BY <1>7, <1>s, PieceIsReached
<1>9. ASSUME op = "bfs", NEW i \in DOMAIN calls, NEW j \in DOMAIN calls,
             i < j, calls[i][2] = no, calls[j][2] = no
      PROVE  Distance(r, calls[i][1]) <= Distance(r, calls[j][1])
  <2>1. PICK level : Levels(level, w, len, b, len) /\ AllSeen(Arcs, level, w, len, b)
    BY <1>9
  <2>2. \A k \in b + 1 .. len :
          level[k] \in 0 .. n /\ \A d \in 0 .. n : w[k] \in Within(r)[d] <=> level[k] <= d
    <3>1. Stepwise(Arcs, level, w, len, b) /\ ClosedUnder(Arcs, Part(w, 1, b))
      BY <2>1 DEF Levels, Pieces
    <3> QED BY <1>7, <1>s, <2>1, <3>1, LevelIsDistance
  <2>3. i \in b + 1 .. len /\ j \in b + 1 .. len
    <3>1. i \in 1 .. len /\ j \in 1 .. len
      BY <1>2
    <3>2. \A k \in 1 .. b : calls[k][2] < no
      BY <1>4 DEF Numbering
    <3>3. i \notin 1 .. b /\ j \notin 1 .. b
      BY <3>2, <1>9
    <3> QED BY <3>1, <3>3, <1>4, <1>2
  <2>4. level[i] <= level[j]
    BY <2>1, <2>3, <1>9 DEF Levels, Ascending
  <2>5. Distance(r, w[i]) = level[i] /\ Distance(r, w[j]) = level[j]
    BY <2>2, <2>3, <1>1, DistanceIs DEF n
  <2>6. w[i] = calls[i][1] /\ w[j] = calls[j][1]
    BY <1>2
  <2> QED BY <2>4, <2>5, <2>6
<1> QED BY <1>5, <1>6, <1>8, <1>9 DEF PieceExact, Reached, n

-----------------------------------------------------------------------------
(* The word when a vertex is queued, and when one is taken from the queue. *)

(* w2 is w with v behind it. *)
Longer(w2, w, len, v) == (\A i \in 1 .. len : w2[i] = w[i]) /\ w2[len + 1] = v

(* A vertex queued is added at the end of the word.                        *)
LEMMA WordQueued ==
  ASSUME NEW S, NEW calls \in CallSeq(S), NEW q \in Seq(S), NEW v \in S
  PROVE  Longer(Word(calls, Append(q, v)), Word(calls, q), Len(calls) + Len(q), v)
<1> DEFINE p == Append(q, v)
           w == Word(calls, q)
           w2 == Word(calls, p)
           n == Len(calls)
           m == Len(q)
<1>1. p \in Seq(S) /\ Len(p) = m + 1 /\ (\A i \in 1 .. m : p[i] = q[i]) /\ p[m + 1] = v
  OBVIOUS
<1>2. IsWord(w, calls, q) /\ IsWord(w2, calls, p)
  BY DEF IsWord
<1> HIDE DEF p, w, w2
<1>3. /\ \A i \in 1 .. n : w[i] = calls[i][1]
      /\ \A i \in 1 .. m : w[n + i] = q[i]
      /\ n \in Nat /\ m \in Nat
  BY <1>2, WordType
<1>4. /\ \A i \in 1 .. n : w2[i] = calls[i][1]
      /\ \A i \in 1 .. m + 1 : w2[n + i] = p[i]
  <2>1. /\ \A i \in 1 .. n : w2[i] = calls[i][1]
        /\ \A i \in 1 .. Len(p) : w2[n + i] = p[i]
    BY <1>1, <1>2, WordType
  <2>2. Len(p) = m + 1
    BY <1>1
  <2> HIDE DEF n, m
  <2> QED BY <2>1, <2>2
<1> HIDE DEF n, m
<1>5. ASSUME NEW i \in 1 .. n + m PROVE w2[i] = w[i]
  <2>1. CASE i <= n
    BY <2>1, <1>3, <1>4
  <2>2. CASE ~(i <= n)
    <3>1. PICK k \in 1 .. m : i = n + k
      <4>1. i - n \in 1 .. m /\ n + (i - n) = i
        BY <2>2, <1>3
      <4> QED BY <4>1
    <3>2. k \in 1 .. m + 1
      BY <1>3
    <3>3. w2[n + k] = p[k]
      BY <3>2, <1>4
    <3>4. w[n + k] = q[k] /\ p[k] = q[k]
      BY <1>1, <1>3 DEF m
    <3> QED BY <3>1, <3>3, <3>4
  <2> QED BY <2>1, <2>2
<1>6. w2[n + m + 1] = v
  <2>1. m + 1 \in 1 .. m + 1 /\ n + (m + 1) = n + m + 1
    BY <1>3
  <2> QED BY <2>1, <1>4, <1>1
<1> QED BY <1>5, <1>6 DEF Longer, w, w2, p, n, m

(* A vertex taken from the queue and called back for leaves the word as it *)
(* is.                                                                     *)
LEMMA WordVisited ==
  ASSUME NEW S, NEW calls \in CallSeq(S), NEW q \in Seq(S), q # <<>>, NEW no \in Nat
  PROVE  Word(Append(calls, <<Head(q), no>>), Tail(q)) = Word(calls, q)
<1> DEFINE v == Head(q)
           p == Tail(q)
           c == Append(calls, <<v, no>>)
           w == Word(calls, q)
           w2 == Word(c, p)
           n == Len(calls)
           m == Len(q)
<1>1. /\ p \in Seq(S) /\ Len(p) = m - 1 /\ m \in Nat /\ m > 0 /\ v = q[1] /\ v \in S
      /\ \A i \in 1 .. m - 1 : p[i] = q[i + 1]
  OBVIOUS
<1> HIDE DEF v, p, m
<1>2. /\ n \in Nat /\ Len(c) = n + 1 /\ c[n + 1] = <<v, no>> /\ c \in CallSeq(S)
      /\ \A i \in 1 .. n : c[i] = calls[i]
  BY <1>1 DEF CallSeq
<1>3. IsWord(w, calls, q) /\ IsWord(w2, c, p)
  BY DEF IsWord
<1> HIDE DEF w, w2
<1>4. /\ \A i \in 1 .. n : w[i] = calls[i][1]
      /\ \A i \in 1 .. m : w[n + i] = q[i]
      /\ w \in [1 .. n + m -> S]
  BY <1>3, WordType DEF m
<1> HIDE DEF c, n
<1>5. /\ \A i \in 1 .. n + 1 : w2[i] = c[i][1]
      /\ \A i \in 1 .. m - 1 : w2[(n + 1) + i] = p[i]
      /\ w2 \in [1 .. (n + 1) + (m - 1) -> S]
  <2>1. /\ \A i \in 1 .. Len(c) : w2[i] = c[i][1]
        /\ \A i \in 1 .. Len(p) : w2[Len(c) + i] = p[i]
        /\ w2 \in [1 .. Len(c) + Len(p) -> S]
    <3>1. c \in CallSeq(S)
      BY <1>2
    <3>2. p \in Seq(S)
      BY <1>1
    <3>3. IsWord(w2, c, p)
      BY <1>3
    <3> QED BY <3>1, <3>2, <3>3, WordType
  <2>2. Len(c) = n + 1 /\ Len(p) = m - 1
    BY <1>1, <1>2
  <2> QED BY <2>1, <2>2
<1>6. ASSUME NEW i \in 1 .. n + m PROVE w2[i] = w[i]
  <2>1. CASE i <= n
    <3>1. i \in 1 .. n /\ i \in 1 .. n + 1
      BY <2>1, <1>2
    <3> QED BY <3>1, <1>2, <1>4, <1>5
  <2>2. CASE i = n + 1
    <3>1. 1 \in 1 .. m /\ n + 1 \in 1 .. n + 1
      BY <1>1, <1>2
    <3>2. <<v, no>>[1] = v
      OBVIOUS
    <3> QED BY <2>2, <3>1, <3>2, <1>1, <1>2, <1>4, <1>5
  <2>3. CASE i > n + 1
    <3>1. i - (n + 1) \in 1 .. m - 1 /\ (n + 1) + (i - (n + 1)) = i
          /\ i - n \in 1 .. m /\ n + (i - n) = i /\ (i - (n + 1)) + 1 = i - n
      BY <2>3, <1>1, <1>2
    <3> QED BY <3>1, <1>1, <1>4, <1>5
  <2>4. i <= n \/ i = n + 1 \/ i > n + 1
    BY <1>2
  <2> QED BY <2>1, <2>2, <2>3, <2>4
<1>7. (n + 1) + (m - 1) = n + m
  BY <1>1, <1>2
<1>8. w2 = w
  <2>1. w \in [1 .. n + m -> S] /\ w2 \in [1 .. n + m -> S]
    BY <1>4, <1>5, <1>7
  <2>2. \A i \in 1 .. n + m : w2[i] = w[i]
    BY <1>6
  <2> DEFINE D == 1 .. n + m
  <2> HIDE DEF D
  <2>3. w \in [D -> S] /\ w2 \in [D -> S] /\ \A i \in D : w2[i] = w[i]
    BY <2>1, <2>2 DEF D
  <2> QED BY <2>3
<1> QED BY <1>8 DEF w, w2, c, p, v

(* The word is the vertices called back for and those queued.              *)
LEMMA WordParts ==
  ASSUME NEW S, NEW calls \in CallSeq(S), NEW q \in Seq(S), NEW w, IsWord(w, calls, q)
  PROVE  /\ Called(calls) = Part(w, 1, Len(calls))
         /\ ToSet(q) = Part(w, Len(calls) + 1, Len(calls) + Len(q))
         /\ Part(w, 1, Len(calls) + Len(q)) = Called(calls) \cup ToSet(q)
<1> DEFINE n == Len(calls)
           m == Len(q)
<1>1. /\ \A i \in 1 .. n : w[i] = calls[i][1]
      /\ \A i \in 1 .. m : w[n + i] = q[i]
      /\ n \in Nat /\ m \in Nat
  BY WordType
<1>2. DOMAIN calls = 1 .. n /\ DOMAIN q = 1 .. m
  BY DEF CallSeq
<1> HIDE DEF n, m
<1>3. Called(calls) = Part(w, 1, n)
  BY <1>1, <1>2 DEF Called, Part
<1>4. ToSet(q) = Part(w, n + 1, n + m)
  <2>1. ASSUME NEW i \in 1 .. m PROVE q[i] \in Part(w, n + 1, n + m)
    <3>1. n + i \in n + 1 .. n + m
      BY <1>1
    <3> QED BY <3>1, <1>1 DEF Part
  <2>2. ASSUME NEW i \in n + 1 .. n + m PROVE w[i] \in ToSet(q)
    <3>1. PICK k \in 1 .. m : i = n + k
      <4>1. i - n \in 1 .. m /\ n + (i - n) = i
        BY <1>1
      <4> QED BY <4>1
    <3>2. w[n + k] = q[k]
      BY <1>1
    <3>3. q[k] \in ToSet(q)
      BY <1>2 DEF ToSet
    <3> QED BY <3>1, <3>2, <3>3
  <2> QED BY <2>1, <2>2, <1>2 DEF Part, ToSet
<1>5. Part(w, 1, n + m) = Part(w, 1, n) \cup Part(w, n + 1, n + m)
  <2>1. 1 .. n + m = (1 .. n) \cup (n + 1 .. n + m)
    BY <1>1
  <2> QED BY <2>1 DEF Part
<1> QED BY <1>3, <1>4, <1>5 DEF n, m

(* The longer word has the same beginning.                                 *)
LEMMA LongerPart ==
  ASSUME NEW len \in Nat, NEW b \in 0 .. len, NEW w, NEW w2, NEW v, Longer(w2, w, len, v)
  PROVE  /\ Part(w2, 1, b) = Part(w, 1, b)
         /\ Part(w2, 1, len + 1) = Part(w, 1, len) \cup {v}
<1>1. \A i \in 1 .. b : i \in 1 .. len
  OBVIOUS
<1>2. Part(w2, 1, b) = Part(w, 1, b) /\ Part(w2, 1, len) = Part(w, 1, len)
  BY <1>1 DEF Part, Longer
<1>3. 1 .. len + 1 = (1 .. len) \cup {len + 1}
  OBVIOUS
<1>4. Part(w2, 1, len + 1) = Part(w2, 1, len) \cup {w2[len + 1]}
  BY <1>3 DEF Part
<1> QED BY <1>2, <1>4 DEF Longer

(* Nothing is twice in it, if the new vertex was not in it.                *)
LEMMA LongerDistinct ==
  ASSUME NEW len \in Nat, NEW w, NEW w2, NEW v, Longer(w2, w, len, v),
         Distinct(w, len), v \notin Part(w, 1, len)
  PROVE  Distinct(w2, len + 1)
<1> SUFFICES ASSUME NEW i \in 1 .. len + 1, NEW j \in 1 .. len + 1, w2[i] = w2[j]
    PROVE  i = j
  BY DEF Distinct
<1>1. \A k \in 1 .. len + 1 : k \in 1 .. len \/ k = len + 1
  OBVIOUS
<1>2. \A k \in 1 .. len : w2[k] = w[k] /\ w[k] # v
  BY DEF Longer, Part
<1>3. w2[len + 1] = v
  BY DEF Longer
<1>4. CASE i \in 1 .. len /\ j \in 1 .. len
  BY <1>4, <1>2 DEF Distinct
<1>5. CASE i = len + 1 \/ j = len + 1
  BY <1>5, <1>1, <1>2, <1>3
<1> QED BY <1>1, <1>4, <1>5

(* The piece has grown by a vertex with an arc from an earlier one.        *)
LEMMA LongerGrown ==
  ASSUME NEW arcs, NEW len \in Nat, NEW b \in Nat, b < len, NEW w, NEW w2, NEW v,
         Longer(w2, w, len, v), Grown(arcs, w, len, b, w[b + 1]),
         \E j \in b + 1 .. len : <<w[j], v>> \in arcs
  PROVE  Grown(arcs, w2, len + 1, b, w2[b + 1])
<1>1. \A i \in 1 .. len : w2[i] = w[i]
  BY DEF Longer
<1>2. w2[len + 1] = v
  BY DEF Longer
<1>3. ASSUME NEW i \in b + 2 .. len + 1
      PROVE  \E j \in b + 1 .. i - 1 : <<w2[j], w2[i]>> \in arcs
  <2>1. CASE i = len + 1
    <3>1. PICK j \in b + 1 .. len : <<w[j], v>> \in arcs
      OBVIOUS
    <3>2. j \in b + 1 .. i - 1 /\ j \in 1 .. len
      BY <2>1
    <3> QED BY <2>1, <3>1, <3>2, <1>1, <1>2
  <2>2. CASE i # len + 1
    <3>1. i \in b + 2 .. len /\ i \in 1 .. len
      BY <2>2
    <3>2. PICK j \in b + 1 .. i - 1 : <<w[j], w[i]>> \in arcs
      BY <3>1 DEF Grown
    <3>3. j \in 1 .. len
      BY <3>1
    <3> QED BY <3>1, <3>2, <3>3, <1>1
  <2> QED BY <2>1, <2>2
<1> QED BY <1>3 DEF Grown

-----------------------------------------------------------------------------
(* The pieces when a vertex is called back for, met, or made a root.       *)

(* One more call, field by field.                                          *)
LEMMA CallAppended ==
  ASSUME NEW S, NEW calls \in CallSeq(S), NEW v \in S, NEW no \in Nat,
         NEW c, c = Append(calls, <<v, no>>)
  PROVE  /\ c \in CallSeq(S) /\ Len(calls) \in Nat /\ Len(c) = Len(calls) + 1
         /\ DOMAIN calls = 1 .. Len(calls) /\ DOMAIN c = 1 .. Len(calls) + 1
         /\ \A i \in 1 .. Len(calls) : c[i] = calls[i]
         /\ c[Len(calls) + 1] = <<v, no>>
         /\ c[Len(calls) + 1][1] = v /\ c[Len(calls) + 1][2] = no
<1>1. /\ c \in CallSeq(S) /\ Len(calls) \in Nat /\ Len(c) = Len(calls) + 1
      /\ DOMAIN calls = 1 .. Len(calls) /\ DOMAIN c = 1 .. Len(calls) + 1
      /\ \A i \in 1 .. Len(calls) : c[i] = calls[i]
      /\ c[Len(calls) + 1] = <<v, no>>
  BY DEF CallSeq
<1>2. <<v, no>>[1] = v /\ <<v, no>>[2] = no
  OBVIOUS
<1>3. c[Len(calls) + 1][1] = v /\ c[Len(calls) + 1][2] = no
  BY <1>1, <1>2
<1> QED BY <1>1, <1>3

(* A call with another number changes nothing in a piece.                  *)
LEMMA PieceKept ==
  ASSUME NEW S, NEW calls \in CallSeq(S), NEW v \in S, NEW no \in Nat, NEW k, k # no,
         ~(no < k), NEW op, NEW start, PieceExact(op, start, calls, k),
         NEW c, c = Append(calls, <<v, no>>)
  PROVE  PieceExact(op, start, c, k)
<1> DEFINE n == Len(calls)
<1>1. /\ n \in Nat /\ DOMAIN calls = 1 .. n /\ DOMAIN c = 1 .. n + 1
      /\ \A i \in 1 .. n : c[i] = calls[i]
      /\ c[n + 1][2] = no
  BY CallAppended
<1> HIDE DEF n
<1>2. {j \in DOMAIN c : c[j][2] = k} = {j \in DOMAIN calls : calls[j][2] = k}
  BY <1>1
<1>3. {j \in DOMAIN c : c[j][2] < k} = {j \in DOMAIN calls : calls[j][2] < k}
  BY <1>1
<1>4. \A j \in DOMAIN calls : c[j] = calls[j]
  BY <1>1
<1>5. Numbered(c, k) = Numbered(calls, k)
  BY <1>2, <1>4 DEF Numbered
<1>6. Earlier(c, k) = Earlier(calls, k)
  BY <1>3, <1>4 DEF Earlier
<1>7. RootOf(start, c, k) = RootOf(start, calls, k)
  BY <1>6 DEF RootOf
<1>8. \A i \in DOMAIN c : c[i][2] = k => i \in DOMAIN calls /\ c[i] = calls[i]
  BY <1>2, <1>4
<1> QED BY <1>5, <1>6, <1>7, <1>8, SMTT(20) DEF PieceExact

(* A call with the current number keeps the numbers in order.              *)
LEMMA NumberingCalled ==
  ASSUME NEW S, NEW calls \in CallSeq(S), NEW v \in S, NEW no \in Nat, NEW b,
         Numbering(calls, no, b), NEW c, c = Append(calls, <<v, no>>)
  PROVE  Numbering(c, no, b)
<1> DEFINE n == Len(calls)
<1>1. /\ n \in Nat /\ Len(c) = n + 1
      /\ \A i \in 1 .. n : c[i] = calls[i]
      /\ c[n + 1][2] = no
  BY CallAppended
<1>2. /\ b \in 0 .. n
      /\ \A i \in 1 .. b : calls[i][2] < no
      /\ \A i \in b + 1 .. n : calls[i][2] = no
  BY DEF Numbering
<1> HIDE DEF n
<1>3. \A i \in 1 .. b : i \in 1 .. n
  BY <1>1, <1>2
<1>4. \A i \in b + 1 .. n + 1 : (i \in b + 1 .. n /\ i \in 1 .. n) \/ i = n + 1
  BY <1>1, <1>2
<1>5. b \in 0 .. n + 1
  BY <1>1, <1>2
<1> QED BY <1>1, <1>2, <1>3, <1>4, <1>5 DEF Numbering

(* The callback for v, which the piece already has. *)
LEMMA PiecesCalled ==
  ASSUME NEW S, NEW calls \in CallSeq(S), NEW v \in S, NEW no \in Nat, NEW b, NEW op,
         NEW start, NEW w, NEW len, Pieces(op, start, calls, no, w, len, b)
  PROVE  Pieces(op, start, Append(calls, <<v, no>>), no, w, len, b)
<1> DEFINE c == Append(calls, <<v, no>>)
<1>1. Numbering(c, no, b)
  BY NumberingCalled DEF Pieces
<1>2. ASSUME NEW k \in 0 .. no - 1 PROVE PieceExact(op, start, c, k)
  <2>1. k # no /\ ~(no < k)
    OBVIOUS
  <2>2. PieceExact(op, start, calls, k)
    BY DEF Pieces
  <2> QED BY <2>1, <2>2, PieceKept
<1> HIDE DEF c
<1>3. Pieces(op, start, c, no, w, len, b)
  BY <1>1, <1>2 DEF Pieces
<1> QED BY <1>3 DEF c

(* A vertex met over an arc from the piece. *)
LEMMA PiecesMet ==
  ASSUME NEW calls, NEW no, NEW b, NEW op, NEW start, NEW w, NEW w2, NEW v,
         NEW len \in Nat, Len(calls) \in Nat,
         Pieces(op, start, calls, no, w, len, b), Longer(w2, w, len, v),
         \E j \in b + 1 .. len : <<w[j], v>> \in Arcs
  PROVE  Pieces(op, start, calls, no, w2, len + 1, b)
<1>1. b \in 0 .. Len(calls) /\ b < len /\ Numbering(calls, no, b)
  BY DEF Pieces, Numbering
<1>2. b \in Nat /\ b \in 0 .. len /\ b < len + 1 /\ b + 1 \in 1 .. len
  BY <1>1
<1>3. Grown(Arcs, w2, len + 1, b, w2[b + 1])
  <2>1. Grown(Arcs, w, len, b, w[b + 1])
    BY DEF Pieces
  <2> QED BY <1>1, <1>2, <2>1, LongerGrown
<1>4. Part(w2, 1, b) = Part(w, 1, b)
  BY <1>2, LongerPart
<1>5. w2[b + 1] = w[b + 1]
  BY <1>2 DEF Longer
<1>6. RootIs(start, no, b, w2)
  <2>1. /\ no = 0 => b = 0 /\ w[1] = start
        /\ no > 0 => w[b + 1] = Min(Vertices \ Part(w, 1, b))
    BY DEF Pieces, RootIs
  <2>2. no = 0 => w2[1] = w[1]
    BY <2>1, <1>2, <1>5
  <2> QED BY <1>4, <1>5, <2>1, <2>2 DEF RootIs
<1> QED BY <1>1, <1>2, <1>3, <1>4, <1>6 DEF Pieces

(* The root of the next piece. *)
LEMMA PiecesNext ==
  ASSUME NEW S, NEW calls \in CallSeq(S), NEW no \in Nat, NEW b, NEW op, NEW start,
         NEW w, NEW w2, NEW v, NEW len \in Nat, len = Len(calls),
         Pieces(op, start, calls, no, w, len, b), Longer(w2, w, len, v),
         PieceExact(op, start, calls, no), ClosedUnder(Arcs, Part(w, 1, len)),
         v = Min(Vertices \ Part(w, 1, len))
  PROVE  Pieces(op, start, calls, no + 1, w2, len + 1, len)
<1>1. Numbering(calls, no + 1, len)
  <2>1. Numbering(calls, no, b)
    BY DEF Pieces
  <2>2. ASSUME NEW i \in 1 .. len PROVE calls[i][2] < no + 1
    <3>1. CASE i \in 1 .. b
      <4>1. calls[i][2] < no
        BY <2>1, <3>1 DEF Numbering
      <4> DEFINE x == calls[i][2]
      <4>2. x < no /\ x \in Nat
        BY <4>1 DEF CallSeq
      <4> HIDE DEF x
      <4>3. x < no + 1
        BY <4>2
      <4> QED BY <4>3 DEF x
    <3>2. CASE i \in b + 1 .. len
      BY <2>1, <3>2 DEF Numbering
    <3>3. b \in 0 .. len
      BY <2>1 DEF Numbering
    <3>4. i \in 1 .. b \/ i \in b + 1 .. len
      BY <3>3
    <3> QED BY <3>1, <3>2, <3>4
  <2>3. len \in 0 .. Len(calls)
    OBVIOUS
  <2>4. \A i \in len + 1 .. Len(calls) : FALSE
    OBVIOUS
  <2> QED BY <2>2, <2>3, <2>4 DEF Numbering
<1>2. ASSUME NEW k \in 0 .. (no + 1) - 1 PROVE PieceExact(op, start, calls, k)
  <2>1. k \in 0 .. no - 1 \/ k = no
    OBVIOUS
  <2> QED BY <2>1 DEF Pieces
<1>3. Part(w2, 1, len) = Part(w, 1, len)
  <2>1. len \in 0 .. len
    OBVIOUS
  <2> QED BY <2>1, LongerPart
<1>4. RootIs(start, no + 1, len, w2)
  <2>1. no + 1 # 0 /\ no + 1 > 0
    OBVIOUS
  <2>2. w2[len + 1] = v
    BY DEF Longer
  <2> QED BY <1>3, <2>1, <2>2 DEF RootIs
<1>5. Grown(Arcs, w2, len + 1, len, w2[len + 1])
  <2>1. \A i \in len + 2 .. len + 1 : FALSE
    OBVIOUS
  <2> QED BY <2>1 DEF Grown
<1>6. len < len + 1
  OBVIOUS
<1> QED BY <1>1, <1>2, <1>3, <1>4, <1>5, <1>6 DEF Pieces

(* The root of the first piece. *)
LEMMA PiecesFirst ==
  ASSUME NEW op, NEW start, NEW w, w[1] = start
  PROVE  Pieces(op, start, <<>>, 0, w, 1, 0)
<1> DEFINE c == <<>>
<1>1. Len(c) = 0
  OBVIOUS
<1>2. Numbering(c, 0, 0)
  <2>1. \A i \in 1 .. 0 : FALSE
    OBVIOUS
  <2>2. 0 \in 0 .. 0 /\ \A i \in 0 + 1 .. 0 : FALSE
    OBVIOUS
  <2> HIDE DEF c
  <2> QED BY <1>1, <2>1, <2>2 DEF Numbering
<1>3. Part(w, 1, 0) = {}
  <2>1. 1 .. 0 = {}
    OBVIOUS
  <2> QED BY <2>1 DEF Part
<1>4. Grown(Arcs, w, 1, 0, w[0 + 1])
  <2>1. \A i \in 0 + 2 .. 1 : FALSE
    OBVIOUS
  <2> QED BY <2>1 DEF Grown
<1>5. RootIs(start, 0, 0, w)
  BY DEF RootIs
<1>6. \A k \in 0 .. 0 - 1 : FALSE
  OBVIOUS
<1> HIDE DEF c
<1>7. Pieces(op, start, c, 0, w, 1, 0)
  BY <1>2, <1>3, <1>4, <1>5, <1>6 DEF Pieces, ClosedUnder
<1> QED BY <1>7 DEF c

-----------------------------------------------------------------------------
(* What has been looked at, breadth first and depth first.                 *)

(* Breadth first: every arc out of the vertices taken leads to one met, on *)
(* the level below at most, or is still to be looked at.                   *)
Covered(arcs, level, w, len, b, m, pend) ==
  \A i \in b + 1 .. m : \A a \in arcs :
    a[1] = w[i] => Seen(level, w, len, b, i, a[2]) \/ (i = m /\ a \in pend)

(* A new root is on level 0, and nothing has been looked at.               *)
LEMMA RootLevels ==
  ASSUME NEW w, NEW len \in Nat, NEW pend
  PROVE  \E level : /\ Levels(level, w, len + 1, len, len)
                    /\ Covered(Arcs, level, w, len + 1, len, len, pend)
<1> DEFINE level == [i \in 1 .. len + 1 |-> 0]
<1>1. level \in [1 .. len + 1 -> Nat] /\ level[len + 1] = 0
  OBVIOUS
<1>2. \A i \in len + 2 .. len + 1 : FALSE
  OBVIOUS
<1>3. \A i \in len + 1 .. len : FALSE
  OBVIOUS
<1>4. \A i, j \in len + 1 .. len + 1 : level[i] <= level[j]
  OBVIOUS
<1>5. ~(len > len)
  OBVIOUS
<1> HIDE DEF level
<1>6. Stepwise(Arcs, level, w, len + 1, len)
  BY <1>1, <1>2 DEF Stepwise
<1>7. Ascending(level, len + 1, len)
  BY <1>4 DEF Ascending
<1>8. Levels(level, w, len + 1, len, len)
  BY <1>5, <1>6, <1>7 DEF Levels
<1>9. Covered(Arcs, level, w, len + 1, len, len, pend)
  BY <1>3 DEF Covered
<1> QED BY <1>8, <1>9

(* The next vertex is taken: it is on the level of the one before or one   *)
(* below it, since the levels ascend, and its arcs are all to be looked    *)
(* at.                                                                     *)
LEMMA TakenLevels ==
  ASSUME NEW level, NEW w, NEW len \in Nat, NEW b \in Nat, NEW m \in b .. len, m < len,
         Levels(level, w, len, b, m),
         Covered(Arcs, level, w, len, b, m, {}),
         NEW pend, \A a \in Arcs : a[1] = w[m + 1] => a \in pend
  PROVE  /\ Levels(level, w, len, b, m + 1)
         /\ Covered(Arcs, level, w, len, b, m + 1, pend)
<1>1. level \in [1 .. len -> Nat]
  BY DEF Levels, Stepwise
<1>2. ASSUME NEW i \in b + 1 .. len PROVE level[i] <= level[m + 1] + 1
  <2> DEFINE x == level[i]
             y == level[m + 1]
  <2>1. i \in 1 .. len /\ m + 1 \in 1 .. len /\ m + 1 \in b + 1 .. len
    OBVIOUS
  <2>2. x \in Nat /\ y \in Nat
    BY <1>1, <2>1
  <2>3. CASE m = b
    <3>1. len = b + 1
      BY <2>3 DEF Levels
    <3>2. i = m + 1
      BY <2>3, <3>1
    <3> QED BY <3>2, <2>2
  <2>4. CASE m > b
    <3> DEFINE z == level[m]
    <3>1. m \in b + 1 .. len /\ m \in 1 .. len /\ m <= m + 1
      BY <2>4
    <3>2. z \in Nat /\ x <= z + 1
      BY <1>1, <2>4, <3>1 DEF Levels
    <3>3. z <= y
      BY <2>1, <3>1 DEF Levels, Ascending
    <3> HIDE DEF x, y, z
    <3>4. x <= y + 1
      BY <2>2, <3>2, <3>3
    <3> QED BY <3>4 DEF x, y
  <2>5. m = b \/ m > b
    OBVIOUS
  <2> QED BY <2>3, <2>4, <2>5
<1>3. m + 1 # b
  OBVIOUS
<1>4. Levels(level, w, len, b, m + 1)
  BY <1>2, <1>3 DEF Levels
<1>5. Covered(Arcs, level, w, len, b, m + 1, pend)
  <2> SUFFICES ASSUME NEW i \in b + 1 .. m + 1, NEW a \in Arcs, a[1] = w[i]
        PROVE  Seen(level, w, len, b, i, a[2]) \/ (i = m + 1 /\ a \in pend)
    BY DEF Covered
  <2>1. i \in b + 1 .. m \/ i = m + 1
    OBVIOUS
  <2>2. CASE i \in b + 1 .. m
    BY <2>2 DEF Covered
  <2>3. CASE i = m + 1
    BY <2>3
  <2> QED BY <2>1, <2>2, <2>3
<1> QED BY <1>4, <1>5

(* An arc to a vertex met before it: that vertex was queued no later than  *)
(* the last, so it is one level below at most.                             *)
LEMMA MetCovered ==
  ASSUME NEW level, NEW w, NEW len \in Nat, NEW b \in Nat, NEW m \in b + 1 .. len,
         Levels(level, w, len, b, m), NEW pend, NEW pend2, NEW u,
         Covered(Arcs, level, w, len, b, m, pend),
         pend \subseteq pend2 \cup {<<w[m], u>>}, u \in Part(w, 1, len)
  PROVE  Covered(Arcs, level, w, len, b, m, pend2)
<1> SUFFICES ASSUME NEW i \in b + 1 .. m, NEW a \in Arcs, a[1] = w[i]
      PROVE  Seen(level, w, len, b, i, a[2]) \/ (i = m /\ a \in pend2)
  BY DEF Covered
<1>1. Seen(level, w, len, b, i, a[2]) \/ (i = m /\ a \in pend)
  BY DEF Covered
<1>2. Seen(level, w, len, b, m, u)
  <2>1. PICK j \in 1 .. len : w[j] = u
    BY DEF Part
  <2>2. j <= b \/ j \in b + 1 .. len
    OBVIOUS
  <2>3. m > b
    OBVIOUS
  <2>4. j \in b + 1 .. len => level[j] <= level[m] + 1
    BY <2>3 DEF Levels
  <2> QED BY <2>1, <2>2, <2>4 DEF Seen
<1>3. <<w[m], u>>[2] = u
  OBVIOUS
<1> QED BY <1>1, <1>2, <1>3

(* An arc to a vertex not met: it goes one level below the current one,    *)
(* and no vertex of the word is further down.                              *)
LEMMA UnmetLevels ==
  ASSUME NEW level, NEW w, NEW len \in Nat, NEW b \in Nat, NEW m \in b + 1 .. len,
         Levels(level, w, len, b, m), NEW pend, NEW pend2, NEW u,
         Covered(Arcs, level, w, len, b, m, pend),
         pend \subseteq pend2 \cup {<<w[m], u>>}, <<w[m], u>> \in Arcs,
         NEW w2, Longer(w2, w, len, u)
  PROVE  \E level2 : /\ Levels(level2, w2, len + 1, b, m)
                     /\ Covered(Arcs, level2, w2, len + 1, b, m, pend2)
<1> DEFINE h == level[m] + 1
           level2 == [i \in 1 .. len + 1 |-> IF i = len + 1 THEN h ELSE level[i]]
<1>1. /\ level \in [1 .. len -> Nat] /\ level[b + 1] = 0
      /\ \A i \in b + 2 .. len : \E j \in b + 1 .. i - 1 :
           <<w[j], w[i]>> \in Arcs /\ level[i] = level[j] + 1
  BY DEF Levels, Stepwise
<1>2. h \in Nat
  <2>1. m \in 1 .. len
    OBVIOUS
  <2> QED BY <1>1, <2>1
<1>3. \A i \in b + 1 .. len : level[i] <= h
  BY DEF Levels
<1>4. level2[len + 1] = h /\ \A i \in 1 .. len : level2[i] = level[i]
  OBVIOUS
<1>5. level2 \in [1 .. len + 1 -> Nat]
  <2>1. \A i \in 1 .. len + 1 : i # len + 1 => i \in 1 .. len
    OBVIOUS
  <2> HIDE DEF h
  <2> QED BY <1>1, <1>2, <2>1
<1>6. level2[m] + 1 = h
  <2>1. m \in 1 .. len
    OBVIOUS
  <2> QED BY <1>4, <2>1
<1> HIDE DEF level2
<1>w. w2[len + 1] = u /\ \A i \in 1 .. len : w2[i] = w[i]
  BY DEF Longer
<1>7. Stepwise(Arcs, level2, w2, len + 1, b)
  <2>1. level2[b + 1] = 0
    <3>1. b + 1 \in 1 .. len
      OBVIOUS
    <3> QED BY <3>1, <1>1, <1>4
  <2>2. ASSUME NEW i \in b + 2 .. len + 1
        PROVE  \E j \in b + 1 .. i - 1 :
                 <<w2[j], w2[i]>> \in Arcs /\ level2[i] = level2[j] + 1
    <3>1. CASE i = len + 1
      <4>1. m \in b + 1 .. i - 1 /\ m \in 1 .. len
        BY <3>1
      <4> QED BY <4>1, <3>1, <1>4, <1>6, <1>w
    <3>2. CASE i # len + 1
      <4>1. i \in b + 2 .. len /\ i \in 1 .. len
        BY <3>2
      <4>2. PICK j \in b + 1 .. i - 1 : <<w[j], w[i]>> \in Arcs /\ level[i] = level[j] + 1
        BY <1>1, <4>1
      <4>3. j \in 1 .. len
        BY <4>1
      <4> QED BY <4>1, <4>2, <4>3, <1>4, <1>w
    <3> QED BY <3>1, <3>2
  <2> QED BY <1>5, <2>1, <2>2 DEF Stepwise
<1>8. \A i \in b + 1 .. len + 1 : level2[i] <= h
  <2>1. \A i \in b + 1 .. len + 1 : i = len + 1 \/ (i \in b + 1 .. len /\ i \in 1 .. len)
    OBVIOUS
  <2>2. h <= h
    BY <1>2
  <2> HIDE DEF h
  <2> QED BY <2>1, <2>2, <1>3, <1>4
<1>9. Ascending(level2, len + 1, b)
  <2> SUFFICES ASSUME NEW i \in b + 1 .. len + 1, NEW j \in b + 1 .. len + 1, i <= j
        PROVE  level2[i] <= level2[j]
    BY DEF Ascending
  <2>1. CASE j = len + 1
    BY <2>1, <1>8, <1>4
  <2>2. CASE j # len + 1
    <3>1. /\ i \in b + 1 .. len /\ i \in 1 .. len
          /\ j \in b + 1 .. len /\ j \in 1 .. len
      BY <2>2
    <3>2. level[i] <= level[j]
      BY <3>1 DEF Levels, Ascending
    <3> QED BY <3>1, <3>2, <1>4
  <2> QED BY <2>1, <2>2
<1>10. Levels(level2, w2, len + 1, b, m)
  <2>1. m # b
    OBVIOUS
  <2>2. \A i \in b + 1 .. len + 1 : level2[i] <= level2[m] + 1
    BY <1>6, <1>8
  <2> QED BY <1>7, <1>9, <2>1, <2>2 DEF Levels
<1>11. Covered(Arcs, level2, w2, len + 1, b, m, pend2)
  <2> SUFFICES ASSUME NEW i \in b + 1 .. m, NEW a \in Arcs, a[1] = w2[i]
        PROVE  Seen(level2, w2, len + 1, b, i, a[2]) \/ (i = m /\ a \in pend2)
    BY DEF Covered
  <2>1. i \in 1 .. len /\ m \in 1 .. len
    OBVIOUS
  <2>2. Seen(level, w, len, b, i, a[2]) \/ (i = m /\ a \in pend)
    BY <2>1, <1>w DEF Covered
  <2>3. CASE Seen(level, w, len, b, i, a[2])
    <3>1. PICK j \in 1 .. len : w[j] = a[2] /\ (j <= b \/ level[j] <= level[i] + 1)
      BY <2>3 DEF Seen
    <3>2. j \in 1 .. len + 1
      OBVIOUS
    <3> QED BY <3>1, <3>2, <2>1, <1>4, <1>w DEF Seen
  <2>4. CASE i = m /\ a \in pend
    <3>1. a \in pend2 \/ a = <<w[m], u>>
      BY <2>4
    <3>2. ASSUME a = <<w[m], u>> PROVE Seen(level2, w2, len + 1, b, i, a[2])
      <4>1. len + 1 \in 1 .. len + 1 /\ a[2] = u
        BY <3>2
      <4>2. level2[len + 1] <= level2[i] + 1
        <5>1. h <= h
          BY <1>2
        <5> HIDE DEF h
        <5> QED BY <5>1, <2>4, <1>4, <1>6
      <4> QED BY <4>1, <4>2, <1>w DEF Seen
    <3> QED BY <2>4, <3>1, <3>2
  <2> QED BY <2>2, <2>3, <2>4
<1> QED BY <1>10, <1>11

(* Nothing is left to be looked at.                                        *)
LEMMA CoveredEnds ==
  ASSUME NEW level, NEW w, NEW len \in Nat, NEW b \in 0 .. len,
         Covered(Arcs, level, w, len, b, len, {}), ClosedUnder(Arcs, Part(w, 1, b))
  PROVE  AllSeen(Arcs, level, w, len, b) /\ ClosedUnder(Arcs, Part(w, 1, len))
<1>1. AllSeen(Arcs, level, w, len, b)
  BY DEF AllSeen, Covered
<1>2. ASSUME NEW a \in Arcs, a[1] \in Part(w, 1, len) PROVE a[2] \in Part(w, 1, len)
  <2>1. PICK i \in 1 .. len : a[1] = w[i]
    BY <1>2 DEF Part
  <2>2. i \in 1 .. b \/ i \in b + 1 .. len
    OBVIOUS
  <2>3. CASE i \in 1 .. b
    <3>1. a[1] \in Part(w, 1, b)
      BY <2>1, <2>3 DEF Part
    <3>2. a[2] \in Part(w, 1, b)
      BY <3>1 DEF ClosedUnder
    <3>3. \A k \in 1 .. b : k \in 1 .. len
      OBVIOUS
    <3> QED BY <3>2, <3>3 DEF Part
  <2>4. CASE i \in b + 1 .. len
    BY <2>1, <2>4, <1>1 DEF AllSeen, Seen, Part
  <2> QED BY <2>2, <2>3, <2>4
<1> QED BY <1>1, <1>2 DEF ClosedUnder

(* Depth first: every arc out of the piece leads to a vertex met or is     *)
(* still to be looked at.                                                  *)
Explored(arcs, w, len, b, pend) ==
  \A i \in b + 1 .. len : \A a \in arcs :
    a[1] = w[i] => a[2] \in Part(w, 1, len) \/ a \in pend

(* An arc to a vertex met.                                                 *)
LEMMA MetExplored ==
  ASSUME NEW w, NEW len, NEW b, NEW pend, NEW pend2, NEW x, NEW u,
         Explored(Arcs, w, len, b, pend),
         pend \subseteq pend2 \cup {<<x, u>>}, u \in Part(w, 1, len)
  PROVE  Explored(Arcs, w, len, b, pend2)
<1> SUFFICES ASSUME NEW i \in b + 1 .. len, NEW a \in Arcs, a[1] = w[i]
      PROVE  a[2] \in Part(w, 1, len) \/ a \in pend2
  BY DEF Explored
<1>1. a[2] \in Part(w, 1, len) \/ a \in pend2 \/ a = <<x, u>>
  BY DEF Explored
<1>2. <<x, u>>[2] = u
  OBVIOUS
<1> QED BY <1>1, <1>2

(* An arc to a vertex that is entered, with all its arcs to be looked at.  *)
LEMMA EnteredExplored ==
  ASSUME NEW w, NEW w2, NEW len \in Nat, NEW b \in 0 .. len, NEW pend, NEW pend2,
         NEW x, NEW u, b < len => Explored(Arcs, w, len, b, pend),
         pend \subseteq pend2 \cup {<<x, u>>},
         \A a \in Arcs : a[1] = u => a \in pend2, Longer(w2, w, len, u)
  PROVE  Explored(Arcs, w2, len + 1, b, pend2)
<1>1. Part(w2, 1, len + 1) = Part(w, 1, len) \cup {u}
  BY LongerPart
<1>2. w2[len + 1] = u /\ \A i \in 1 .. len : w2[i] = w[i]
  BY DEF Longer
<1> SUFFICES ASSUME NEW i \in b + 1 .. len + 1, NEW a \in Arcs, a[1] = w2[i]
      PROVE  a[2] \in Part(w2, 1, len + 1) \/ a \in pend2
  BY DEF Explored
<1>3. CASE i = len + 1
  BY <1>2, <1>3
<1>4. CASE i # len + 1
  <2>1. i \in b + 1 .. len /\ i \in 1 .. len /\ b < len
    BY <1>4
  <2>2. a[2] \in Part(w, 1, len) \/ a \in pend2 \/ a = <<x, u>>
    BY <2>1, <1>2 DEF Explored
  <2>3. <<x, u>>[2] = u
    OBVIOUS
  <2> QED BY <2>2, <2>3, <1>1
<1> QED BY <1>3, <1>4

(* Nothing is left to be looked at.                                        *)
LEMMA ExploredEnds ==
  ASSUME NEW w, NEW len \in Nat, NEW b \in 0 .. len,
         Explored(Arcs, w, len, b, {}), ClosedUnder(Arcs, Part(w, 1, b))
  PROVE  ClosedUnder(Arcs, Part(w, 1, len))
<1>1. SUFFICES ASSUME NEW a \in Arcs, a[1] \in Part(w, 1, len) PROVE a[2] \in Part(w, 1, len)
  BY DEF ClosedUnder
<1>2. PICK i \in 1 .. len : a[1] = w[i]
  BY <1>1 DEF Part
<1>3. i \in 1 .. b \/ i \in b + 1 .. len
  OBVIOUS
<1>4. CASE i \in 1 .. b
  <2>1. a[1] \in Part(w, 1, b)
    BY <1>2, <1>4 DEF Part
  <2>2. a[2] \in Part(w, 1, b)
    BY <2>1 DEF ClosedUnder
  <2>3. \A k \in 1 .. b : k \in 1 .. len
    OBVIOUS
  <2> QED BY <2>2, <2>3 DEF Part
<1>5. CASE i \in b + 1 .. len
  BY <1>2, <1>5 DEF Explored
<1> QED BY <1>3, <1>4, <1>5

-----------------------------------------------------------------------------
(* The frames of the calls that run, and the arcs they have still to look  *)
(* at.                                                                     *)

FrameSet(V, E) == [vertex : V, iter : Seq(E)]
Active(frames) == {frames[i].vertex : i \in DOMAIN frames}

(* The arcs over the edges that a frame, or all, have still to look at. *)
PendingOf(f) == {<<f.vertex, Neighbor(f.vertex, e)>> : e \in ToSet(f.iter)}
Pending(frames) == UNION {PendingOf(frames[i]) : i \in DOMAIN frames}
HasEdges(frames) == frames # <<>> /\ frames[1].iter # <<>>

(* No call runs.                                                           *)
LEMMA NoFrames == Pending(<<>>) = {} /\ Active(<<>>) = {} /\ ~HasEdges(<<>>)
BY DEF Pending, Active, HasEdges

(* The one frame of a breadth first traversal has no edge left.            *)
LEMMA PendingEnds ==
  ASSUME NEW V, NEW E, NEW frames \in Seq(FrameSet(V, E)), Len(frames) <= 1,
         ~HasEdges(frames)
  PROVE  Pending(frames) = {}
<1>1. CASE frames = <<>>
  BY <1>1, NoFrames
<1>2. CASE frames # <<>>
  <2>1. DOMAIN frames = {1}
    <3>1. Len(frames) \in Nat /\ Len(frames) # 0 /\ DOMAIN frames = 1 .. Len(frames)
      BY <1>2
    <3>2. Len(frames) = 1
      BY <3>1
    <3>3. 1 .. 1 = {1}
      OBVIOUS
    <3> QED BY <3>1, <3>2, <3>3
  <2>2. frames[1].iter = <<>>
    BY <1>2 DEF HasEdges
  <2>3. PendingOf(frames[1]) = {}
    BY <2>2 DEF PendingOf, ToSet
  <2> QED BY <2>1, <2>3 DEF Pending
<1> QED BY <1>1, <1>2

(* The frame of the vertex taken.                                          *)
LEMMA OneFrame ==
  ASSUME NEW V, NEW E, NEW f \in FrameSet(V, E)
  PROVE  /\ <<f>> \in Seq(FrameSet(V, E)) /\ Len(<<f>>) = 1 /\ <<f>> # <<>>
         /\ <<f>>[1] = f
         /\ Pending(<<f>>) = PendingOf(f) /\ Active(<<f>>) = {f.vertex}
         /\ HasEdges(<<f>>) <=> f.iter # <<>>
<1> DEFINE s == <<f>>
<1>1. s \in Seq(FrameSet(V, E)) /\ Len(s) = 1 /\ s # <<>> /\ s[1] = f /\ DOMAIN s = {1}
  <2>1. s \in Seq(FrameSet(V, E)) /\ Len(s) = 1 /\ s # <<>> /\ s[1] = f /\ DOMAIN s = 1 .. 1
    OBVIOUS
  <2>2. 1 .. 1 = {1}
    OBVIOUS
  <2> QED BY <2>1, <2>2
<1> HIDE DEF s
<1>2. /\ Pending(s) = PendingOf(f) /\ Active(s) = {f.vertex}
      /\ HasEdges(s) <=> f.iter # <<>>
  BY <1>1 DEF Pending, Active, HasEdges
<1> QED BY <1>1, <1>2 DEF s

NextFrames(frames) == [frames EXCEPT ![1].iter = Tail(@)]

(* An edge is passed: its arc alone is no longer to be looked at.          *)
LEMMA FramesAdvance ==
  ASSUME NEW V, NEW E, NEW frames \in Seq(FrameSet(V, E)), HasEdges(frames)
  PROVE  /\ NextFrames(frames) \in Seq(FrameSet(V, E))
         /\ Len(NextFrames(frames)) = Len(frames) /\ NextFrames(frames) # <<>>
         /\ NextFrames(frames)[1].vertex = frames[1].vertex
         /\ Active(NextFrames(frames)) = Active(frames)
         /\ frames[1].vertex \in Active(frames) /\ frames[1].vertex \in V
         /\ Head(frames[1].iter) \in ToSet(frames[1].iter)
         /\ Head(frames[1].iter) \in E
         /\ Pending(frames) \subseteq
              Pending(NextFrames(frames))
                \cup {<<frames[1].vertex, Neighbor(frames[1].vertex, Head(frames[1].iter))>>}
<1> DEFINE s == NextFrames(frames)
           n == Len(frames)
           f == frames[1]
           g == [f EXCEPT !.iter = Tail(f.iter)]
<1>1. n \in Nat /\ n # 0 /\ 1 \in 1 .. n /\ DOMAIN frames = 1 .. n /\ f \in FrameSet(V, E)
  BY DEF HasEdges
<1>2. f.iter \in Seq(E) /\ f.iter # <<>> /\ f.vertex \in V
  BY <1>1 DEF HasEdges, FrameSet
<1>3. /\ Head(f.iter) \in E /\ Tail(f.iter) \in Seq(E) /\ Head(f.iter) \in ToSet(f.iter)
      /\ \A e \in ToSet(f.iter) : e = Head(f.iter) \/ e \in ToSet(Tail(f.iter))
  <2> DEFINE q == f.iter
             m == Len(q)
             p == Tail(q)
  <2>1. /\ m \in Nat /\ m # 0 /\ DOMAIN q = 1 .. m /\ Head(q) = q[1] /\ p \in Seq(E)
        /\ DOMAIN p = 1 .. m - 1 /\ Head(q) \in E
        /\ \A i \in 1 .. m - 1 : p[i] = q[i + 1]
    BY <1>2
  <2> HIDE DEF m, p
  <2>2. ASSUME NEW i \in 1 .. m PROVE q[i] = q[1] \/ q[i] \in ToSet(p)
    <3>1. CASE i = 1
      BY <3>1
    <3>2. CASE i # 1
      <4>1. PICK k \in 1 .. m - 1 : i = k + 1
        <5>1. i - 1 \in 1 .. m - 1 /\ i = (i - 1) + 1
          BY <2>1, <3>2
        <5> QED BY <5>1
      <4>2. q[i] = p[k]
        BY <4>1, <2>1
      <4> QED BY <4>2, <2>1 DEF ToSet
    <3> QED BY <3>1, <3>2
  <2>3. 1 \in 1 .. m
    BY <2>1
  <2> QED BY <2>1, <2>2, <2>3 DEF ToSet, p
<1>4. g \in FrameSet(V, E) /\ g.vertex = f.vertex /\ g.iter = Tail(f.iter)
  BY <1>1, <1>2, <1>3 DEF FrameSet
<1>5. s = [frames EXCEPT ![1] = g]
  BY DEF NextFrames
<1> HIDE DEF g, s, f
<1>6. /\ s \in Seq(FrameSet(V, E)) /\ Len(s) = n /\ DOMAIN s = 1 .. n
      /\ s[1] = g /\ \A i \in 1 .. n : i # 1 => s[i] = frames[i]
  BY <1>1, <1>4, <1>5
<1> HIDE DEF n
<1>7. s # <<>>
  BY <1>1, <1>6
<1>8. \A i \in 1 .. n : s[i].vertex = frames[i].vertex
  BY <1>6, <1>4 DEF f
<1>9. Active(s) = Active(frames) /\ f.vertex \in Active(frames)
  BY <1>1, <1>6, <1>8 DEF Active, f
<1>10. ASSUME NEW a \in Pending(frames)
       PROVE  a \in Pending(s) \/ a = <<f.vertex, Neighbor(f.vertex, Head(f.iter))>>
  <2>1. PICK i \in 1 .. n : a \in PendingOf(frames[i])
    BY <1>1 DEF Pending
  <2>2. CASE i # 1
    BY <2>1, <2>2, <1>6 DEF Pending
  <2>3. CASE i = 1
    <3>1. PICK e \in ToSet(f.iter) : a = <<f.vertex, Neighbor(f.vertex, e)>>
      BY <2>1, <2>3 DEF PendingOf, f
    <3>2. CASE e = Head(f.iter)
      BY <3>1, <3>2
    <3>3. CASE e \in ToSet(g.iter)
      <4>1. a \in PendingOf(g)
        BY <3>1, <3>3, <1>4 DEF PendingOf
      <4> QED BY <4>1, <1>1, <1>6 DEF Pending
    <3> QED BY <3>1, <3>2, <3>3, <1>3, <1>4
  <2> QED BY <2>2, <2>3
<1>11. s[1].vertex = f.vertex
  BY <1>6, <1>4
<1> QED BY <1>2, <1>3, <1>6, <1>7, <1>9, <1>10, <1>11 DEF s, f, n

(* A call for a vertex begins.                                             *)
LEMMA FramesPush ==
  ASSUME NEW V, NEW E, NEW frames \in Seq(FrameSet(V, E)), NEW f \in FrameSet(V, E)
  PROVE  /\ <<f>> \o frames \in Seq(FrameSet(V, E))
         /\ Pending(<<f>> \o frames) = PendingOf(f) \cup Pending(frames)
         /\ Active(<<f>> \o frames) = {f.vertex} \cup Active(frames)
<1> DEFINE s == <<f>> \o frames
           n == Len(frames)
<1>1. /\ n \in Nat /\ DOMAIN frames = 1 .. n /\ s \in Seq(FrameSet(V, E))
      /\ DOMAIN s = 1 .. n + 1 /\ s[1] = f
      /\ \A i \in 1 .. n : s[i + 1] = frames[i]
  <2> DEFINE p == <<f>>
  <2>1. /\ n \in Nat /\ DOMAIN frames = 1 .. n /\ p \in Seq(FrameSet(V, E))
        /\ Len(p) = 1 /\ p[1] = f
    OBVIOUS
  <2> HIDE DEF p
  <2>2. /\ s \in Seq(FrameSet(V, E)) /\ Len(s) = 1 + n
        /\ \A i \in 1 .. 1 + n : s[i] = IF i <= 1 THEN p[i] ELSE frames[i - 1]
    BY <2>1 DEF p
  <2>3. DOMAIN s = 1 .. n + 1
    <3>1. 1 + n = n + 1
      BY <2>1
    <3> QED BY <2>2, <3>1
  <2> HIDE DEF s, n
  <2>4. 1 \in 1 .. 1 + n /\ 1 <= 1
    BY <2>1
  <2>5. s[1] = f
    BY <2>1, <2>2, <2>4
  <2>6. ASSUME NEW i \in 1 .. n PROVE s[i + 1] = frames[i]
    <3>1. i + 1 \in 1 .. 1 + n /\ ~(i + 1 <= 1) /\ (i + 1) - 1 = i
      BY <2>1
    <3> QED BY <2>2, <3>1
  <2> QED BY <2>1, <2>2, <2>3, <2>5, <2>6
<1> HIDE DEF s, n
<1>2. \A i \in 1 .. n + 1 : i = 1 \/ \E k \in 1 .. n : i = k + 1
  <2> SUFFICES ASSUME NEW i \in 1 .. n + 1, i # 1 PROVE \E k \in 1 .. n : i = k + 1
    OBVIOUS
  <2>1. i - 1 \in 1 .. n /\ i = (i - 1) + 1
    BY <1>1
  <2> QED BY <2>1
<1>3. 1 \in 1 .. n + 1 /\ \A k \in 1 .. n : k + 1 \in 1 .. n + 1
  BY <1>1
<1>4. Pending(s) = PendingOf(f) \cup Pending(frames)
  <2> DEFINE P(x) == PendingOf(x)
  <2>1. Pending(s) = UNION {P(s[i]) : i \in 1 .. n + 1}
    BY <1>1 DEF Pending
  <2>2. Pending(frames) = UNION {P(frames[i]) : i \in 1 .. n}
    BY <1>1 DEF Pending
  <2> HIDE DEF P
  <2>3. \A a \in Pending(s) : a \in P(f) \/ a \in Pending(frames)
    <3> SUFFICES ASSUME NEW i \in 1 .. n + 1, NEW a \in P(s[i])
          PROVE  a \in P(f) \/ a \in Pending(frames)
      BY <2>1
    <3>1. CASE i = 1
      BY <3>1, <1>1
    <3>2. CASE i # 1
      <4>1. PICK k \in 1 .. n : i = k + 1
        BY <3>2, <1>2
      <4>2. s[i] = frames[k]
        BY <4>1, <1>1
      <4> QED BY <4>1, <4>2, <2>2
    <3> QED BY <3>1, <3>2
  <2>4. \A a \in P(f) : a \in Pending(s)
    BY <2>1, <1>1, <1>3
  <2>5. \A a \in Pending(frames) : a \in Pending(s)
    <3> SUFFICES ASSUME NEW k \in 1 .. n, NEW a \in P(frames[k]) PROVE a \in Pending(s)
      BY <2>2
    <3>1. k + 1 \in 1 .. n + 1 /\ a \in P(s[k + 1])
      BY <1>1, <1>3
    <3> QED BY <3>1, <2>1
  <2>6. Pending(s) = P(f) \cup Pending(frames)
    BY <2>3, <2>4, <2>5
  <2> QED BY <2>6 DEF P
<1>5. Active(s) = {f.vertex} \cup Active(frames)
  <2>1. ASSUME NEW i \in 1 .. n + 1
        PROVE  s[i].vertex = f.vertex \/ s[i].vertex \in Active(frames)
    <3>1. CASE i = 1
      BY <3>1, <1>1
    <3>2. CASE i # 1
      <4>1. PICK k \in 1 .. n : i = k + 1
        BY <3>2, <1>2
      <4>2. s[i] = frames[k]
        BY <4>1, <1>1
      <4> QED BY <4>1, <4>2, <1>1 DEF Active
    <3> QED BY <3>1, <3>2
  <2>2. \A k \in 1 .. n : frames[k].vertex = s[k + 1].vertex /\ k + 1 \in 1 .. n + 1
    BY <1>1, <1>3
  <2>3. Active(s) = {s[i].vertex : i \in 1 .. n + 1}
    BY <1>1 DEF Active
  <2>4. Active(frames) = {frames[i].vertex : i \in 1 .. n}
    BY <1>1 DEF Active
  <2>5. \A x \in Active(s) : x = f.vertex \/ x \in Active(frames)
    BY <2>1, <2>3
  <2>6. f.vertex \in Active(s)
    BY <2>3, <1>1, <1>3
  <2>7. \A x \in Active(frames) : x \in Active(s)
    BY <2>2, <2>3, <2>4
  <2> QED BY <2>5, <2>6, <2>7
<1> QED BY <1>1, <1>4, <1>5 DEF s

(* A call returns, when its edges have all been looked at.                 *)
LEMMA FramesPop ==
  ASSUME NEW V, NEW E, NEW frames \in Seq(FrameSet(V, E)), frames # <<>>,
         ~HasEdges(frames)
  PROVE  /\ Tail(frames) \in Seq(FrameSet(V, E))
         /\ Pending(frames) = Pending(Tail(frames))
         /\ Active(Tail(frames)) \subseteq Active(frames)
<1> DEFINE s == Tail(frames)
           n == Len(frames)
<1>1. /\ n \in Nat /\ n # 0 /\ DOMAIN frames = 1 .. n /\ s \in Seq(FrameSet(V, E))
      /\ DOMAIN s = 1 .. n - 1
      /\ \A i \in 1 .. n - 1 : s[i] = frames[i + 1]
  OBVIOUS
<1>2. PendingOf(frames[1]) = {}
  BY DEF HasEdges, PendingOf, ToSet
<1> HIDE DEF s, n
<1>3. \A i \in 1 .. n : i = 1 \/ \E k \in 1 .. n - 1 : i = k + 1
  <2> SUFFICES ASSUME NEW i \in 1 .. n, i # 1 PROVE \E k \in 1 .. n - 1 : i = k + 1
    OBVIOUS
  <2>1. i - 1 \in 1 .. n - 1 /\ i = (i - 1) + 1
    BY <1>1
  <2> QED BY <2>1
<1>4. \A k \in 1 .. n - 1 : k + 1 \in 1 .. n
  BY <1>1
<1>5. Pending(frames) = Pending(s)
  BY <1>1, <1>2, <1>3, <1>4, SMTT(20) DEF Pending
<1>6. Active(s) \subseteq Active(frames)
  BY <1>1, <1>4 DEF Active
<1> QED BY <1>1, <1>5, <1>6 DEF s

-----------------------------------------------------------------------------
(* The local variables of a traversal.                                     *)

(* The local variables of a traversal, by name. *)
Rec(start, visited, frames, no, calls, refused, early, late) ==
  [start |-> start, visited |-> visited, frames |-> frames, subGraphNo |-> no,
   calls |-> calls, refused |-> refused, early |-> early, late |-> late]
IsRec(r) == r = Rec(r.start, r.visited, r.frames, r.subGraphNo, r.calls, r.refused,
                    r.early, r.late)

(* The local variables by name, and the record they make.                  *)
LEMMA RecFields ==
  ASSUME NEW s, NEW vis, NEW fr, NEW no, NEW c, NEW ref, NEW e, NEW l,
         NEW r, r = Rec(s, vis, fr, no, c, ref, e, l)
  PROVE  /\ r.start = s /\ r.visited = vis /\ r.frames = fr /\ r.subGraphNo = no
         /\ r.calls = c /\ r.refused = ref /\ r.early = e /\ r.late = l
         /\ IsRec(r)
BY DEF Rec, IsRec

Marked(r, v, mark) == [r EXCEPT !.visited[v] = mark]
Dropped(r, p) == [r EXCEPT !.refused = @ \cup {p}]
Renumbered(r) == [r EXCEPT !.subGraphNo = @ + 1]
Left(r) == [r EXCEPT !.frames = Tail(@)]
Taken(r, v, f) ==
  [r EXCEPT !.visited[v] = "2", !.calls = Append(@, <<v, r.subGraphNo>>), !.frames = <<f>>]
Timing(r, v, f) == [r EXCEPT !.visited[v] = "2", !.frames = <<f>>]

SetMark(visited, v, mark) == [visited EXCEPT ![v] = mark]

(* What each step does to them.                                            *)
LEMMA RecSteps ==
  ASSUME NEW r, IsRec(r), NEW v, NEW mark, NEW p, NEW f
  PROVE  /\ Advance(r) = Rec(r.start, r.visited, NextFrames(r.frames), r.subGraphNo,
                             r.calls, r.refused, r.early, r.late)
         /\ Marked(r, v, mark) = Rec(r.start, SetMark(r.visited, v, mark), r.frames,
                             r.subGraphNo, r.calls, r.refused, r.early, r.late)
         /\ Dropped(r, p) = Rec(r.start, r.visited, r.frames, r.subGraphNo, r.calls,
                             r.refused \cup {p}, r.early, r.late)
         /\ Renumbered(r) = Rec(r.start, r.visited, r.frames, r.subGraphNo + 1, r.calls,
                             r.refused, r.early, r.late)
         /\ Left(r) = Rec(r.start, r.visited, Tail(r.frames), r.subGraphNo, r.calls,
                             r.refused, r.early, r.late)
         /\ Taken(r, v, f) = Rec(r.start, SetMark(r.visited, v, "2"), <<f>>, r.subGraphNo,
                             Append(r.calls, <<v, r.subGraphNo>>), r.refused, r.early,
                             r.late)
         /\ Timing(r, v, f) = Rec(r.start, SetMark(r.visited, v, "2"), <<f>>, r.subGraphNo,
                             r.calls, r.refused, r.early, r.late)
         /\ Enter(v, r) = Rec(r.start, SetMark(r.visited, v, "1"),
                             <<Frame(v, graph.incident[v])>> \o r.frames, r.subGraphNo,
                             Append(r.calls, <<v, r.subGraphNo>>), r.refused, r.early,
                             r.late)
<1>1. SUFFICES
        ASSUME NEW s, NEW vis, NEW fr, NEW no, NEW c, NEW ref, NEW e, NEW l,
               r = Rec(s, vis, fr, no, c, ref, e, l),
               r.start = s, r.visited = vis, r.frames = fr, r.subGraphNo = no,
               r.calls = c, r.refused = ref, r.early = e, r.late = l
        PROVE  /\ Advance(r) = Rec(s, vis, NextFrames(fr), no, c, ref, e, l)
               /\ Marked(r, v, mark) = Rec(s, SetMark(vis, v, mark), fr, no, c, ref, e, l)
               /\ Dropped(r, p) = Rec(s, vis, fr, no, c, ref \cup {p}, e, l)
               /\ Renumbered(r) = Rec(s, vis, fr, no + 1, c, ref, e, l)
               /\ Left(r) = Rec(s, vis, Tail(fr), no, c, ref, e, l)
               /\ Taken(r, v, f) = Rec(s, SetMark(vis, v, "2"), <<f>>, no,
                                       Append(c, <<v, no>>), ref, e, l)
               /\ Timing(r, v, f) = Rec(s, SetMark(vis, v, "2"), <<f>>, no, c, ref, e, l)
               /\ Enter(v, r) = Rec(s, SetMark(vis, v, "1"),
                                    <<Frame(v, graph.incident[v])>> \o fr, no,
                                    Append(c, <<v, no>>), ref, e, l)
  BY DEF IsRec
<1> DEFINE fr2 == NextFrames(fr)
           vis1 == SetMark(vis, v, "1")
           vis2 == SetMark(vis, v, "2")
           vis3 == SetMark(vis, v, mark)
<1>2. Advance(r) = Rec(s, vis, fr2, no, c, ref, e, l)
  <2>1. Advance(r) = [r EXCEPT !.frames = fr2]
    BY <1>1 DEF Advance, NextFrames
  <2> HIDE DEF fr2
  <2> QED BY <2>1, <1>1 DEF Rec
<1>3. Marked(r, v, mark) = Rec(s, vis3, fr, no, c, ref, e, l)
  <2>1. Marked(r, v, mark) = [r EXCEPT !.visited = vis3]
    BY <1>1 DEF Marked, SetMark
  <2> HIDE DEF vis3
  <2> QED BY <2>1, <1>1 DEF Rec
<1>4. Dropped(r, p) = Rec(s, vis, fr, no, c, ref \cup {p}, e, l)
  BY <1>1 DEF Dropped, Rec
<1>5. Renumbered(r) = Rec(s, vis, fr, no + 1, c, ref, e, l)
  BY <1>1 DEF Renumbered, Rec
<1>6. Left(r) = Rec(s, vis, Tail(fr), no, c, ref, e, l)
  <2> DEFINE rest == Tail(fr)
  <2>1. Left(r) = [r EXCEPT !.frames = rest]
    BY <1>1 DEF Left
  <2> HIDE DEF rest
  <2>2. Left(r) = Rec(s, vis, rest, no, c, ref, e, l)
    BY <2>1, <1>1 DEF Rec
  <2> QED BY <2>2 DEF rest
<1>7. Taken(r, v, f) = Rec(s, vis2, <<f>>, no, Append(c, <<v, no>>), ref, e, l)
  <2>1. Taken(r, v, f) = [r EXCEPT !.visited = vis2, !.calls = Append(c, <<v, no>>),
                                   !.frames = <<f>>]
    BY <1>1 DEF Taken, SetMark
  <2> HIDE DEF vis2
  <2> QED BY <2>1, <1>1 DEF Rec
<1>8. Timing(r, v, f) = Rec(s, vis2, <<f>>, no, c, ref, e, l)
  <2>1. Timing(r, v, f) = [r EXCEPT !.visited = vis2, !.frames = <<f>>]
    BY <1>1 DEF Timing, SetMark
  <2> HIDE DEF vis2
  <2> QED BY <2>1, <1>1 DEF Rec
<1>9. Enter(v, r) = Rec(s, vis1, <<Frame(v, graph.incident[v])>> \o fr, no,
                        Append(c, <<v, no>>), ref, e, l)
  <2>1. Enter(v, r) = [r EXCEPT !.visited = vis1, !.calls = Append(c, <<v, no>>),
                                !.frames = <<Frame(v, graph.incident[v])>> \o fr]
    BY <1>1 DEF Enter, SetMark
  <2> HIDE DEF vis1
  <2> QED BY <2>1, <1>1 DEF Rec
<1> QED BY <1>2, <1>3, <1>4, <1>5, <1>6, <1>7, <1>8, <1>9

(* The local variables have their types. *)
RunType(r) ==
  /\ IsRec(r)
  /\ r.start \in Vertices
  /\ r.visited \in [Vertices -> {"0", "1", "2"}]
  /\ r.frames \in Seq(FrameSet(Vertices, DOMAIN graph.edges))
  /\ r.subGraphNo \in Nat
  /\ r.calls \in CallSeq(Vertices)

(* Their first values.                                                     *)
LEMMA NewRunType ==
  ASSUME NEW s \in Vertices
  PROVE  /\ RunType(NewRun(s)) /\ NewRun(s).start = s /\ NewRun(s).frames = <<>>
         /\ NewRun(s).subGraphNo = 0 /\ NewRun(s).calls = <<>> /\ NewRun(s).refused = {}
         /\ NewRun(s).visited = [v \in Vertices |-> "0"]
<1> DEFINE early == [v \in Vertices |-> 0]
           late == [v \in Vertices |-> Infinity]
           vis == [v \in Vertices |-> "0"]
<1>1. NewRun(s) = Rec(s, vis, <<>>, 0, <<>>, {}, early, late)
  BY DEF NewRun, Rec
<1>2. vis \in [Vertices -> {"0", "1", "2"}]
  OBVIOUS
<1>3. <<>> \in Seq(FrameSet(Vertices, DOMAIN graph.edges)) /\ <<>> \in CallSeq(Vertices) /\ 0 \in Nat
  BY DEF CallSeq
<1> HIDE DEF vis, early, late
<1>4. /\ NewRun(s).start = s /\ NewRun(s).visited = vis /\ NewRun(s).frames = <<>>
      /\ NewRun(s).subGraphNo = 0 /\ NewRun(s).calls = <<>> /\ NewRun(s).refused = {}
      /\ IsRec(NewRun(s))
  <2> DEFINE r == NewRun(s)
  <2>1. r = Rec(s, vis, <<>>, 0, <<>>, {}, early, late)
    BY <1>1
  <2> HIDE DEF r
  <2>2. /\ r.start = s /\ r.visited = vis /\ r.frames = <<>>
        /\ r.subGraphNo = 0 /\ r.calls = <<>> /\ r.refused = {} /\ IsRec(r)
    BY <2>1, RecFields
  <2> QED BY <2>2 DEF r
<1> QED BY <1>2, <1>3, <1>4 DEF RunType, vis

-----------------------------------------------------------------------------
(* The marks of the vertices.                                              *)

(* What the marks of a breadth first traversal mean.  A root is queued     *)
(* without a mark, alone and while nothing is left to look at.             *)
BfsMarks(visited, calls, refused, q, looking) ==
  /\ Distinct(Word(calls, q), Len(calls) + Len(q))
  /\ \A v \in Vertices : visited[v] = "2" <=> v \in Called(calls)
  /\ \A v \in Vertices : visited[v] = "1" => v \in ToSet(q) \cup Lost(refused)
  /\ \A v \in ToSet(q) : visited[v] = "1" \/ (visited[v] = "0" /\ q = <<v>> /\ ~looking)
  /\ \A v \in Lost(refused) : v \in Vertices /\ visited[v] = "1" /\ v \notin ToSet(q)

(* A queue as a set, when a value is pushed and when one is popped.        *)
LEMMA SeqEnds ==
  ASSUME NEW S, NEW q \in Seq(S)
  PROVE  /\ ToSet(q) \subseteq S /\ ToSet(<<>>) = {}
         /\ \A v \in S : ToSet(Append(q, v)) = ToSet(q) \cup {v}
         /\ q # <<>> => /\ Head(q) \in S /\ Tail(q) \in Seq(S)
                        /\ ToSet(q) = {Head(q)} \cup ToSet(Tail(q))
                        /\ (Tail(q) = <<>> <=> q = <<Head(q)>>)
         /\ \A v \in S : q = <<v>> => Head(q) = v /\ Tail(q) = <<>>
<1> DEFINE m == Len(q)
<1>1. m \in Nat /\ DOMAIN q = 1 .. m /\ \A i \in 1 .. m : q[i] \in S
  OBVIOUS
<1>2. ToSet(q) \subseteq S /\ ToSet(<<>>) = {}
  BY <1>1 DEF ToSet
<1>3. ASSUME NEW v \in S PROVE ToSet(Append(q, v)) = ToSet(q) \cup {v}
  <2> DEFINE p == Append(q, v)
  <2>1. DOMAIN p = 1 .. m + 1 /\ p[m + 1] = v /\ \A i \in 1 .. m : p[i] = q[i]
    OBVIOUS
  <2>2. 1 .. m + 1 = (1 .. m) \cup {m + 1}
    BY <1>1
  <2> HIDE DEF p, m
  <2>3. ToSet(p) = ToSet(q) \cup {v}
    BY <2>1, <2>2, <1>1 DEF ToSet
  <2> QED BY <2>3 DEF p
<1>4. ASSUME q # <<>>
      PROVE  /\ Head(q) \in S /\ Tail(q) \in Seq(S)
             /\ ToSet(q) = {Head(q)} \cup ToSet(Tail(q))
             /\ (Tail(q) = <<>> <=> q = <<Head(q)>>)
  <2> DEFINE h == Head(q)
             p == Tail(q)
  <2>1. /\ m # 0 /\ h = q[1] /\ h \in S /\ p \in Seq(S) /\ DOMAIN p = 1 .. m - 1
        /\ Len(p) = m - 1
        /\ \A i \in 1 .. m - 1 : p[i] = q[i + 1]
    BY <1>4
  <2>2. p = <<>> <=> q = <<h>>
    <3>1. ASSUME p = <<>> PROVE q = <<h>>
      <4>1. Len(p) = 0
        <5> HIDE DEF p
        <5> QED BY <3>1
      <4>2. m = 1
        BY <1>1, <2>1, <4>1, SMTT(20)
      <4>3. q \in [1 .. 1 -> S]
        <5>1. q \in [1 .. m -> S]
          OBVIOUS
        <5> QED BY <5>1, <4>2
      <4>4. <<h>> \in [1 .. 1 -> S] /\ <<h>>[1] = h
        BY <2>1
      <4>5. \A i \in 1 .. 1 : i = 1
        OBVIOUS
      <4> HIDE DEF h
      <4> QED BY <4>3, <4>4, <4>5, <2>1
    <3>2. ASSUME q = <<h>> PROVE p = <<>>
      <4>1. m = 1
        <5> HIDE DEF h
        <5> QED BY <3>2
      <4>2. Len(p) = 0
        BY <4>1, <2>1
      <4> HIDE DEF p
      <4> QED BY <4>2, <2>1
    <3> QED BY <3>1, <3>2
  <2> HIDE DEF h, p, m
  <2>3. \A i \in 1 .. m : i = 1 \/ \E k \in 1 .. m - 1 : i = k + 1
    <3> SUFFICES ASSUME NEW i \in 1 .. m, i # 1 PROVE \E k \in 1 .. m - 1 : i = k + 1
      OBVIOUS
    <3>1. i - 1 \in 1 .. m - 1 /\ i = (i - 1) + 1
      BY <1>1
    <3> QED BY <3>1
  <2>4. 1 \in 1 .. m /\ \A k \in 1 .. m - 1 : k + 1 \in 1 .. m
    BY <1>1, <2>1
  <2>5. ToSet(q) = {q[i] : i \in 1 .. m} /\ ToSet(p) = {p[i] : i \in 1 .. m - 1}
    BY <1>1, <2>1 DEF ToSet
  <2>6. ToSet(q) = {h} \cup ToSet(p)
    <3>1. \A x \in ToSet(q) : x = h \/ x \in ToSet(p)
      <4> SUFFICES ASSUME NEW i \in 1 .. m PROVE q[i] = h \/ q[i] \in ToSet(p)
        BY <2>5
      <4>1. CASE i = 1
        BY <4>1, <2>1
      <4>2. CASE i # 1
        <5>1. PICK k \in 1 .. m - 1 : i = k + 1
          BY <4>2, <2>3
        <5>2. q[i] = p[k]
          BY <5>1, <2>1
        <5> QED BY <5>2, <2>5
      <4> QED BY <4>1, <4>2
    <3>2. h \in ToSet(q)
      BY <2>1, <2>4, <2>5
    <3>3. \A x \in ToSet(p) : x \in ToSet(q)
      <4> SUFFICES ASSUME NEW k \in 1 .. m - 1 PROVE p[k] \in ToSet(q)
        BY <2>5
      <4>1. p[k] = q[k + 1] /\ k + 1 \in 1 .. m
        BY <2>1, <2>4
      <4> QED BY <4>1, <2>5
    <3> QED BY <3>1, <3>2, <3>3
  <2> QED BY <2>1, <2>2, <2>6 DEF h, p
<1>5. \A v \in S : q = <<v>> => Head(q) = v /\ Tail(q) = <<>>
  OBVIOUS
<1> QED BY <1>2, <1>3, <1>4, <1>5

(* No vertex is twice in a word of distinct vertices. *)
LEMMA WordApart ==
  ASSUME NEW S, NEW calls \in CallSeq(S), NEW q \in Seq(S),
         Distinct(Word(calls, q), Len(calls) + Len(q))
  PROVE  /\ Called(calls) \cap ToSet(q) = {}
         /\ q # <<>> => Head(q) \notin ToSet(Tail(q))
<1> DEFINE w == Word(calls, q)
           n == Len(calls)
           m == Len(q)
<1>1. IsWord(w, calls, q) /\ Distinct(w, n + m)
  BY DEF IsWord
<1> HIDE DEF w
<1>2. /\ \A i \in 1 .. n : w[i] = calls[i][1]
      /\ \A i \in 1 .. m : w[n + i] = q[i]
      /\ n \in Nat /\ m \in Nat
  BY <1>1, WordType
<1>3. DOMAIN calls = 1 .. n /\ DOMAIN q = 1 .. m
  BY DEF CallSeq
<1>4. Called(calls) \cap ToSet(q) = {}
  <2> HIDE DEF n, m
  <2> SUFFICES ASSUME NEW i \in 1 .. n, NEW j \in 1 .. m, calls[i][1] = q[j] PROVE FALSE
    BY <1>3 DEF Called, ToSet
  <2>1. i \in 1 .. n + m /\ n + j \in 1 .. n + m /\ i # n + j
    BY <1>2
  <2>2. w[i] = w[n + j]
    BY <1>2
  <2> QED BY <2>1, <2>2, <1>1 DEF Distinct
<1>5. ASSUME q # <<>> PROVE Head(q) \notin ToSet(Tail(q))
  <2> DEFINE p == Tail(q)
  <2>1. /\ m # 0 /\ Head(q) = q[1] /\ DOMAIN p = 1 .. m - 1
        /\ \A i \in 1 .. m - 1 : p[i] = q[i + 1]
    BY <1>5
  <2> HIDE DEF p, n, m
  <2> SUFFICES ASSUME NEW j \in 1 .. m - 1, q[1] = p[j] PROVE FALSE
    BY <2>1 DEF ToSet, p
  <2>2. /\ 1 \in 1 .. m /\ j + 1 \in 1 .. m /\ n + 1 # n + (j + 1)
        /\ n + 1 \in 1 .. n + m /\ n + (j + 1) \in 1 .. n + m
    BY <1>2
  <2>3. w[n + 1] = q[1] /\ w[n + (j + 1)] = q[j + 1]
    BY <2>2, <1>2
  <2>4. w[n + 1] = w[n + (j + 1)]
    BY <2>1, <2>3
  <2> QED BY <2>2, <2>4, <1>1 DEF Distinct
<1> QED BY <1>4, <1>5

(* Nothing is twice in the word when a vertex not in it is queued.         *)
LEMMA WordAdds ==
  ASSUME NEW S, NEW calls \in CallSeq(S), NEW q \in Seq(S), NEW v \in S,
         Distinct(Word(calls, q), Len(calls) + Len(q)),
         v \notin Called(calls), v \notin ToSet(q)
  PROVE  Distinct(Word(calls, Append(q, v)), Len(calls) + Len(Append(q, v)))
<1> DEFINE w == Word(calls, q)
           p == Append(q, v)
           w2 == Word(calls, p)
           len == Len(calls) + Len(q)
<1>1. Len(calls) \in Nat /\ Len(q) \in Nat /\ Len(p) = Len(q) + 1
  BY DEF CallSeq
<1>2. len \in Nat /\ len + 1 = Len(calls) + Len(p)
  BY <1>1
<1>3. Longer(w2, w, len, v)
  BY WordQueued
<1>4. IsWord(w, calls, q) /\ Distinct(w, len)
  BY DEF IsWord
<1> HIDE DEF w, w2, p
<1>5. Part(w, 1, len) = Called(calls) \cup ToSet(q)
  BY <1>4, WordParts
<1> HIDE DEF len
<1>6. v \notin Part(w, 1, len)
  BY <1>5
<1>7. Distinct(w2, len + 1)
  BY <1>2, <1>3, <1>4, <1>6, LongerDistinct
<1> QED BY <1>2, <1>7 DEF w2, p

(* Nor when one is taken from the queue.                                   *)
LEMMA WordTakes ==
  ASSUME NEW S, NEW calls \in CallSeq(S), NEW q \in Seq(S), q # <<>>, NEW no \in Nat,
         Distinct(Word(calls, q), Len(calls) + Len(q)),
         NEW c, c = Append(calls, <<Head(q), no>>)
  PROVE  Distinct(Word(c, Tail(q)), Len(c) + Len(Tail(q)))
<1>1. Word(c, Tail(q)) = Word(calls, q)
  BY WordVisited
<1>2. Len(c) = Len(calls) + 1 /\ Len(calls) \in Nat
  BY SeqEnds DEF CallSeq
<1>3. Len(Tail(q)) = Len(q) - 1 /\ Len(q) \in Nat
  OBVIOUS
<1>4. Len(c) + Len(Tail(q)) = Len(calls) + Len(q)
  BY <1>2, <1>3
<1> QED BY <1>1, <1>4

(* The marks after one of them is set.                                     *)
LEMMA SetMarkIs ==
  ASSUME NEW V, NEW visited \in [V -> {"0", "1", "2"}], NEW v \in V,
         NEW mark \in {"0", "1", "2"}
  PROVE  /\ SetMark(visited, v, mark) \in [V -> {"0", "1", "2"}]
         /\ SetMark(visited, v, mark)[v] = mark
         /\ \A u \in V : u # v => SetMark(visited, v, mark)[u] = visited[u]
BY DEF SetMark

(* A root that is not queued is not lost: it has no mark.                  *)
LEMMA LostIs ==
  ASSUME NEW refused, NEW v
  PROVE  /\ Lost({}) = {}
         /\ Lost(refused \cup {<<"root", v>>}) = Lost(refused)
         /\ Lost(refused \cup {<<"edge", v>>}) = Lost(refused) \cup {v}
<1>1. <<"root", v>>[1] = "root" /\ <<"edge", v>>[1] = "edge" /\ <<"edge", v>>[2] = v
      /\ "root" # "edge"
  OBVIOUS
<1> DEFINE r == <<"root", v>>
           e == <<"edge", v>>
<1>2. r[1] # "edge" /\ e[1] = "edge" /\ e[2] = v
  BY <1>1
<1> HIDE DEF r, e
<1>3. Lost(refused \cup {r}) = Lost(refused)
  BY <1>2 DEF Lost
<1>4. Lost(refused \cup {e}) = Lost(refused) \cup {v}
  BY <1>2 DEF Lost
<1>5. Lost({}) = {}
  BY DEF Lost
<1> QED BY <1>3, <1>4, <1>5 DEF r, e

(* At first no vertex has a mark.                                          *)
LEMMA MarksFirst ==
  ASSUME NEW visited, visited = [v \in Vertices |-> "0"], NEW looking
  PROVE  BfsMarks(visited, <<>>, {}, <<>>, looking)
<1> DEFINE c == <<>>
<1>1. Len(c) = 0 /\ DOMAIN c = {} /\ Len(c) + Len(c) = 0
  OBVIOUS
<1>2. \A i \in 1 .. 0 : FALSE
  OBVIOUS
<1>3. ToSet(c) = {} /\ Called(c) = {} /\ Lost({}) = {}
  BY <1>1, LostIs DEF ToSet, Called
<1>4. \A v \in Vertices : visited[v] = "0" /\ visited[v] # "1" /\ visited[v] # "2"
  OBVIOUS
<1> HIDE DEF c
<1>5. BfsMarks(visited, c, {}, c, looking)
  BY <1>1, <1>2, <1>3, <1>4 DEF BfsMarks, Distinct
<1> QED BY <1>5 DEF c

(* A root is queued, or its push fails.                                    *)
LEMMA MarksRoot ==
  ASSUME NEW visited, NEW calls \in CallSeq(Vertices), NEW refused, NEW looking,
         BfsMarks(visited, calls, refused, <<>>, looking),
         NEW v \in Vertices, visited[v] = "0"
  PROVE  /\ BfsMarks(visited, calls, refused, Append(<<>>, v), FALSE)
         /\ BfsMarks(visited, calls, refused \cup {<<"root", v>>}, <<>>, FALSE)
<1> DEFINE q == <<>>
           p == Append(q, v)
<1>1. q \in Seq(Vertices) /\ ToSet(q) = {} /\ ToSet(p) = {v} /\ p = <<v>>
  <2>1. q \in Seq(Vertices) /\ p = <<v>>
    OBVIOUS
  <2>2. ToSet(q) = {}
    BY DEF ToSet
  <2> HIDE DEF q
  <2>3. ToSet(p) = ToSet(q) \cup {v}
    <3>1. q \in Seq(Vertices)
      BY <2>1
    <3> QED BY <3>1, SeqEnds
  <2> QED BY <2>1, <2>2, <2>3
<1>2. BfsMarks(visited, calls, refused, q, looking)
  OBVIOUS
<1> HIDE DEF q, p
<1>3. v \notin Called(calls) /\ v \notin Lost(refused)
  BY <1>2 DEF BfsMarks
<1>4. Distinct(Word(calls, p), Len(calls) + Len(p))
  <2>1. v \notin ToSet(q)
    BY <1>1
  <2>2. Distinct(Word(calls, q), Len(calls) + Len(q))
    BY <1>2 DEF BfsMarks
  <2> QED BY <1>1, <1>3, <2>1, <2>2, WordAdds DEF p
<1>5. BfsMarks(visited, calls, refused, p, FALSE)
  BY <1>1, <1>2, <1>3, <1>4 DEF BfsMarks
<1>6. Lost(refused \cup {<<"root", v>>}) = Lost(refused)
  BY LostIs
<1> DEFINE ref == refused \cup {<<"root", v>>}
<1> HIDE DEF ref
<1>7. Lost(ref) = Lost(refused)
  BY <1>6 DEF ref
<1>8. BfsMarks(visited, calls, ref, q, FALSE)
  BY <1>1, <1>2, <1>7 DEF BfsMarks
<1> QED BY <1>5, <1>8 DEF q, p, ref

(* The vertices called back for, after one more call.                      *)
LEMMA CalledAppend ==
  ASSUME NEW S, NEW calls \in CallSeq(S), NEW v \in S, NEW no \in Nat
  PROVE  Called(Append(calls, <<v, no>>)) = Called(calls) \cup {v}
<1> DEFINE c == Append(calls, <<v, no>>)
<1>1. c = Append(calls, <<v, no>>)
  OBVIOUS
<1> HIDE DEF c
<1> DEFINE n == Len(calls)
<1>2. /\ n \in Nat /\ DOMAIN calls = 1 .. n /\ DOMAIN c = 1 .. n + 1
      /\ \A i \in 1 .. n : c[i] = calls[i]
      /\ c[n + 1][1] = v
  BY <1>1, CallAppended
<1> HIDE DEF n
<1>3. \A i \in 1 .. n : c[i][1] = calls[i][1]
  BY <1>2
<1>4. 1 .. n + 1 = (1 .. n) \cup {n + 1}
  BY <1>2
<1>5. Called(c) = Called(calls) \cup {v}
  BY <1>2, <1>3, <1>4 DEF Called
<1> QED BY <1>5 DEF c

(* A vertex is taken from the queue and marked 2.                          *)
LEMMA MarksTaken ==
  ASSUME NEW visited \in [Vertices -> {"0", "1", "2"}], NEW calls \in CallSeq(Vertices),
         NEW refused, NEW q \in Seq(Vertices), NEW looking, NEW looking2, NEW no \in Nat,
         BfsMarks(visited, calls, refused, q, looking), q # <<>>
  PROVE  BfsMarks(SetMark(visited, Head(q), "2"), Append(calls, <<Head(q), no>>),
                  refused, Tail(q), looking2)
<1> DEFINE x == Head(q)
           p == Tail(q)
           c == Append(calls, <<x, no>>)
           vis == SetMark(visited, x, "2")
<1>1. /\ x \in Vertices /\ p \in Seq(Vertices) /\ ToSet(q) = {x} \cup ToSet(p)
      /\ p = <<>> <=> q = <<x>>
  BY SeqEnds
<1>2. x \notin Called(calls) /\ x \notin ToSet(p)
  BY <1>1, WordApart DEF BfsMarks
<1>3. Called(c) = Called(calls) \cup {x}
  <2>1. x \in Vertices
    BY <1>1
  <2>2. c = Append(calls, <<x, no>>)
    OBVIOUS
  <2> HIDE DEF x, c
  <2>3. Called(Append(calls, <<x, no>>)) = Called(calls) \cup {x}
    BY <2>1, CalledAppend
  <2> QED BY <2>2, <2>3
<1>4. Distinct(Word(c, p), Len(c) + Len(p))
  BY WordTakes DEF BfsMarks
<1>5. vis[x] = "2" /\ \A u \in Vertices : u # x => vis[u] = visited[u]
  BY <1>1, SetMarkIs
<1>6. /\ \A v \in Vertices : visited[v] = "2" <=> v \in Called(calls)
      /\ \A v \in Vertices : visited[v] = "1" => v \in ToSet(q) \cup Lost(refused)
      /\ \A v \in ToSet(q) : visited[v] = "1" \/ (visited[v] = "0" /\ q = <<v>>)
      /\ \A v \in Lost(refused) : v \in Vertices /\ visited[v] = "1" /\ v \notin ToSet(q)
  BY DEF BfsMarks
<1>7. ToSet(p) \subseteq Vertices
  BY <1>1, SeqEnds
<1>e. p = <<>> => ToSet(p) = {}
  BY SeqEnds
<1>u. \A v \in Vertices : q = <<v>> => x = v
  BY SeqEnds
<1> HIDE DEF x, p, c, vis
<1>8. \A v \in Vertices : vis[v] = "2" <=> v \in Called(c)
  BY <1>3, <1>5, <1>6
<1>9. \A v \in Vertices : vis[v] = "1" => v \in ToSet(p) \cup Lost(refused)
  <2> SUFFICES ASSUME NEW v \in Vertices, vis[v] = "1" PROVE v \in ToSet(p) \cup Lost(refused)
    OBVIOUS
  <2>1. v # x
    BY <1>5
  <2>2. visited[v] = "1"
    BY <2>1, <1>5
  <2> QED BY <2>1, <2>2, <1>1, <1>6
<1>10. \A v \in ToSet(p) : vis[v] = "1"
  <2> SUFFICES ASSUME NEW v \in ToSet(p) PROVE vis[v] = "1"
    OBVIOUS
  <2>1. v # x /\ v \in ToSet(q) /\ v \in Vertices
    BY <1>1, <1>2, <1>7
  <2>2. q # <<v>>
    BY <2>1, <1>u
  <2>3. visited[v] = "1"
    BY <2>1, <2>2, <1>6
  <2> QED BY <2>1, <2>3, <1>5
<1>11. \A v \in Lost(refused) : v \in Vertices /\ vis[v] = "1" /\ v \notin ToSet(p)
  BY <1>1, <1>5, <1>6
<1>12. BfsMarks(vis, c, refused, p, looking2)
  BY <1>4, <1>8, <1>9, <1>10, <1>11 DEF BfsMarks
<1> QED BY <1>12 DEF x, p, c, vis

(* What is to be looked at says more than nothing of the root.             *)
LEMMA MarksLooked ==
  ASSUME NEW visited, NEW calls, NEW refused, NEW q, NEW looking2,
         BfsMarks(visited, calls, refused, q, TRUE)
  PROVE  BfsMarks(visited, calls, refused, q, looking2)
BY DEF BfsMarks

(* A vertex with a mark is in the word, if none was lost.                  *)
LEMMA MarksMet ==
  ASSUME NEW visited \in [Vertices -> {"0", "1", "2"}], NEW calls \in CallSeq(Vertices),
         NEW q \in Seq(Vertices), BfsMarks(visited, calls, {}, q, TRUE),
         NEW v \in Vertices, visited[v] # "0",
         NEW w, IsWord(w, calls, q)
  PROVE  v \in Part(w, 1, Len(calls) + Len(q))
<1>1. visited[v] = "1" \/ visited[v] = "2"
  OBVIOUS
<1>2. v \in Called(calls) \cup ToSet(q)
  BY <1>1, LostIs DEF BfsMarks
<1> QED BY <1>2, WordParts

(* A vertex without a mark is marked 1, and queued or lost.                *)
LEMMA MarksUnmet ==
  ASSUME NEW visited \in [Vertices -> {"0", "1", "2"}], NEW calls \in CallSeq(Vertices),
         NEW refused, NEW q \in Seq(Vertices), NEW looking2,
         BfsMarks(visited, calls, refused, q, TRUE),
         NEW v \in Vertices, visited[v] = "0"
  PROVE  /\ BfsMarks(SetMark(visited, v, "1"), calls, refused, Append(q, v), looking2)
         /\ BfsMarks(SetMark(visited, v, "1"), calls, refused \cup {<<"edge", v>>}, q, looking2)
<1> DEFINE p == Append(q, v)
           vis == SetMark(visited, v, "1")
           ref == refused \cup {<<"edge", v>>}
<1>1. ToSet(p) = ToSet(q) \cup {v} /\ ToSet(q) \subseteq Vertices
  BY SeqEnds
<1>2. Lost(ref) = Lost(refused) \cup {v}
  BY LostIs
<1>3. vis[v] = "1" /\ \A u \in Vertices : u # v => vis[u] = visited[u]
  BY SetMarkIs
<1>4. /\ \A u \in Vertices : visited[u] = "2" <=> u \in Called(calls)
      /\ \A u \in Vertices : visited[u] = "1" => u \in ToSet(q) \cup Lost(refused)
      /\ \A u \in ToSet(q) : visited[u] = "1"
      /\ \A u \in Lost(refused) : u \in Vertices /\ visited[u] = "1" /\ u \notin ToSet(q)
      /\ Distinct(Word(calls, q), Len(calls) + Len(q))
  BY DEF BfsMarks
<1>5. v \notin Called(calls) /\ v \notin ToSet(q) /\ v \notin Lost(refused)
  BY <1>4
<1>6. Distinct(Word(calls, p), Len(calls) + Len(p))
  BY <1>4, <1>5, WordAdds
<1> HIDE DEF p, vis, ref
<1>7. BfsMarks(vis, calls, refused, p, looking2)
  BY <1>1, <1>3, <1>4, <1>5, <1>6 DEF BfsMarks
<1>8. BfsMarks(vis, calls, ref, q, looking2)
  BY <1>1, <1>2, <1>3, <1>4, <1>5 DEF BfsMarks
<1> QED BY <1>7, <1>8 DEF p, vis, ref

(* The vertices called back for are as many as the calls. *)
LEMMA CalledCount ==
  ASSUME NEW S, NEW calls \in CallSeq(S), Distinct(Word(calls, <<>>), Len(calls))
  PROVE  Cardinality(Called(calls)) = Len(calls)
<1> DEFINE n == Len(calls)
           w == Word(calls, <<>>)
<1>1. IsWord(w, calls, <<>>) /\ Distinct(w, n)
  BY DEF IsWord
<1> HIDE DEF w
<1>2. /\ \A i \in 1 .. n : w[i] = calls[i][1]
      /\ w \in [1 .. n -> S] /\ n \in Nat /\ DOMAIN calls = 1 .. n
  BY <1>1, WordOfCalls
<1> HIDE DEF n
<1>3. w \in Bijection(1 .. n, Called(calls))
  <2>1. \A i \in 1 .. n : w[i] \in Called(calls)
    BY <1>2 DEF Called
  <2>2. \A x \in Called(calls) : \E i \in 1 .. n : w[i] = x
    BY <1>2 DEF Called
  <2>3. w \in [1 .. n -> Called(calls)]
    BY <1>2, <2>1
  <2> QED BY <2>2, <2>3, <1>1 DEF Bijection, Injection, Surjection, IsInjective, Distinct
<1>4. IsFiniteSet(1 .. n) /\ Cardinality(1 .. n) = n
  BY <1>2, FS_Interval
<1>5. Cardinality(1 .. n) = Cardinality(Called(calls))
  <2>1. ExistsBijection(1 .. n, Called(calls))
    BY <1>3 DEF ExistsBijection
  <2> QED BY <1>4, <2>1, FS_Bijection
<1> QED BY <1>4, <1>5 DEF n

(* When the queue is empty the vertices without a mark are those neither   *)
(* called back for nor lost.                                               *)
LEMMA MarksEnd ==
  ASSUME NEW visited \in [Vertices -> {"0", "1", "2"}], NEW calls \in CallSeq(Vertices),
         NEW refused, NEW looking, BfsMarks(visited, calls, refused, <<>>, looking)
  PROVE  /\ Distinct(Word(calls, <<>>), Len(calls))
         /\ Cardinality(Called(calls)) = Len(calls)
         /\ {v \in Vertices : visited[v] = "0"} = Vertices \ (Called(calls) \cup Lost(refused))
         /\ Called(calls) \subseteq Vertices /\ Called(calls) \cap Lost(refused) = {}
<1>1. Len(calls) + Len(<<>>) = Len(calls) /\ Len(calls) \in Nat
  BY DEF CallSeq
<1>2. Distinct(Word(calls, <<>>), Len(calls))
  BY <1>1 DEF BfsMarks
<1>3. Cardinality(Called(calls)) = Len(calls)
  BY <1>2, CalledCount
<1>4. ToSet(<<>>) = {}
  BY DEF ToSet
<1>5. /\ \A v \in Vertices : visited[v] = "2" <=> v \in Called(calls)
      /\ \A v \in Vertices : visited[v] = "1" <=> v \in Lost(refused)
      /\ \A v \in Vertices : visited[v] \in {"0", "1", "2"}
      /\ \A v \in Lost(refused) : v \in Vertices /\ visited[v] = "1"
  BY <1>4 DEF BfsMarks
<1>6. Called(calls) \subseteq Vertices
  <2>1. \A i \in DOMAIN calls : calls[i][1] \in Vertices
    BY DEF CallSeq
  <2> QED BY <2>1 DEF Called
<1>7. {v \in Vertices : visited[v] = "0"} = Vertices \ (Called(calls) \cup Lost(refused))
  BY <1>5
<1>8. Called(calls) \cap Lost(refused) = {}
  BY <1>5
<1> QED BY <1>2, <1>3, <1>6, <1>7, <1>8

-----------------------------------------------------------------------------
(* The search breadth first, step by step.                                 *)

(* The search of a breadth first traversal that has lost no vertex.        *)
BfsOn(start, calls, no, w, len, b, level, pend, looking) ==
  /\ Pieces("bfs", start, calls, no, w, len, b)
  /\ Levels(level, w, len, b, Len(calls))
  /\ Covered(Arcs, level, w, len, b, Len(calls), pend)
  /\ looking => b < Len(calls)

BfsFound(start, calls, no, q, pend, looking) ==
  \E b, level : BfsOn(start, calls, no, Word(calls, q), Len(calls) + Len(q), b, level,
                      pend, looking)

(* start is queued.                                                        *)
LEMMA BfsFirstFound ==
  ASSUME NEW start \in Vertices, NEW pend
  PROVE  BfsFound(start, <<>>, 0, Append(<<>>, start), pend, FALSE)
<1> DEFINE c == <<>>
           q == Append(c, start)
           w == Word(c, q)
<1>1. c \in CallSeq(Vertices) /\ c \in Seq(Vertices) /\ Len(c) = 0
  BY DEF CallSeq
<1>2. q \in Seq(Vertices) /\ Len(q) = 1 /\ q[1] = start
  OBVIOUS
<1>3. IsWord(w, c, q)
  BY DEF IsWord
<1> HIDE DEF w, q, c
<1>4. w[1] = start
  <2>1. \A i \in 1 .. Len(q) : w[Len(c) + i] = q[i]
    BY <1>1, <1>2, <1>3, WordType
  <2>2. 1 \in 1 .. Len(q) /\ Len(c) + 1 = 1
    BY <1>1, <1>2
  <2> QED BY <2>1, <2>2, <1>2
<1>5. Pieces("bfs", start, c, 0, w, 1, 0)
  BY <1>4, PiecesFirst DEF c
<1>6. PICK level : Levels(level, w, 0 + 1, 0, 0) /\ Covered(Arcs, level, w, 0 + 1, 0, 0, pend)
  BY RootLevels
<1>7. 0 + 1 = 1 /\ Len(c) + Len(q) = 1
  BY <1>1, <1>2
<1>8. BfsOn(start, c, 0, w, 1, 0, level, pend, FALSE)
  BY <1>1, <1>5, <1>6, <1>7 DEF BfsOn
<1> QED BY <1>7, <1>8 DEF BfsFound, c, q, w

(* A vertex is taken from the queue when the one before it has been looked *)
(* at.                                                                     *)
LEMMA BfsTakenFound ==
  ASSUME NEW start, NEW calls \in CallSeq(Vertices), NEW no \in Nat, NEW q \in Seq(Vertices),
         NEW looking, BfsFound(start, calls, no, q, {}, looking), q # <<>>,
         NEW pend, \A a \in Arcs : a[1] = Head(q) => a \in pend, NEW looking2
  PROVE  BfsFound(start, Append(calls, <<Head(q), no>>), no, Tail(q), pend, looking2)
<1> DEFINE x == Head(q)
           c == Append(calls, <<x, no>>)
           p == Tail(q)
           w == Word(calls, q)
           m == Len(calls)
           len == m + Len(q)
<1>1. PICK b, level : BfsOn(start, calls, no, w, len, b, level, {}, looking)
  BY DEF BfsFound
<1>2. /\ x \in Vertices /\ x = q[1] /\ Len(q) \in Nat /\ Len(q) # 0
      /\ Len(p) = Len(q) - 1
  OBVIOUS
<1>3. m \in Nat /\ Len(c) = m + 1
  BY <1>2 DEF CallSeq
<1>4. IsWord(w, calls, q)
  BY DEF IsWord
<1>5. Word(c, p) = w
  BY WordVisited
<1> HIDE DEF x, p, w
<1>6. w[m + 1] = x
  <2>1. \A i \in 1 .. Len(q) : w[Len(calls) + i] = q[i]
    BY <1>4, WordType
  <2>2. 1 \in 1 .. Len(q)
    BY <1>2
  <2> QED BY <2>1, <2>2, <1>2
<1>7. len \in Nat /\ m \in 0 .. len /\ m < len /\ Len(c) + Len(p) = len
  BY <1>2, <1>3
<1> HIDE DEF c, len
<1>8. Pieces("bfs", start, calls, no, w, len, b) /\ Levels(level, w, len, b, m)
      /\ Covered(Arcs, level, w, len, b, m, {})
  BY <1>1 DEF BfsOn
<1>9. b \in 0 .. m
  BY <1>8 DEF Pieces, Numbering
<1> HIDE DEF m
<1>10. b \in Nat /\ m \in b .. len /\ b < m + 1
  BY <1>3, <1>7, <1>9
<1>11. \A a \in Arcs : a[1] = w[m + 1] => a \in pend
  BY <1>6 DEF x
<1>12. Levels(level, w, len, b, m + 1) /\ Covered(Arcs, level, w, len, b, m + 1, pend)
  BY <1>7, <1>8, <1>10, <1>11, TakenLevels
<1>13. Pieces("bfs", start, c, no, w, len, b)
  <2>1. Pieces("bfs", start, calls, no, w, len, b)
    BY <1>8
  <2>2. x \in Vertices
    BY <1>2
  <2>3. Pieces("bfs", start, Append(calls, <<x, no>>), no, w, len, b)
    BY <2>1, <2>2, PiecesCalled
  <2> QED BY <2>3 DEF c
<1>14. BfsOn(start, c, no, w, len, b, level, pend, looking2)
  BY <1>3, <1>10, <1>12, <1>13 DEF BfsOn
<1>15. BfsFound(start, c, no, p, pend, looking2)
  BY <1>5, <1>7, <1>14 DEF BfsFound
<1> QED BY <1>15 DEF c, p, x

(* An arc leads to a vertex met before.                                    *)
LEMMA BfsMetFound ==
  ASSUME NEW start, NEW calls \in CallSeq(Vertices), NEW no, NEW q \in Seq(Vertices),
         NEW pend, BfsFound(start, calls, no, q, pend, TRUE),
         NEW pend2, NEW u, pend \subseteq pend2 \cup {<<calls[Len(calls)][1], u>>},
         u \in Part(Word(calls, q), 1, Len(calls) + Len(q)), NEW looking2
  PROVE  BfsFound(start, calls, no, q, pend2, looking2)
<1> DEFINE w == Word(calls, q)
           m == Len(calls)
           len == m + Len(q)
<1>1. PICK b, level : BfsOn(start, calls, no, w, len, b, level, pend, TRUE)
  BY DEF BfsFound
<1>2. IsWord(w, calls, q)
  BY DEF IsWord
<1>3. Len(q) \in Nat /\ m \in Nat
  BY DEF CallSeq
<1>u. u \in Part(w, 1, len)
  OBVIOUS
<1> HIDE DEF w
<1>4. len \in Nat /\ m <= len
  BY <1>3
<1>5. Pieces("bfs", start, calls, no, w, len, b) /\ Levels(level, w, len, b, m)
      /\ Covered(Arcs, level, w, len, b, m, pend) /\ b < m
  BY <1>1 DEF BfsOn
<1>6. b \in 0 .. m
  BY <1>5 DEF Pieces, Numbering
<1>7. w[m] = calls[m][1]
  <2>1. \A i \in 1 .. Len(calls) : w[i] = calls[i][1]
    BY <1>2, WordType
  <2>2. m \in 1 .. m
    BY <1>3, <1>5, <1>6
  <2> QED BY <2>1, <2>2
<1>8. pend \subseteq pend2 \cup {<<w[m], u>>}
  BY <1>7
<1> HIDE DEF m, len
<1>9. b \in Nat /\ m \in b + 1 .. len
  BY <1>3, <1>4, <1>5, <1>6
<1>10. Covered(Arcs, level, w, len, b, m, pend2)
  BY <1>4, <1>5, <1>8, <1>9, <1>u, MetCovered
<1>11. BfsOn(start, calls, no, w, len, b, level, pend2, looking2)
  BY <1>5, <1>10 DEF BfsOn, m
<1> QED BY <1>11 DEF BfsFound, w, m, len

(* An arc leads to a vertex not met, which is queued.                      *)
LEMMA BfsUnmetFound ==
  ASSUME NEW start, NEW calls \in CallSeq(Vertices), NEW no, NEW q \in Seq(Vertices),
         NEW pend, BfsFound(start, calls, no, q, pend, TRUE),
         NEW pend2, NEW u \in Vertices, pend \subseteq pend2 \cup {<<calls[Len(calls)][1], u>>},
         <<calls[Len(calls)][1], u>> \in Arcs, NEW looking2
  PROVE  BfsFound(start, calls, no, Append(q, u), pend2, looking2)
<1> DEFINE w == Word(calls, q)
           p == Append(q, u)
           w2 == Word(calls, p)
           m == Len(calls)
           len == m + Len(q)
<1>1. PICK b, level : BfsOn(start, calls, no, w, len, b, level, pend, TRUE)
  BY DEF BfsFound
<1>2. IsWord(w, calls, q)
  BY DEF IsWord
<1>3. Len(q) \in Nat /\ m \in Nat /\ Len(p) = Len(q) + 1
  BY DEF CallSeq
<1>L. Longer(w2, w, len, u)
  BY WordQueued
<1> HIDE DEF w, w2, p
<1>4. len \in Nat /\ m <= len /\ m + Len(p) = len + 1
  BY <1>3
<1>5. Pieces("bfs", start, calls, no, w, len, b) /\ Levels(level, w, len, b, m)
      /\ Covered(Arcs, level, w, len, b, m, pend) /\ b < m
  BY <1>1 DEF BfsOn
<1>6. b \in 0 .. m
  BY <1>5 DEF Pieces, Numbering
<1>7. w[m] = calls[m][1]
  <2>1. \A i \in 1 .. Len(calls) : w[i] = calls[i][1]
    BY <1>2, WordType
  <2>2. m \in 1 .. m
    BY <1>3, <1>5, <1>6
  <2> QED BY <2>1, <2>2
<1>8. pend \subseteq pend2 \cup {<<w[m], u>>} /\ <<w[m], u>> \in Arcs
  BY <1>7
<1> HIDE DEF len
<1>9. b \in Nat /\ m \in b + 1 .. len
  <2> HIDE DEF m
  <2> QED BY <1>3, <1>4, <1>5, <1>6
<1>10. PICK level2 : /\ Levels(level2, w2, len + 1, b, m)
                     /\ Covered(Arcs, level2, w2, len + 1, b, m, pend2)
  <2> HIDE DEF m
  <2> QED BY <1>4, <1>5, <1>8, <1>9, <1>L, UnmetLevels
<1>11. Pieces("bfs", start, calls, no, w2, len + 1, b)
  <2>1. \E j \in b + 1 .. len : <<w[j], u>> \in Arcs
    BY <1>8, <1>9
  <2>2. Len(calls) \in Nat /\ len \in Nat
    BY <1>3, <1>4
  <2>3. Pieces("bfs", start, calls, no, w, len, b)
    BY <1>5
  <2> QED BY <2>1, <2>2, <2>3, <1>L, PiecesMet
<1>12. BfsOn(start, calls, no, w2, len + 1, b, level2, pend2, looking2)
  BY <1>5, <1>10, <1>11 DEF BfsOn
<1>13. BfsFound(start, calls, no, p, pend2, looking2)
  BY <1>4, <1>12 DEF BfsFound, w2
<1> QED BY <1>13 DEF p

(* Every piece is exact when the queue is empty. *)
PiecesExact(op, start, calls, no) ==
  /\ \A k \in 0 .. no : PieceExact(op, start, calls, k)
  /\ \A i \in DOMAIN calls : calls[i][2] \in 0 .. no

(* Every piece is exact when the last one is.                              *)
LEMMA PiecesEnd ==
  ASSUME NEW S, NEW calls \in CallSeq(S), NEW no \in Nat, NEW op, NEW start, NEW w, NEW len,
         NEW b, Pieces(op, start, calls, no, w, len, b), PieceExact(op, start, calls, no)
  PROVE  PiecesExact(op, start, calls, no)
<1>1. ASSUME NEW k \in 0 .. no PROVE PieceExact(op, start, calls, k)
  <2>1. k = no \/ k \in 0 .. no - 1
    OBVIOUS
  <2> QED BY <2>1 DEF Pieces
<1>2. Numbering(calls, no, b)
  BY DEF Pieces
<1>3. ASSUME NEW i \in DOMAIN calls PROVE calls[i][2] \in 0 .. no
  <2> DEFINE x == calls[i][2]
             n == Len(calls)
  <2>1. DOMAIN calls = 1 .. n /\ n \in Nat /\ x \in Nat
    BY DEF CallSeq
  <2>2. i \in 1 .. b \/ i \in b + 1 .. n
    <3>1. b \in 0 .. n
      BY <1>2 DEF Numbering
    <3> HIDE DEF n
    <3> QED BY <3>1, <2>1
  <2>3. x < no \/ x = no
    BY <1>2, <2>2 DEF Numbering
  <2> HIDE DEF x
  <2>4. x \in 0 .. no
    BY <2>1, <2>3
  <2> QED BY <2>4 DEF x
<1> QED BY <1>1, <1>3 DEF PiecesExact

(* When the queue is empty every piece is exact.                           *)
LEMMA BfsFoundEnd ==
  ASSUME GraphShape, graph # NULL,
         NEW start, NEW calls \in CallSeq(Vertices), NEW no \in Nat, NEW looking,
         BfsFound(start, calls, no, <<>>, {}, looking),
         Distinct(Word(calls, <<>>), Len(calls))
  PROVE  /\ PiecesExact("bfs", start, calls, no)
<1> DEFINE w == Word(calls, <<>>)
           n == Len(calls)
<1>1. n \in Nat /\ n + Len(<<>>) = n
  BY DEF CallSeq
<1>2. PICK b, level : BfsOn(start, calls, no, w, n, b, level, {}, looking)
  BY <1>1 DEF BfsFound
<1>3. IsWord(w, calls, <<>>) /\ Distinct(w, n)
  BY DEF IsWord
<1> HIDE DEF w, n
<1>4. Pieces("bfs", start, calls, no, w, n, b)
  BY <1>2 DEF BfsOn
<1>5. Levels(level, w, n, b, n)
  BY <1>2 DEF BfsOn, n
<1>6. Covered(Arcs, level, w, n, b, n, {})
  BY <1>2 DEF BfsOn, n
<1>7. b \in 0 .. n /\ ClosedUnder(Arcs, Part(w, 1, b))
  BY <1>4 DEF Pieces, Numbering, n
<1>8. AllSeen(Arcs, level, w, n, b) /\ ClosedUnder(Arcs, Part(w, 1, n))
  BY <1>1, <1>6, <1>7, CoveredEnds
<1>9. PieceExact("bfs", start, calls, no)
  BY <1>3, <1>4, <1>5, <1>8, PieceEnds DEF n
<1>10. PiecesExact("bfs", start, calls, no)
  BY <1>4, <1>9, PiecesEnd
<1> QED BY <1>10

(* The first vertex not met is the root of the next piece.                 *)
LEMMA BfsFoundNext ==
  ASSUME GraphShape, graph # NULL,
         NEW start, NEW calls \in CallSeq(Vertices), NEW no \in Nat, NEW looking,
         BfsFound(start, calls, no, <<>>, {}, looking),
         Distinct(Word(calls, <<>>), Len(calls)),
         NEW v \in Vertices, v = Min(Vertices \ Called(calls)), NEW pend
  PROVE  BfsFound(start, calls, no + 1, Append(<<>>, v), pend, FALSE)
<1> DEFINE e == <<>>
           w == Word(calls, e)
           n == Len(calls)
           p == Append(e, v)
           w2 == Word(calls, p)
<1>1. n \in Nat /\ n + Len(e) = n /\ Len(p) = 1 /\ e \in Seq(Vertices)
  BY DEF CallSeq
<1>2. PICK b, level : BfsOn(start, calls, no, w, n, b, level, {}, looking)
  BY <1>1 DEF BfsFound
<1>3. IsWord(w, calls, e)
  BY DEF IsWord
<1>x. PiecesExact("bfs", start, calls, no)
  BY BfsFoundEnd
<1> HIDE DEF e
<1>L. Longer(w2, w, n, v)
  <2>1. Longer(w2, w, Len(calls) + Len(e), v)
    BY <1>1, WordQueued
  <2> QED BY <2>1, <1>1
<1>C. Called(calls) = Part(w, 1, n)
  BY <1>1, <1>3, WordParts
<1> HIDE DEF w, n, p, w2
<1>4. Pieces("bfs", start, calls, no, w, n, b)
  BY <1>2 DEF BfsOn
<1>6. Covered(Arcs, level, w, n, b, n, {})
  BY <1>2 DEF BfsOn, n
<1>7. b \in 0 .. n /\ ClosedUnder(Arcs, Part(w, 1, b))
  BY <1>4 DEF Pieces, Numbering, n
<1>8. ClosedUnder(Arcs, Part(w, 1, n))
  BY <1>1, <1>6, <1>7, CoveredEnds
<1>9. PieceExact("bfs", start, calls, no)
  <2>1. no \in 0 .. no
    OBVIOUS
  <2> QED BY <2>1, <1>x DEF PiecesExact
<1>10. Pieces("bfs", start, calls, no + 1, w2, n + 1, n)
  <2>1. v = Min(Vertices \ Part(w, 1, n))
    BY <1>C
  <2>2. n = Len(calls) /\ n \in Nat
    BY <1>1 DEF n
  <2> QED BY <2>1, <2>2, <1>L, <1>4, <1>8, <1>9, PiecesNext
<1>11. PICK level2 : Levels(level2, w2, n + 1, n, n) /\ Covered(Arcs, level2, w2, n + 1, n, n, pend)
  BY <1>1, RootLevels
<1>12. BfsOn(start, calls, no + 1, w2, n + 1, n, level2, pend, FALSE)
  BY <1>10, <1>11 DEF BfsOn, n
<1>13. BfsFound(start, calls, no + 1, p, pend, FALSE)
  BY <1>1, <1>12 DEF BfsFound, w2, n
<1> QED BY <1>13 DEF p, e

-----------------------------------------------------------------------------
(* The search depth first, step by step.                                   *)

(* The word of the calls, place by place.                                  *)
LEMMA WordOf ==
  ASSUME NEW S, NEW calls \in CallSeq(S)
  PROVE  \A i \in 1 .. Len(calls) : Word(calls, <<>>)[i] = calls[i][1]
<1> DEFINE w == Word(calls, <<>>)
<1>1. IsWord(w, calls, <<>>)
  BY DEF IsWord
<1> HIDE DEF w
<1>2. \A i \in 1 .. Len(calls) : w[i] = calls[i][1]
  BY <1>1, WordOfCalls
<1> QED BY <1>2 DEF w

(* A call adds its vertex at the end of the word.                          *)
LEMMA WordCalled ==
  ASSUME NEW S, NEW calls \in CallSeq(S), NEW v \in S, NEW no \in Nat,
         NEW c, c = Append(calls, <<v, no>>)
  PROVE  Longer(Word(c, <<>>), Word(calls, <<>>), Len(calls), v)
<1> DEFINE w == Word(calls, <<>>)
           w2 == Word(c, <<>>)
           n == Len(calls)
<1>1. IsWord(w, calls, <<>>) /\ IsWord(w2, c, <<>>)
  BY DEF IsWord
<1> HIDE DEF w, w2
<1>a. c \in CallSeq(S)
  BY CallAppended
<1>b. n \in Nat /\ Len(c) = n + 1 /\ c[n + 1][1] = v
  BY CallAppended
<1>d. \A i \in 1 .. n : c[i] = calls[i]
  BY CallAppended
<1>2. /\ n \in Nat /\ Len(c) = n + 1
      /\ \A i \in 1 .. n : c[i] = calls[i]
      /\ c[n + 1][1] = v
  BY <1>b, <1>d
<1>3. \A i \in 1 .. n : w[i] = calls[i][1]
  BY WordOf DEF w
<1>4. \A i \in 1 .. Len(c) : w2[i] = c[i][1]
  BY <1>a, WordOf DEF w2
<1> HIDE DEF n
<1>5. \A i \in 1 .. n : i \in 1 .. Len(c)
  BY <1>2
<1>6. \A i \in 1 .. n : w2[i] = w[i]
  BY <1>2, <1>3, <1>4, <1>5
<1>7. n + 1 \in 1 .. Len(c)
  BY <1>2
<1>8. w2[n + 1] = v
  BY <1>2, <1>4, <1>7
<1> QED BY <1>6, <1>8 DEF Longer, w, w2, n

(* The search of a depth first traversal: the calls that run are for       *)
(* vertices of the current piece.                                          *)
DfsOn(start, calls, no, w, len, b, pend, act) ==
  /\ Pieces("dfs", start, calls, no, w, len, b)
  /\ Explored(Arcs, w, len, b, pend)
  /\ act \subseteq Part(w, b + 1, len)

DfsFound(start, calls, no, pend, act) ==
  \E b : DfsOn(start, calls, no, Word(calls, <<>>), Len(calls), b, pend, act)

(* The call for start begins.                                              *)
LEMMA DfsFirstFound ==
  ASSUME NEW start \in Vertices, NEW pend, \A a \in Arcs : a[1] = start => a \in pend,
         NEW act, act \subseteq {start}, NEW c, c = Append(<<>>, <<start, 0>>)
  PROVE  DfsFound(start, c, 0, pend, act)
<1> DEFINE e == <<>>
           w == Word(c, e)
<1>0. e \in CallSeq(Vertices) /\ Len(e) = 0
  BY DEF CallSeq
<1>c. c = Append(e, <<start, 0>>) /\ 0 \in Nat
  OBVIOUS
<1>1. c \in CallSeq(Vertices) /\ Len(c) = 1 /\ c[1][1] = start
  <2> HIDE DEF e
  <2>1. /\ c \in CallSeq(Vertices) /\ Len(c) = Len(e) + 1
        /\ c[Len(e) + 1][1] = start
    BY <1>0, <1>c, CallAppended
  <2>2. Len(e) + 1 = 1
    BY <1>0
  <2> QED BY <2>1, <2>2
<1>2. IsWord(w, c, e)
  BY DEF IsWord
<1>3. w[1] = start
  <2>1. \A i \in 1 .. Len(c) : w[i] = c[i][1]
    <3> HIDE DEF w
    <3> QED BY <1>1, <1>2, WordOfCalls
  <2>2. 1 \in 1 .. Len(c)
    BY <1>1
  <2> HIDE DEF w, e
  <2> QED BY <2>1, <2>2, <1>1
<1> HIDE DEF w
<1>4. Pieces("dfs", start, e, 0, w, 1, 0)
  BY <1>3, PiecesFirst
<1>5. Pieces("dfs", start, c, 0, w, 1, 0)
  <2> HIDE DEF e
  <2>0. 0 \in Nat
    OBVIOUS
  <2>a. e \in CallSeq(Vertices)
    BY <1>0
  <2>1. Pieces("dfs", start, Append(e, <<start, 0>>), 0, w, 1, 0)
    BY <2>0, <2>a, <1>4, PiecesCalled
  <2> QED BY <2>1, <1>c
<1>6. \A i \in 0 + 1 .. 1 : i = 1
  OBVIOUS
<1>7. Explored(Arcs, w, 1, 0, pend)
  BY <1>3, <1>6 DEF Explored
<1>8. 1 \in 0 + 1 .. 1
  OBVIOUS
<1>9. act \subseteq Part(w, 0 + 1, 1)
  BY <1>3, <1>8 DEF Part
<1>10. DfsOn(start, c, 0, w, 1, 0, pend, act)
  BY <1>5, <1>7, <1>9 DEF DfsOn
<1> QED BY <1>1, <1>10 DEF DfsFound, w, e

(* An arc leads to a vertex met before.                                    *)
LEMMA DfsMetFound ==
  ASSUME NEW start, NEW calls \in CallSeq(Vertices), NEW no, NEW pend, NEW act,
         DfsFound(start, calls, no, pend, act),
         NEW pend2, NEW x, NEW u, pend \subseteq pend2 \cup {<<x, u>>}, u \in Called(calls),
         NEW act2, act2 \subseteq act
  PROVE  DfsFound(start, calls, no, pend2, act2)
<1> DEFINE e == <<>>
           w == Word(calls, e)
           n == Len(calls)
<1>1. PICK b : DfsOn(start, calls, no, w, n, b, pend, act)
  BY DEF DfsFound
<1>2. IsWord(w, calls, e) /\ e \in Seq(Vertices)
  BY DEF IsWord
<1> HIDE DEF w, e
<1>3. Called(calls) = Part(w, 1, n)
  BY <1>2, WordParts
<1> HIDE DEF n
<1>4. Explored(Arcs, w, n, b, pend2)
  <2>1. Explored(Arcs, w, n, b, pend)
    BY <1>1 DEF DfsOn
  <2>2. u \in Part(w, 1, n)
    BY <1>3
  <2> QED BY <2>1, <2>2, MetExplored
<1>5. DfsOn(start, calls, no, w, n, b, pend2, act2)
  BY <1>1, <1>4 DEF DfsOn
<1> QED BY <1>5 DEF DfsFound, w, n, e

(* graph_traverse_dfs_impl returns: nothing else is still to be looked at. *)
LEMMA DfsLeftFound ==
  ASSUME NEW start, NEW calls, NEW no, NEW pend, NEW act,
         DfsFound(start, calls, no, pend, act), NEW act2, act2 \subseteq act
  PROVE  DfsFound(start, calls, no, pend, act2)
<1> DEFINE w == Word(calls, <<>>)
<1>1. PICK b : DfsOn(start, calls, no, w, Len(calls), b, pend, act)
  BY DEF DfsFound
<1> HIDE DEF w
<1>2. DfsOn(start, calls, no, w, Len(calls), b, pend, act2)
  BY <1>1 DEF DfsOn
<1> QED BY <1>2 DEF DfsFound, w

(* An arc leads to a vertex not met: the call for it begins.               *)
LEMMA DfsEnteredFound ==
  ASSUME NEW start, NEW calls \in CallSeq(Vertices), NEW no \in Nat, NEW pend, NEW act,
         DfsFound(start, calls, no, pend, act),
         NEW x \in act, NEW u \in Vertices, <<x, u>> \in Arcs,
         NEW pend2, pend \subseteq pend2 \cup {<<x, u>>},
         \A a \in Arcs : a[1] = u => a \in pend2,
         NEW act2, act2 \subseteq {u} \cup act,
         NEW c, c = Append(calls, <<u, no>>)
  PROVE  DfsFound(start, c, no, pend2, act2)
<1> DEFINE w == Word(calls, <<>>)
           w2 == Word(c, <<>>)
           n == Len(calls)
<1>1. PICK b : DfsOn(start, calls, no, w, n, b, pend, act)
  BY DEF DfsFound
<1>2. n \in Nat /\ Len(c) = n + 1
  BY CallAppended
<1>L. Longer(w2, w, n, u)
  BY WordCalled
<1> HIDE DEF w, w2
<1>3. Pieces("dfs", start, calls, no, w, n, b) /\ Explored(Arcs, w, n, b, pend)
      /\ act \subseteq Part(w, b + 1, n)
  BY <1>1 DEF DfsOn
<1>4. b \in 0 .. n /\ b < n /\ b \in Nat
  <2> HIDE DEF n
  <2>1. b \in 0 .. n /\ b < n
    BY <1>3 DEF Pieces, Numbering, n
  <2> QED BY <1>2, <2>1
<1>5. Explored(Arcs, w2, n + 1, b, pend2)
  <2> HIDE DEF n
  <2>1. b < n => Explored(Arcs, w, n, b, pend)
    BY <1>3
  <2>2. b \in 0 .. n
    BY <1>4
  <2> QED BY <1>2, <1>L, <2>1, <2>2, EnteredExplored
<1>6. \E j \in b + 1 .. n : <<w[j], u>> \in Arcs
  <2>1. x \in Part(w, b + 1, n)
    BY <1>3
  <2> QED BY <2>1 DEF Part
<1>7. Pieces("dfs", start, calls, no, w, n, b)
  BY <1>3
<1>8. Len(calls) \in Nat
  BY <1>2
<1>9. Pieces("dfs", start, calls, no, w2, n + 1, b)
  <2>1. n \in Nat
    BY <1>2
  <2> QED BY <1>6, <1>7, <1>8, <2>1, <1>L, PiecesMet
<1>10. Pieces("dfs", start, c, no, w2, n + 1, b)
  <2>1. Pieces("dfs", start, Append(calls, <<u, no>>), no, w2, n + 1, b)
    BY <1>9, PiecesCalled
  <2> QED BY <2>1
<1>11. Part(w, b + 1, n) \cup {u} \subseteq Part(w2, b + 1, n + 1)
  <2> HIDE DEF n
  <2>1. \A k \in b + 1 .. n : k \in 1 .. n /\ k \in b + 1 .. n + 1
    BY <1>2, <1>4
  <2>2. n + 1 \in b + 1 .. n + 1
    BY <1>2, <1>4
  <2>3. \A k \in b + 1 .. n : w[k] = w2[k]
    BY <2>1, <1>L DEF Longer
  <2>4. w2[n + 1] = u
    BY <1>L DEF Longer
  <2> QED BY <2>1, <2>2, <2>3, <2>4 DEF Part
<1>12. act2 \subseteq Part(w2, b + 1, n + 1)
  BY <1>3, <1>11
<1>13. DfsOn(start, c, no, w2, n + 1, b, pend2, act2)
  BY <1>5, <1>10, <1>12 DEF DfsOn
<1> QED BY <1>2, <1>13 DEF DfsFound, w2

(* When no call runs every piece is exact.                                 *)
LEMMA DfsFoundEnd ==
  ASSUME GraphShape, graph # NULL,
         NEW start, NEW calls \in CallSeq(Vertices), NEW no \in Nat, NEW act,
         DfsFound(start, calls, no, {}, act), Distinct(Word(calls, <<>>), Len(calls))
  PROVE  PiecesExact("dfs", start, calls, no)
<1> DEFINE w == Word(calls, <<>>)
           n == Len(calls)
<1>1. n \in Nat
  BY DEF CallSeq
<1>2. PICK b : DfsOn(start, calls, no, w, n, b, {}, act)
  BY DEF DfsFound
<1>3. IsWord(w, calls, <<>>) /\ Distinct(w, n)
  BY DEF IsWord
<1> HIDE DEF w, n
<1>4. Pieces("dfs", start, calls, no, w, n, b)
  BY <1>2 DEF DfsOn
<1>5. Explored(Arcs, w, n, b, {})
  BY <1>2 DEF DfsOn
<1>7. b \in 0 .. n /\ ClosedUnder(Arcs, Part(w, 1, b))
  BY <1>4 DEF Pieces, Numbering, n
<1>8. ClosedUnder(Arcs, Part(w, 1, n))
  BY <1>1, <1>5, <1>7, ExploredEnds
<1>x. "dfs" = "bfs" => \E level : Levels(level, w, n, b, n) /\ AllSeen(Arcs, level, w, n, b)
  OBVIOUS
<1>9. PieceExact("dfs", start, calls, no)
  BY <1>3, <1>4, <1>8, <1>x, PieceEnds DEF n
<1> QED BY <1>4, <1>9, PiecesEnd

(* The call for the first vertex not met begins the next piece.            *)
LEMMA DfsFoundNext ==
  ASSUME GraphShape, graph # NULL,
         NEW start, NEW calls \in CallSeq(Vertices), NEW no \in Nat, NEW act,
         DfsFound(start, calls, no, {}, act), Distinct(Word(calls, <<>>), Len(calls)),
         NEW v \in Vertices, v = Min(Vertices \ Called(calls)),
         NEW pend, \A a \in Arcs : a[1] = v => a \in pend, NEW act2, act2 \subseteq {v},
         NEW c, c = Append(calls, <<v, no + 1>>)
  PROVE  DfsFound(start, c, no + 1, pend, act2)
<1> DEFINE e == <<>>
           w == Word(calls, e)
           n == Len(calls)
           w2 == Word(c, e)
<1>0. no + 1 \in Nat
  OBVIOUS
<1>1. n \in Nat /\ e \in Seq(Vertices)
  BY DEF CallSeq
<1>c. Len(c) = n + 1
  BY <1>0, CallAppended
<1>2. PICK b : DfsOn(start, calls, no, w, n, b, {}, act)
  BY DEF DfsFound
<1>3. IsWord(w, calls, e)
  BY DEF IsWord
<1>x. PiecesExact("dfs", start, calls, no)
  BY DfsFoundEnd
<1>L. Longer(w2, w, n, v)
  BY <1>0, WordCalled
<1> HIDE DEF e
<1>C. Called(calls) = Part(w, 1, n)
  BY <1>1, <1>3, WordParts
<1> HIDE DEF w, n, w2
<1>4. Pieces("dfs", start, calls, no, w, n, b)
  BY <1>2 DEF DfsOn
<1>6. Explored(Arcs, w, n, b, {})
  BY <1>2 DEF DfsOn
<1>7. b \in 0 .. n /\ ClosedUnder(Arcs, Part(w, 1, b))
  BY <1>4 DEF Pieces, Numbering, n
<1>8. ClosedUnder(Arcs, Part(w, 1, n))
  BY <1>1, <1>6, <1>7, ExploredEnds
<1>9. PieceExact("dfs", start, calls, no)
  <2>1. no \in 0 .. no
    OBVIOUS
  <2> QED BY <2>1, <1>x DEF PiecesExact
<1>10. Pieces("dfs", start, calls, no + 1, w2, n + 1, n)
  <2>1. v = Min(Vertices \ Part(w, 1, n))
    BY <1>C
  <2>2. n = Len(calls) /\ n \in Nat
    BY <1>1 DEF n
  <2> QED BY <2>1, <2>2, <1>L, <1>4, <1>8, <1>9, PiecesNext
<1>11. Pieces("dfs", start, c, no + 1, w2, n + 1, n)
  <2>1. Pieces("dfs", start, Append(calls, <<v, no + 1>>), no + 1, w2, n + 1, n)
    BY <1>0, <1>10, PiecesCalled
  <2> QED BY <2>1
<1>12. w2[n + 1] = v /\ \A i \in n + 1 .. n + 1 : i = n + 1
  BY <1>1, <1>L DEF Longer
<1>13. Explored(Arcs, w2, n + 1, n, pend)
  BY <1>12 DEF Explored
<1>14. n + 1 \in n + 1 .. n + 1
  BY <1>1
<1>15. act2 \subseteq Part(w2, n + 1, n + 1)
  BY <1>12, <1>14 DEF Part
<1>16. DfsOn(start, c, no + 1, w2, n + 1, n, pend, act2)
  BY <1>11, <1>13, <1>15 DEF DfsOn
<1> QED BY <1>c, <1>16 DEF DfsFound, w2, e

(* What the marks of a depth first traversal mean. *)
DfsMarks(visited, calls) ==
  /\ Distinct(Word(calls, <<>>), Len(calls))
  /\ \A v \in Vertices : visited[v] # "0" <=> v \in Called(calls)

(* At first no vertex has a mark.                                          *)
LEMMA DfsMarksFirst ==
  ASSUME NEW visited, visited = [v \in Vertices |-> "0"]
  PROVE  DfsMarks(visited, <<>>)
<1>1. Called(<<>>) = {}
  BY DEF Called
<1>2. Len(<<>>) = 0 /\ 1 .. 0 = {}
  OBVIOUS
<1>3. Distinct(Word(<<>>, <<>>), Len(<<>>))
  BY <1>2 DEF Distinct
<1> QED BY <1>1, <1>3 DEF DfsMarks

(* A vertex is marked and called back for.                                 *)
LEMMA DfsMarksCalled ==
  ASSUME NEW visited \in [Vertices -> {"0", "1", "2"}], NEW calls \in CallSeq(Vertices),
         DfsMarks(visited, calls), NEW v \in Vertices, visited[v] = "0", NEW no \in Nat,
         NEW c, c = Append(calls, <<v, no>>)
  PROVE  DfsMarks(SetMark(visited, v, "1"), c)
<1> DEFINE e == <<>>
           w == Word(calls, e)
           w2 == Word(c, e)
           n == Len(calls)
<1>1. n \in Nat /\ e \in Seq(Vertices)
  BY DEF CallSeq
<1>2. Len(c) = n + 1
  BY CallAppended
<1>3. IsWord(w, calls, e)
  BY DEF IsWord
<1>4. Longer(w2, w, n, v)
  BY WordCalled
<1>5. Distinct(w, n)
  BY DEF DfsMarks
<1> HIDE DEF e
<1>6. Called(calls) = Part(w, 1, n)
  BY <1>1, <1>3, WordParts
<1> HIDE DEF w, w2, n
<1>7. v \notin Part(w, 1, n)
  BY <1>6 DEF DfsMarks
<1>8. Distinct(w2, n + 1)
  BY <1>1, <1>4, <1>5, <1>7, LongerDistinct
<1>9. Called(c) = Called(calls) \cup {v}
  BY CalledAppend
<1>10. /\ SetMark(visited, v, "1")[v] = "1"
       /\ \A u \in Vertices : u # v => SetMark(visited, v, "1")[u] = visited[u]
  BY SetMarkIs
<1>11. \A u \in Vertices : SetMark(visited, v, "1")[u] # "0" <=> u \in Called(c)
  BY <1>9, <1>10 DEF DfsMarks
<1>12. Distinct(Word(c, <<>>), Len(c))
  BY <1>2, <1>8 DEF w2, e
<1> QED BY <1>11, <1>12 DEF DfsMarks

(* The vertices without a mark are those not called back for.              *)
LEMMA DfsMarksEnd ==
  ASSUME NEW visited \in [Vertices -> {"0", "1", "2"}], NEW calls \in CallSeq(Vertices),
         DfsMarks(visited, calls)
  PROVE  /\ Distinct(Word(calls, <<>>), Len(calls))
         /\ Cardinality(Called(calls)) = Len(calls)
         /\ {v \in Vertices : visited[v] = "0"} = Vertices \ Called(calls)
         /\ Called(calls) \subseteq Vertices
<1>1. Distinct(Word(calls, <<>>), Len(calls))
  BY DEF DfsMarks
<1>2. Cardinality(Called(calls)) = Len(calls)
  BY <1>1, CalledCount
<1>3. {v \in Vertices : visited[v] = "0"} = Vertices \ Called(calls)
  BY DEF DfsMarks
<1>4. Called(calls) \subseteq Vertices
  BY DEF Called, CallSeq
<1> QED BY <1>1, <1>2, <1>3, <1>4

-----------------------------------------------------------------------------
(* What is known of the local variables and the queue at each point of a   *)
(* traversal, and that it depends on nothing but the graph.                *)

(* The least member of a set of vertices is one of them.                   *)
LEMMA MinIs ==
  ASSUME NEW S, S \subseteq Nat, S # {}
  PROVE  Min(S) \in S
<1>1. \E x \in S : \A y \in S : x <= y
  BY LeastExists
<1> QED BY <1>1 DEF Min

(* Local variables made of values of their types have their types.         *)
LEMMA RecType ==
  ASSUME NEW s \in Vertices, NEW vis \in [Vertices -> {"0", "1", "2"}],
         NEW fr \in Seq(FrameSet(Vertices, DOMAIN graph.edges)), NEW no \in Nat,
         NEW c \in CallSeq(Vertices), NEW ref, NEW e, NEW l,
         NEW r, r = Rec(s, vis, fr, no, c, ref, e, l)
  PROVE  /\ RunType(r)
         /\ r.start = s /\ r.visited = vis /\ r.frames = fr /\ r.subGraphNo = no
         /\ r.calls = c /\ r.refused = ref
<1>1. /\ r.start = s /\ r.visited = vis /\ r.frames = fr /\ r.subGraphNo = no
      /\ r.calls = c /\ r.refused = ref /\ IsRec(r)
  BY RecFields
<1> QED BY <1>1 DEF RunType

(* The current vertex and the neighbour it looks at. *)
CurrentOf(frames) == frames[1].vertex
Ahead(frames) == Neighbor(frames[1].vertex, Head(frames[1].iter))

(* The local variables r of a traversal and the contents q of its queue.   *)
FirstState(r, q) == r.start \in Vertices /\ r = NewRun(r.start) /\ q = <<>>

BfsState(r, q) ==
  /\ RunType(r) /\ q \in Seq(Vertices)
  /\ Len(r.frames) <= 1
  /\ Pending(r.frames) \subseteq Arcs
  /\ BfsMarks(r.visited, r.calls, r.refused, q, HasEdges(r.frames))
  /\ HasEdges(r.frames) => CurrentOf(r.frames) = r.calls[Len(r.calls)][1]
  /\ r.refused = {} => BfsFound(r.start, r.calls, r.subGraphNo, q, Pending(r.frames),
                                HasEdges(r.frames))

DfsState(r) ==
  /\ RunType(r)
  /\ Pending(r.frames) \subseteq Arcs
  /\ DfsMarks(r.visited, r.calls)
  /\ DfsFound(r.start, r.calls, r.subGraphNo, Pending(r.frames), Active(r.frames))

CpmState(r, q) == RunType(r) /\ q \in Seq(Vertices)

(* Where the graph stays, so does what is computed from it.                *)
LEMMA SameGraph ==
  ASSUME UNCHANGED graph
  PROVE  /\ Vertices' = Vertices /\ VertexNum' = VertexNum /\ Arcs' = Arcs
         /\ \A v, e : Neighbor(v, e)' = Neighbor(v, e)
         /\ \A op, start, calls, k :
              PieceExact(op, start, calls, k)' <=> PieceExact(op, start, calls, k)
<1>1. Vertices' = Vertices /\ VertexNum' = VertexNum /\ Undirected' = Undirected
  BY DEF Vertices, VertexNum, Undirected
<1>2. Arcs' = Arcs
  BY <1>1 DEF Arcs, Undirected
<1>3. \A v, e : Neighbor(v, e)' = Neighbor(v, e)
  BY <1>1 DEF Neighbor
<1>4. \A v : Within(v)' = Within(v)
  BY <1>1, <1>2 DEF Within
<1>5. \A v : Reached(v)' = Reached(v)
  BY <1>1, <1>4 DEF Reached
<1>6. \A v, u : Distance(v, u)' = Distance(v, u)
  BY <1>1, <1>4 DEF Distance
<1>7. \A start, calls, k : RootOf(start, calls, k)' = RootOf(start, calls, k)
  BY <1>1 DEF RootOf
<1>8. ASSUME NEW op, NEW start, NEW calls, NEW k
      PROVE  PieceExact(op, start, calls, k)' <=> PieceExact(op, start, calls, k)
  BY <1>5, <1>6, <1>7 DEF PieceExact, Numbered, Earlier
<1> QED BY <1>1, <1>2, <1>3, <1>8

(* And what an answer is compared with,                                    *)
LEMMA SameExact ==
  ASSUME UNCHANGED graph, NEW op, NEW start, NEW calls, NEW refused
  PROVE  Exact(op, start, calls, refused)' <=> Exact(op, start, calls, refused)
<1>1. /\ Vertices' = Vertices
      /\ \A k : PieceExact(op, start, calls, k)' <=> PieceExact(op, start, calls, k)
  BY SameGraph
<1> QED BY <1>1 DEF Exact, Called, Lost

(* the arcs to be looked at,                                               *)
LEMMA SamePending ==
  ASSUME UNCHANGED graph, NEW frames
  PROVE  Pending(frames)' = Pending(frames)
<1>1. \A v, e : Neighbor(v, e)' = Neighbor(v, e)
  BY SameGraph
<1>2. \A f : PendingOf(f)' = PendingOf(f)
  BY <1>1 DEF PendingOf
<1> QED BY <1>2 DEF Pending

(* the pieces,                                                             *)
LEMMA SamePieces ==
  ASSUME UNCHANGED graph, NEW op, NEW start, NEW calls, NEW no, NEW w, NEW len, NEW b
  PROVE  Pieces(op, start, calls, no, w, len, b)' <=> Pieces(op, start, calls, no, w, len, b)
<1>1. /\ Vertices' = Vertices /\ Arcs' = Arcs
      /\ \A k : PieceExact(op, start, calls, k)' <=> PieceExact(op, start, calls, k)
  BY SameGraph
<1>2. RootIs(start, no, b, w)' <=> RootIs(start, no, b, w)
  BY <1>1 DEF RootIs
<1> QED BY <1>1, <1>2 DEF Pieces

(* the search,                                                             *)
LEMMA SameSearch ==
  ASSUME UNCHANGED graph, NEW start, NEW calls, NEW no, NEW pend
  PROVE  /\ \A q, looking : BfsFound(start, calls, no, q, pend, looking)'
                              <=> BfsFound(start, calls, no, q, pend, looking)
         /\ \A act : DfsFound(start, calls, no, pend, act)'
                       <=> DfsFound(start, calls, no, pend, act)
<1>1. Arcs' = Arcs
  BY SameGraph
<1>2. \A op, w, len, b : Pieces(op, start, calls, no, w, len, b)'
                           <=> Pieces(op, start, calls, no, w, len, b)
  BY SamePieces
<1>3. \A w, len, b, level, m : Levels(level, w, len, b, m)' <=> Levels(level, w, len, b, m)
  BY <1>1 DEF Levels
<1>4. \A w, len, b, level, looking :
        BfsOn(start, calls, no, w, len, b, level, pend, looking)'
          <=> BfsOn(start, calls, no, w, len, b, level, pend, looking)
  BY <1>1, <1>2, <1>3 DEF BfsOn
<1>5. \A w, len, b, act : DfsOn(start, calls, no, w, len, b, pend, act)'
                            <=> DfsOn(start, calls, no, w, len, b, pend, act)
  BY <1>1, <1>2 DEF DfsOn
<1>6. \A q, looking : BfsFound(start, calls, no, q, pend, looking)'
                        <=> BfsFound(start, calls, no, q, pend, looking)
  BY <1>4 DEF BfsFound
<1>7. \A act : DfsFound(start, calls, no, pend, act)'
                 <=> DfsFound(start, calls, no, pend, act)
  BY <1>5 DEF DfsFound
<1> QED BY <1>6, <1>7

(* and what is known of the local variables.                               *)
LEMMA SameStates ==
  ASSUME UNCHANGED graph, NEW r, NEW q
  PROVE  /\ FirstState(r, q)' <=> FirstState(r, q)
         /\ BfsState(r, q)' <=> BfsState(r, q)
         /\ DfsState(r)' <=> DfsState(r)
         /\ CpmState(r, q)' <=> CpmState(r, q)
<1>1. Vertices' = Vertices /\ Arcs' = Arcs /\ Pending(r.frames)' = Pending(r.frames)
  BY SameGraph, SamePending
<1>2. RunType(r)' <=> RunType(r)
  BY <1>1 DEF RunType
<1>3. FirstState(r, q)' <=> FirstState(r, q)
  BY <1>1 DEF FirstState, NewRun
<1>4. BfsMarks(r.visited, r.calls, r.refused, q, HasEdges(r.frames))'
        <=> BfsMarks(r.visited, r.calls, r.refused, q, HasEdges(r.frames))
  BY <1>1 DEF BfsMarks
<1>5. DfsMarks(r.visited, r.calls)' <=> DfsMarks(r.visited, r.calls)
  BY <1>1 DEF DfsMarks
<1>6. BfsFound(r.start, r.calls, r.subGraphNo, q, Pending(r.frames), HasEdges(r.frames))'
        <=> BfsFound(r.start, r.calls, r.subGraphNo, q, Pending(r.frames), HasEdges(r.frames))
  BY <1>1, SameSearch
<1>7. DfsFound(r.start, r.calls, r.subGraphNo, Pending(r.frames), Active(r.frames))'
        <=> DfsFound(r.start, r.calls, r.subGraphNo, Pending(r.frames), Active(r.frames))
  BY <1>1, SameSearch
<1>8. BfsState(r, q)' <=> BfsState(r, q)
  BY <1>1, <1>2, <1>4, <1>6 DEF BfsState
<1>9. DfsState(r)' <=> DfsState(r)
  BY <1>1, <1>2, <1>5, <1>7 DEF DfsState
<1>10. CpmState(r, q)' <=> CpmState(r, q)
  BY <1>1, <1>2 DEF CpmState
<1> QED BY <1>3, <1>8, <1>9, <1>10

-----------------------------------------------------------------------------
(* The steps of the local variables, breadth first.                        *)

(* An edge is passed: no arc is added to those to be looked at.            *)
LEMMA FramesLess ==
  ASSUME NEW V, NEW E, NEW frames \in Seq(FrameSet(V, E)), HasEdges(frames)
  PROVE  /\ Pending(NextFrames(frames)) \subseteq Pending(frames)
         /\ <<frames[1].vertex, Neighbor(frames[1].vertex, Head(frames[1].iter))>>
              \in Pending(frames)
<1> DEFINE s == NextFrames(frames)
           n == Len(frames)
           f == frames[1]
           g == [f EXCEPT !.iter = Tail(f.iter)]
<1>1. n \in Nat /\ n # 0 /\ 1 \in 1 .. n /\ DOMAIN frames = 1 .. n /\ f \in FrameSet(V, E)
  BY DEF HasEdges
<1>2. f.iter \in Seq(E) /\ f.iter # <<>> /\ f.vertex \in V
  BY <1>1 DEF HasEdges, FrameSet
<1>3. Head(f.iter) \in ToSet(f.iter) /\ ToSet(Tail(f.iter)) \subseteq ToSet(f.iter)
  <2> DEFINE q == f.iter
  <2>1. ToSet(q) = {Head(q)} \cup ToSet(Tail(q))
    <3>1. q \in Seq(E) /\ q # <<>>
      BY <1>2
    <3> HIDE DEF q
    <3> QED BY <3>1, SeqEnds
  <2> QED BY <2>1
<1>4. g.vertex = f.vertex /\ g.iter = Tail(f.iter)
  BY <1>1, <1>2 DEF FrameSet
<1>5. s = [frames EXCEPT ![1] = g]
  BY DEF NextFrames
<1>6. PendingOf(g) \subseteq PendingOf(f)
  BY <1>3, <1>4 DEF PendingOf
<1> HIDE DEF g, s, f
<1>7. DOMAIN s = 1 .. n /\ s[1] = g /\ \A i \in 1 .. n : i # 1 => s[i] = frames[i]
  BY <1>1, <1>5
<1>8. \A i \in 1 .. n : PendingOf(s[i]) \subseteq PendingOf(frames[i])
  BY <1>6, <1>7 DEF f
<1>9. Pending(s) \subseteq Pending(frames)
  BY <1>1, <1>7, <1>8 DEF Pending
<1>10. <<f.vertex, Neighbor(f.vertex, Head(f.iter))>> \in PendingOf(f)
  BY <1>3 DEF PendingOf
<1>11. <<f.vertex, Neighbor(f.vertex, Head(f.iter))>> \in Pending(frames)
  BY <1>1, <1>10 DEF Pending, f
<1> QED BY <1>9, <1>11 DEF s, f

(* The frame of a vertex that is taken or entered. *)
LEMMA FrameIs ==
  ASSUME GraphShape, graph # NULL, NEW v \in Vertices,
         NEW f, f = Frame(v, graph.incident[v])
  PROVE  /\ f \in FrameSet(Vertices, DOMAIN graph.edges)
         /\ f.vertex = v /\ f.iter = graph.incident[v]
         /\ PendingOf(f) \subseteq Arcs
         /\ \A a \in Arcs : a[1] = v => a \in PendingOf(f)
<1>1. graph.incident[v] \in Seq(DOMAIN graph.edges)
  BY GraphFacts
<1>2. f.vertex = v /\ f.iter = graph.incident[v] /\ f \in FrameSet(Vertices, DOMAIN graph.edges)
  BY <1>1 DEF Frame, FrameSet
<1>3. /\ \A e \in ToSet(graph.incident[v]) : <<v, Neighbor(v, e)>> \in Arcs
      /\ \A a \in Arcs : a[1] = v =>
           \E e \in ToSet(graph.incident[v]) : a = <<v, Neighbor(v, e)>>
  BY ArcsListed
<1> QED BY <1>2, <1>3 DEF PendingOf

(* The neighbour a traversal looks at is a vertex. *)
LEMMA NextIs ==
  ASSUME GraphShape, graph # NULL,
         NEW frames \in Seq(FrameSet(Vertices, DOMAIN graph.edges)), HasEdges(frames),
         NEW x, x = frames[1].vertex, NEW u, u = Neighbor(x, Head(frames[1].iter))
  PROVE  /\ u \in Vertices /\ x \in Active(frames)
         /\ <<x, u>> \in Pending(frames)
         /\ Pending(NextFrames(frames)) \subseteq Pending(frames)
         /\ Pending(frames) \subseteq Pending(NextFrames(frames)) \cup {<<x, u>>}
         /\ Active(NextFrames(frames)) = Active(frames)
         /\ NextFrames(frames) \in Seq(FrameSet(Vertices, DOMAIN graph.edges))
         /\ Len(NextFrames(frames)) = Len(frames)
         /\ NextFrames(frames)[1].vertex = x
<1> DEFINE E == DOMAIN graph.edges
<1>0. frames \in Seq(FrameSet(Vertices, E))
  OBVIOUS
<1> HIDE DEF E
<1>1. /\ NextFrames(frames) \in Seq(FrameSet(Vertices, E))
      /\ Len(NextFrames(frames)) = Len(frames)
      /\ NextFrames(frames)[1].vertex = frames[1].vertex
      /\ Active(NextFrames(frames)) = Active(frames)
      /\ frames[1].vertex \in Active(frames)
      /\ Head(frames[1].iter) \in E
      /\ Pending(frames) \subseteq
           Pending(NextFrames(frames))
             \cup {<<frames[1].vertex, Neighbor(frames[1].vertex, Head(frames[1].iter))>>}
  BY <1>0, FramesAdvance
<1>2. /\ Pending(NextFrames(frames)) \subseteq Pending(frames)
      /\ <<frames[1].vertex, Neighbor(frames[1].vertex, Head(frames[1].iter))>>
           \in Pending(frames)
  BY <1>0, FramesLess
<1>3. \A e \in E : graph.edges[e].from \in Vertices /\ graph.edges[e].to \in Vertices
  BY GraphFacts DEF E
<1>4. u \in Vertices
  BY <1>1, <1>3 DEF Neighbor
<1> QED BY <1>1, <1>2, <1>4 DEF E

(* The steps of the local variables keep their types. *)
LEMMA DroppedIs ==
  ASSUME NEW r, RunType(r), NEW p, NEW d, d = Dropped(r, p)
  PROVE  /\ RunType(d) /\ d.start = r.start /\ d.visited = r.visited
         /\ d.frames = r.frames /\ d.subGraphNo = r.subGraphNo
         /\ d.calls = r.calls /\ d.refused = r.refused \cup {p} /\ d.refused # {}
<1>1. IsRec(r)
  BY DEF RunType
<1>2. d = Rec(r.start, r.visited, r.frames, r.subGraphNo, r.calls,
              r.refused \cup {p}, r.early, r.late)
  BY <1>1, RecSteps
<1> DEFINE ref == r.refused \cup {p}
<1>3. ref # {}
  OBVIOUS
<1> HIDE DEF ref
<1>4. d = Rec(r.start, r.visited, r.frames, r.subGraphNo, r.calls, ref, r.early, r.late)
  BY <1>2 DEF ref
<1>5. /\ r.start \in Vertices /\ r.visited \in [Vertices -> {"0", "1", "2"}]
      /\ r.frames \in Seq(FrameSet(Vertices, DOMAIN graph.edges))
      /\ r.subGraphNo \in Nat /\ r.calls \in CallSeq(Vertices)
  BY DEF RunType
<1>6. /\ RunType(d) /\ d.start = r.start /\ d.visited = r.visited
      /\ d.frames = r.frames /\ d.subGraphNo = r.subGraphNo
      /\ d.calls = r.calls /\ d.refused = ref
  BY <1>4, <1>5, RecType
<1> QED BY <1>3, <1>6 DEF ref

(* An edge is passed.                                                      *)
LEMMA AdvancedIs ==
  ASSUME NEW r, RunType(r), NextFrames(r.frames) \in Seq(FrameSet(Vertices, DOMAIN graph.edges)),
         NEW d, d = Advance(r)
  PROVE  /\ RunType(d) /\ d.start = r.start /\ d.visited = r.visited
         /\ d.frames = NextFrames(r.frames) /\ d.subGraphNo = r.subGraphNo
         /\ d.calls = r.calls /\ d.refused = r.refused
<1>1. IsRec(r)
  BY DEF RunType
<1> DEFINE fs == NextFrames(r.frames)
<1>2. d = Rec(r.start, r.visited, fs, r.subGraphNo, r.calls,
              r.refused, r.early, r.late)
  BY <1>1, RecSteps
<1>5. /\ r.start \in Vertices /\ r.visited \in [Vertices -> {"0", "1", "2"}]
      /\ fs \in Seq(FrameSet(Vertices, DOMAIN graph.edges))
      /\ r.subGraphNo \in Nat /\ r.calls \in CallSeq(Vertices)
  BY DEF RunType
<1> HIDE DEF fs
<1>6. /\ RunType(d) /\ d.start = r.start /\ d.visited = r.visited
      /\ d.frames = fs /\ d.subGraphNo = r.subGraphNo
      /\ d.calls = r.calls /\ d.refused = r.refused
  BY <1>2, <1>5, RecType
<1> QED BY <1>6 DEF fs

(* A vertex is marked.                                                     *)
LEMMA MarkedIs ==
  ASSUME NEW r, RunType(r), NEW v \in Vertices, NEW mark \in {"0", "1", "2"},
         NEW d, d = Marked(r, v, mark)
  PROVE  /\ RunType(d) /\ d.start = r.start /\ d.visited = SetMark(r.visited, v, mark)
         /\ d.frames = r.frames /\ d.subGraphNo = r.subGraphNo
         /\ d.calls = r.calls /\ d.refused = r.refused
<1>1. IsRec(r)
  BY DEF RunType
<1> DEFINE vis == SetMark(r.visited, v, mark)
<1>2. d = Rec(r.start, vis, r.frames, r.subGraphNo, r.calls,
              r.refused, r.early, r.late)
  BY <1>1, RecSteps
<1>5. /\ r.start \in Vertices /\ r.visited \in [Vertices -> {"0", "1", "2"}]
      /\ r.frames \in Seq(FrameSet(Vertices, DOMAIN graph.edges))
      /\ r.subGraphNo \in Nat /\ r.calls \in CallSeq(Vertices)
  BY DEF RunType
<1>3. vis \in [Vertices -> {"0", "1", "2"}]
  BY <1>5, SetMarkIs
<1> HIDE DEF vis
<1>6. /\ RunType(d) /\ d.start = r.start /\ d.visited = vis
      /\ d.frames = r.frames /\ d.subGraphNo = r.subGraphNo
      /\ d.calls = r.calls /\ d.refused = r.refused
  BY <1>2, <1>3, <1>5, RecType
<1> QED BY <1>6 DEF vis

(* The next piece has the next number.                                     *)
LEMMA RenumberedIs ==
  ASSUME NEW r, RunType(r), NEW d, d = Renumbered(r)
  PROVE  /\ RunType(d) /\ d.start = r.start /\ d.visited = r.visited
         /\ d.frames = r.frames /\ d.subGraphNo = r.subGraphNo + 1
         /\ d.calls = r.calls /\ d.refused = r.refused
<1>1. IsRec(r)
  BY DEF RunType
<1> DEFINE no == r.subGraphNo + 1
<1>2. d = Rec(r.start, r.visited, r.frames, no, r.calls,
              r.refused, r.early, r.late)
  BY <1>1, RecSteps
<1>5. /\ r.start \in Vertices /\ r.visited \in [Vertices -> {"0", "1", "2"}]
      /\ r.frames \in Seq(FrameSet(Vertices, DOMAIN graph.edges))
      /\ no \in Nat /\ r.calls \in CallSeq(Vertices)
  BY DEF RunType
<1> HIDE DEF no
<1>6. /\ RunType(d) /\ d.start = r.start /\ d.visited = r.visited
      /\ d.frames = r.frames /\ d.subGraphNo = no
      /\ d.calls = r.calls /\ d.refused = r.refused
  BY <1>2, <1>5, RecType
<1> QED BY <1>6 DEF no

(* A call returns.                                                         *)
LEMMA LeftIs ==
  ASSUME NEW r, RunType(r), Tail(r.frames) \in Seq(FrameSet(Vertices, DOMAIN graph.edges)),
         NEW d, d = Left(r)
  PROVE  /\ RunType(d) /\ d.start = r.start /\ d.visited = r.visited
         /\ d.frames = Tail(r.frames) /\ d.subGraphNo = r.subGraphNo
         /\ d.calls = r.calls /\ d.refused = r.refused
<1>1. IsRec(r)
  BY DEF RunType
<1> DEFINE fs == Tail(r.frames)
<1>2. d = Rec(r.start, r.visited, fs, r.subGraphNo, r.calls,
              r.refused, r.early, r.late)
  BY <1>1, RecSteps
<1>5. /\ r.start \in Vertices /\ r.visited \in [Vertices -> {"0", "1", "2"}]
      /\ fs \in Seq(FrameSet(Vertices, DOMAIN graph.edges))
      /\ r.subGraphNo \in Nat /\ r.calls \in CallSeq(Vertices)
  BY DEF RunType
<1> HIDE DEF fs
<1>6. /\ RunType(d) /\ d.start = r.start /\ d.visited = r.visited
      /\ d.frames = fs /\ d.subGraphNo = r.subGraphNo
      /\ d.calls = r.calls /\ d.refused = r.refused
  BY <1>2, <1>5, RecType
<1> QED BY <1>6 DEF fs

(* One more call.                                                          *)
LEMMA CallTyped ==
  ASSUME NEW S, NEW calls \in CallSeq(S), NEW v \in S, NEW no \in Nat
  PROVE  Append(calls, <<v, no>>) \in CallSeq(S)
  BY DEF CallSeq

Entered(v, frames) == <<Frame(v, graph.incident[v])>> \o frames

(* The call for a vertex begins.                                           *)
LEMMA EnteredIs ==
  ASSUME NEW r, RunType(r), NEW v \in Vertices,
         Entered(v, r.frames) \in Seq(FrameSet(Vertices, DOMAIN graph.edges)),
         NEW d, d = Enter(v, r)
  PROVE  /\ RunType(d) /\ d.start = r.start /\ d.visited = SetMark(r.visited, v, "1")
         /\ d.frames = Entered(v, r.frames)
         /\ d.subGraphNo = r.subGraphNo
         /\ d.calls = Append(r.calls, <<v, r.subGraphNo>>) /\ d.refused = r.refused
<1>1. IsRec(r)
  BY DEF RunType
<1> DEFINE vis == SetMark(r.visited, v, "1")
           fs == Entered(v, r.frames)
           c == Append(r.calls, <<v, r.subGraphNo>>)
<1>2. d = Rec(r.start, vis, fs, r.subGraphNo, c, r.refused, r.early, r.late)
  BY <1>1, RecSteps DEF Entered
<1>5. /\ r.start \in Vertices /\ r.visited \in [Vertices -> {"0", "1", "2"}]
      /\ r.subGraphNo \in Nat /\ r.calls \in CallSeq(Vertices)
  BY DEF RunType
<1>6. vis \in [Vertices -> {"0", "1", "2"}]
  BY <1>5, SetMarkIs
<1>7. c \in CallSeq(Vertices)
  BY <1>5, CallTyped
<1>9. fs \in Seq(FrameSet(Vertices, DOMAIN graph.edges))
  OBVIOUS
<1> HIDE DEF vis, fs, c
<1>8. /\ RunType(d) /\ d.start = r.start /\ d.visited = vis
      /\ d.frames = fs /\ d.subGraphNo = r.subGraphNo
      /\ d.calls = c /\ d.refused = r.refused
  BY <1>2, <1>5, <1>6, <1>7, <1>9, RecType
<1> QED BY <1>8 DEF vis, fs, c

(* A vertex is taken from the queue.                                       *)
LEMMA TakenIs ==
  ASSUME NEW r, RunType(r), NEW v \in Vertices,
         NEW f \in FrameSet(Vertices, DOMAIN graph.edges),
         NEW d, d = Taken(r, v, f)
  PROVE  /\ RunType(d) /\ d.start = r.start /\ d.visited = SetMark(r.visited, v, "2")
         /\ d.frames = <<f>> /\ d.subGraphNo = r.subGraphNo
         /\ d.calls = Append(r.calls, <<v, r.subGraphNo>>) /\ d.refused = r.refused
<1>1. IsRec(r)
  BY DEF RunType
<1> DEFINE vis == SetMark(r.visited, v, "2")
           fs == <<f>>
           c == Append(r.calls, <<v, r.subGraphNo>>)
<1>2. d = Rec(r.start, vis, fs, r.subGraphNo, c, r.refused, r.early, r.late)
  BY <1>1, RecSteps
<1>5. /\ r.start \in Vertices /\ r.visited \in [Vertices -> {"0", "1", "2"}]
      /\ r.subGraphNo \in Nat /\ r.calls \in CallSeq(Vertices)
  BY DEF RunType
<1>6. vis \in [Vertices -> {"0", "1", "2"}]
  BY <1>5, SetMarkIs
<1>7. c \in CallSeq(Vertices)
  BY <1>5, CallTyped
<1>9. fs \in Seq(FrameSet(Vertices, DOMAIN graph.edges))
  OBVIOUS
<1> HIDE DEF vis, fs, c
<1>8. /\ RunType(d) /\ d.start = r.start /\ d.visited = vis
      /\ d.frames = fs /\ d.subGraphNo = r.subGraphNo
      /\ d.calls = c /\ d.refused = r.refused
  BY <1>2, <1>5, <1>6, <1>7, <1>9, RecType
<1> QED BY <1>8 DEF vis, fs, c

(* Nothing is looked at yet. *)
LEMMA NotLooking ==
  ASSUME NEW looking, ~looking, NEW start, NEW calls, NEW no, NEW q, NEW pend,
         NEW visited, NEW refused
  PROVE  /\ BfsFound(start, calls, no, q, pend, FALSE)
              => BfsFound(start, calls, no, q, pend, looking)
         /\ BfsMarks(visited, calls, refused, q, FALSE)
              => BfsMarks(visited, calls, refused, q, looking)
<1>1. BfsMarks(visited, calls, refused, q, FALSE)
        => BfsMarks(visited, calls, refused, q, looking)
  BY DEF BfsMarks
<1>2. \A w, len, b, level : BfsOn(start, calls, no, w, len, b, level, pend, FALSE)
        => BfsOn(start, calls, no, w, len, b, level, pend, looking)
  BY DEF BfsOn
<1> QED BY <1>1, <1>2 DEF BfsFound

(* The first push, of start.                                               *)
LEMMA BfsBegins ==
  ASSUME GraphShape, graph # NULL, NEW r, NEW q, FirstState(r, q), NEW s, s = r.start
  PROVE  /\ s \in Vertices
         /\ BfsState(r, Append(q, s))
         /\ BfsState(Dropped(r, <<"root", s>>), q)
<1>1. s \in Vertices /\ r = NewRun(s) /\ q = <<>>
  BY DEF FirstState
<1>2. /\ RunType(r) /\ r.frames = <<>> /\ r.subGraphNo = 0 /\ r.calls = <<>>
      /\ r.refused = {} /\ r.visited = [v \in Vertices |-> "0"]
  BY <1>1, NewRunType
<1>3. /\ Pending(r.frames) = {} /\ ~HasEdges(r.frames) /\ Len(r.frames) <= 1
  BY <1>2, NoFrames
<1> DEFINE looking == HasEdges(r.frames)
           p == Append(q, s)
           pend == Pending(r.frames)
<1>4. BfsMarks(r.visited, r.calls, r.refused, <<>>, FALSE)
  BY <1>2, MarksFirst
<1>5. r.calls \in CallSeq(Vertices) /\ r.visited[s] = "0"
  BY <1>1, <1>2 DEF RunType
<1>6. /\ BfsMarks(r.visited, r.calls, r.refused, p, FALSE)
      /\ BfsMarks(r.visited, r.calls, r.refused \cup {<<"root", s>>}, q, FALSE)
  BY <1>1, <1>4, <1>5, MarksRoot
<1>7. BfsFound(r.start, r.calls, r.subGraphNo, p, pend, FALSE)
  <2>1. BfsFound(s, <<>>, 0, Append(<<>>, s), pend, FALSE)
    BY <1>1, BfsFirstFound
  <2> QED BY <2>1, <1>1, <1>2
<1>8. p \in Seq(Vertices) /\ q \in Seq(Vertices)
  BY <1>1
<1>s. ~looking
  BY <1>3
<1>t. pend \subseteq Arcs
  BY <1>3
<1> HIDE DEF looking, p
<1>9. /\ BfsMarks(r.visited, r.calls, r.refused, p, looking)
      /\ BfsMarks(r.visited, r.calls, r.refused \cup {<<"root", s>>}, q, looking)
      /\ BfsFound(r.start, r.calls, r.subGraphNo, p, pend, looking)
  BY <1>6, <1>7, <1>s, NotLooking
<1>10. BfsState(r, p)
  BY <1>2, <1>3, <1>8, <1>9, <1>t DEF BfsState, looking
<1>11. BfsState(Dropped(r, <<"root", s>>), q)
  <2> DEFINE d == Dropped(r, <<"root", s>>)
  <2>1. /\ RunType(d) /\ d.visited = r.visited /\ d.frames = r.frames
        /\ d.calls = r.calls /\ d.refused = r.refused \cup {<<"root", s>>}
        /\ d.refused # {}
    BY <1>2, DroppedIs
  <2>2. BfsMarks(d.visited, d.calls, d.refused, q, HasEdges(d.frames))
    <3> HIDE DEF d
    <3> QED BY <1>9, <2>1 DEF looking
  <2>3. Len(d.frames) <= 1 /\ Pending(d.frames) \subseteq Arcs /\ ~HasEdges(d.frames)
    <3> HIDE DEF d
    <3> QED BY <1>3, <1>t, <2>1
  <2> HIDE DEF d
  <2>4. BfsState(d, q)
    BY <1>8, <2>1, <2>2, <2>3 DEF BfsState
  <2> QED BY <2>4 DEF d
<1> QED BY <1>1, <1>10, <1>11 DEF p

(* A vertex is popped, when the one before it has been looked at.          *)
LEMMA BfsTakes ==
  ASSUME GraphShape, graph # NULL, NEW r, NEW q, BfsState(r, q), ~HasEdges(r.frames),
         q # <<>>, NEW x, x = Head(q), NEW f, f = Frame(x, graph.incident[x])
  PROVE  BfsState(Taken(r, x, f), Tail(q))
<1>1. q \in Seq(Vertices) /\ RunType(r)
  BY DEF BfsState
<1>2. x \in Vertices /\ Tail(q) \in Seq(Vertices)
  BY <1>1
<1>3. /\ r.visited \in [Vertices -> {"0", "1", "2"}]
      /\ r.frames \in Seq(FrameSet(Vertices, DOMAIN graph.edges))
      /\ r.subGraphNo \in Nat /\ r.calls \in CallSeq(Vertices) /\ r.start \in Vertices
  BY <1>1 DEF RunType
<1> DEFINE c == Append(r.calls, <<x, r.subGraphNo>>)
           vis == SetMark(r.visited, x, "2")
           d == Taken(r, x, f)
           fs == <<f>>
<1>5. /\ f \in FrameSet(Vertices, DOMAIN graph.edges) /\ f.vertex = x
      /\ PendingOf(f) \subseteq Arcs
      /\ \A a \in Arcs : a[1] = x => a \in PendingOf(f)
  BY <1>2, FrameIs
<1>6. Len(fs) = 1 /\ fs[1] = f /\ Pending(fs) = PendingOf(f)
  <2> DEFINE E == DOMAIN graph.edges
  <2>1. f \in FrameSet(Vertices, E)
    BY <1>5
  <2> HIDE DEF E
  <2> QED BY <2>1, OneFrame
<1>9. c[Len(c)][1] = x
  <2>1. r.calls \in CallSeq(Vertices) /\ r.subGraphNo \in Nat
    BY <1>3
  <2> QED BY <1>2, <2>1 DEF CallSeq
<1>10. BfsMarks(vis, c, r.refused, Tail(q), HasEdges(fs))
  <2>1. BfsMarks(r.visited, r.calls, r.refused, q, HasEdges(r.frames))
    BY DEF BfsState
  <2> QED BY <1>1, <1>3, <2>1, MarksTaken
<1>11. r.refused = {} => BfsFound(r.start, c, r.subGraphNo, Tail(q), Pending(fs),
                                  HasEdges(fs))
  <2> SUFFICES ASSUME r.refused = {}
               PROVE  BfsFound(r.start, c, r.subGraphNo, Tail(q), Pending(fs), HasEdges(fs))
    OBVIOUS
  <2>1. Pending(r.frames) = {}
    <3> DEFINE E == DOMAIN graph.edges
               fr == r.frames
    <3>1. fr \in Seq(FrameSet(Vertices, E)) /\ Len(fr) <= 1 /\ ~HasEdges(fr)
      BY <1>3 DEF BfsState
    <3> HIDE DEF E, fr
    <3>2. Pending(fr) = {}
      BY <3>1, PendingEnds
    <3> QED BY <3>2 DEF fr
  <2>2. BfsFound(r.start, r.calls, r.subGraphNo, q, {}, HasEdges(r.frames))
    BY <2>1 DEF BfsState
  <2>3. \A a \in Arcs : a[1] = Head(q) => a \in Pending(fs)
    BY <1>5, <1>6
  <2> HIDE DEF fs
  <2> QED BY <1>1, <1>3, <2>2, <2>3, BfsTakenFound
<1>12. /\ RunType(d) /\ d.start = r.start /\ d.visited = vis /\ d.frames = fs
       /\ d.subGraphNo = r.subGraphNo /\ d.calls = c /\ d.refused = r.refused
  BY <1>1, <1>2, <1>5, TakenIs
<1> HIDE DEF c, vis, d, fs
<1>13. Len(fs) <= 1 /\ CurrentOf(fs) = x /\ Pending(fs) \subseteq Arcs
  BY <1>5, <1>6 DEF CurrentOf
<1>17. BfsState(d, Tail(q))
  BY <1>2, <1>9, <1>10, <1>11, <1>12, <1>13 DEF BfsState
<1> QED BY <1>17 DEF d

(* Something is still to be looked at.                                     *)
LEMMA IsLooking ==
  ASSUME NEW looking, looking, NEW start, NEW calls, NEW no, NEW q, NEW pend,
         NEW visited, NEW refused
  PROVE  /\ BfsFound(start, calls, no, q, pend, looking)
              => BfsFound(start, calls, no, q, pend, TRUE)
         /\ BfsMarks(visited, calls, refused, q, looking)
              => BfsMarks(visited, calls, refused, q, TRUE)
<1>1. BfsMarks(visited, calls, refused, q, looking)
        => BfsMarks(visited, calls, refused, q, TRUE)
  BY DEF BfsMarks
<1>2. \A w, len, b, level : BfsOn(start, calls, no, w, len, b, level, pend, looking)
        => BfsOn(start, calls, no, w, len, b, level, pend, TRUE)
  BY DEF BfsOn
<1> QED BY <1>1, <1>2 DEF BfsFound

(* The arc from the current vertex to the neighbour over the next edge.    *)
LEMMA LooksAt ==
  ASSUME GraphShape, graph # NULL, NEW r, RunType(r), HasEdges(r.frames),
         NEW x, x = CurrentOf(r.frames), NEW u, u = Ahead(r.frames),
         NEW fs, fs = NextFrames(r.frames)
  PROVE  /\ u \in Vertices /\ x \in Active(r.frames)
         /\ <<x, u>> \in Pending(r.frames)
         /\ Pending(fs) \subseteq Pending(r.frames)
         /\ Pending(r.frames) \subseteq Pending(fs) \cup {<<x, u>>}
         /\ Active(fs) = Active(r.frames)
         /\ fs \in Seq(FrameSet(Vertices, DOMAIN graph.edges))
         /\ Len(fs) = Len(r.frames) /\ CurrentOf(fs) = x
<1> DEFINE fr == r.frames
<1>1. fr \in Seq(FrameSet(Vertices, DOMAIN graph.edges))
  BY DEF RunType
<1>2. HasEdges(fr) /\ fs = NextFrames(fr)
  OBVIOUS
<1>3. x = fr[1].vertex
  BY DEF CurrentOf
<1>4. u = Neighbor(x, Head(fr[1].iter))
  BY DEF Ahead, CurrentOf
<1> HIDE DEF fr
<1>5. /\ u \in Vertices /\ x \in Active(fr)
      /\ <<x, u>> \in Pending(fr)
      /\ Pending(NextFrames(fr)) \subseteq Pending(fr)
      /\ Pending(fr) \subseteq Pending(NextFrames(fr)) \cup {<<x, u>>}
      /\ Active(NextFrames(fr)) = Active(fr)
      /\ NextFrames(fr) \in Seq(FrameSet(Vertices, DOMAIN graph.edges))
      /\ Len(NextFrames(fr)) = Len(fr)
      /\ NextFrames(fr)[1].vertex = x
  BY <1>1, <1>2, <1>3, <1>4, NextIs
<1> QED BY <1>2, <1>5 DEF fr, CurrentOf

(* The neighbour has a mark.                                               *)
LEMMA BfsMeets ==
  ASSUME GraphShape, graph # NULL, NEW r, NEW q, BfsState(r, q), HasEdges(r.frames),
         NEW x, x = CurrentOf(r.frames), NEW u, u = Ahead(r.frames),
         r.visited[u] # "0"
  PROVE  BfsState(Advance(r), q)
<1>1. /\ q \in Seq(Vertices) /\ RunType(r) /\ Len(r.frames) <= 1
      /\ Pending(r.frames) \subseteq Arcs /\ x = r.calls[Len(r.calls)][1]
  BY DEF BfsState
<1>2. /\ r.visited \in [Vertices -> {"0", "1", "2"}]
      /\ r.frames \in Seq(FrameSet(Vertices, DOMAIN graph.edges))
      /\ r.subGraphNo \in Nat /\ r.calls \in CallSeq(Vertices) /\ r.start \in Vertices
  BY <1>1 DEF RunType
<1> DEFINE fs == NextFrames(r.frames)
           d == Advance(r)
<1>3. /\ u \in Vertices
      /\ Pending(fs) \subseteq Pending(r.frames)
      /\ Pending(r.frames) \subseteq Pending(fs) \cup {<<x, u>>}
      /\ fs \in Seq(FrameSet(Vertices, DOMAIN graph.edges))
      /\ Len(fs) = Len(r.frames) /\ CurrentOf(fs) = x
  <2>1. RunType(r)
    BY <1>1
  <2>2. fs = NextFrames(r.frames)
    OBVIOUS
  <2> HIDE DEF fs, d
  <2> QED BY <2>1, <2>2, LooksAt
<1>4. /\ RunType(d) /\ d.start = r.start /\ d.visited = r.visited
      /\ d.frames = fs /\ d.subGraphNo = r.subGraphNo
      /\ d.calls = r.calls /\ d.refused = r.refused
  BY <1>1, <1>3, AdvancedIs
<1> HIDE DEF fs, d
<1>5. BfsMarks(r.visited, r.calls, r.refused, q, TRUE)
  <2>1. BfsMarks(r.visited, r.calls, r.refused, q, HasEdges(r.frames))
    BY DEF BfsState
  <2> QED BY <2>1, IsLooking
<1>6. BfsMarks(r.visited, r.calls, r.refused, q, HasEdges(fs))
  BY <1>5, MarksLooked
<1>7. ASSUME r.refused = {}
      PROVE  BfsFound(r.start, r.calls, r.subGraphNo, q, Pending(fs), HasEdges(fs))
  <2>1. BfsFound(r.start, r.calls, r.subGraphNo, q, Pending(r.frames), HasEdges(r.frames))
    BY <1>7 DEF BfsState
  <2>2. BfsFound(r.start, r.calls, r.subGraphNo, q, Pending(r.frames), TRUE)
    BY <2>1, IsLooking
  <2>3. BfsMarks(r.visited, r.calls, {}, q, TRUE)
    BY <1>5, <1>7
  <2>4. u \in Part(Word(r.calls, q), 1, Len(r.calls) + Len(q))
    <3> DEFINE w == Word(r.calls, q)
    <3>1. IsWord(w, r.calls, q)
      BY DEF IsWord
    <3> HIDE DEF w
    <3>2. u \in Part(w, 1, Len(r.calls) + Len(q))
      BY <1>1, <1>2, <1>3, <2>3, <3>1, MarksMet
    <3> QED BY <3>2 DEF w
  <2>5. Pending(r.frames) \subseteq Pending(fs) \cup {<<r.calls[Len(r.calls)][1], u>>}
    BY <1>1, <1>3
  <2> QED BY <1>1, <1>2, <2>2, <2>4, <2>5, BfsMetFound
<1>8. Len(d.frames) <= 1 /\ Pending(d.frames) \subseteq Arcs
      /\ CurrentOf(d.frames) = d.calls[Len(d.calls)][1]
  BY <1>1, <1>3, <1>4
<1>9. BfsMarks(d.visited, d.calls, d.refused, q, HasEdges(d.frames))
  BY <1>4, <1>6
<1>10. d.refused = {} =>
         BfsFound(d.start, d.calls, d.subGraphNo, q, Pending(d.frames), HasEdges(d.frames))
  BY <1>4, <1>7
<1>11. BfsState(d, q)
  BY <1>1, <1>4, <1>8, <1>9, <1>10 DEF BfsState
<1> QED BY <1>11 DEF d

(* The neighbour has none: it is marked, and queued or lost.               *)
LEMMA BfsQueues ==
  ASSUME GraphShape, graph # NULL, NEW r, NEW q, BfsState(r, q), HasEdges(r.frames),
         NEW x, x = CurrentOf(r.frames), NEW u, u = Ahead(r.frames),
         r.visited[u] = "0", NEW d, d = Marked(Advance(r), u, "1")
  PROVE  /\ u \in Vertices
         /\ BfsState(d, Append(q, u))
         /\ BfsState(Dropped(d, <<"edge", u>>), q)
<1>1. /\ q \in Seq(Vertices) /\ RunType(r) /\ Len(r.frames) <= 1
      /\ Pending(r.frames) \subseteq Arcs /\ x = r.calls[Len(r.calls)][1]
  BY DEF BfsState
<1>2. /\ r.visited \in [Vertices -> {"0", "1", "2"}]
      /\ r.frames \in Seq(FrameSet(Vertices, DOMAIN graph.edges))
      /\ r.subGraphNo \in Nat /\ r.calls \in CallSeq(Vertices) /\ r.start \in Vertices
  BY <1>1 DEF RunType
<1> DEFINE fs == NextFrames(r.frames)
           a == Advance(r)
           vis == SetMark(r.visited, u, "1")
           p == Append(q, u)
           e == Dropped(d, <<"edge", u>>)
<1>3. /\ u \in Vertices /\ <<x, u>> \in Arcs
      /\ Pending(fs) \subseteq Pending(r.frames)
      /\ Pending(r.frames) \subseteq Pending(fs) \cup {<<x, u>>}
      /\ fs \in Seq(FrameSet(Vertices, DOMAIN graph.edges))
      /\ Len(fs) = Len(r.frames) /\ CurrentOf(fs) = x
  <2>1. RunType(r)
    BY <1>1
  <2>3. fs = NextFrames(r.frames)
    OBVIOUS
  <2> HIDE DEF fs, a, vis, p, e
  <2>2. /\ u \in Vertices /\ <<x, u>> \in Pending(r.frames)
        /\ Pending(fs) \subseteq Pending(r.frames)
        /\ Pending(r.frames) \subseteq Pending(fs) \cup {<<x, u>>}
        /\ fs \in Seq(FrameSet(Vertices, DOMAIN graph.edges))
        /\ Len(fs) = Len(r.frames) /\ CurrentOf(fs) = x
    BY <2>1, <2>3, LooksAt
  <2> QED BY <1>1, <2>2
<1>4. /\ RunType(a) /\ a.start = r.start /\ a.visited = r.visited
      /\ a.frames = fs /\ a.subGraphNo = r.subGraphNo
      /\ a.calls = r.calls /\ a.refused = r.refused
  BY <1>1, <1>3, AdvancedIs
<1> HIDE DEF fs, a
<1>d. d = Marked(a, u, "1")
  BY DEF a
<1>5. /\ RunType(d) /\ d.start = a.start /\ d.visited = SetMark(a.visited, u, "1")
      /\ d.frames = a.frames /\ d.subGraphNo = a.subGraphNo
      /\ d.calls = a.calls /\ d.refused = a.refused
  BY <1>3, <1>4, <1>d, MarkedIs
<1>6. /\ d.start = r.start /\ d.visited = vis
      /\ d.frames = fs /\ d.subGraphNo = r.subGraphNo
      /\ d.calls = r.calls /\ d.refused = r.refused
  BY <1>4, <1>5
<1>m. BfsMarks(r.visited, r.calls, r.refused, q, TRUE)
  <2>1. BfsMarks(r.visited, r.calls, r.refused, q, HasEdges(r.frames))
    BY DEF BfsState
  <2> QED BY <2>1, IsLooking
<1>7. /\ BfsMarks(vis, r.calls, r.refused, p, HasEdges(fs))
      /\ BfsMarks(vis, r.calls, r.refused \cup {<<"edge", u>>}, q, HasEdges(fs))
  BY <1>1, <1>2, <1>3, <1>m, MarksUnmet
<1>8. ASSUME r.refused = {}
      PROVE  BfsFound(r.start, r.calls, r.subGraphNo, p, Pending(fs), HasEdges(fs))
  <2>1. BfsFound(r.start, r.calls, r.subGraphNo, q, Pending(r.frames), HasEdges(r.frames))
    BY <1>8 DEF BfsState
  <2>2. BfsFound(r.start, r.calls, r.subGraphNo, q, Pending(r.frames), TRUE)
    BY <2>1, IsLooking
  <2>5. Pending(r.frames) \subseteq Pending(fs) \cup {<<r.calls[Len(r.calls)][1], u>>}
    BY <1>1, <1>3
  <2>6. <<r.calls[Len(r.calls)][1], u>> \in Arcs
    BY <1>1, <1>3
  <2> QED BY <1>1, <1>2, <1>3, <2>2, <2>5, <2>6, BfsUnmetFound
<1>9. Len(d.frames) <= 1 /\ Pending(d.frames) \subseteq Arcs
      /\ CurrentOf(d.frames) = d.calls[Len(d.calls)][1]
  BY <1>1, <1>3, <1>6
<1>10. p \in Seq(Vertices)
  BY <1>1, <1>3
<1> HIDE DEF p, vis
<1>11. BfsMarks(d.visited, d.calls, d.refused, p, HasEdges(d.frames))
  BY <1>6, <1>7
<1>12. d.refused = {} =>
         BfsFound(d.start, d.calls, d.subGraphNo, p, Pending(d.frames), HasEdges(d.frames))
  BY <1>6, <1>8
<1>13. BfsState(d, p)
  BY <1>5, <1>9, <1>10, <1>11, <1>12 DEF BfsState
<1>14. /\ RunType(e) /\ e.visited = d.visited /\ e.frames = d.frames
       /\ e.calls = d.calls /\ e.refused = d.refused \cup {<<"edge", u>>}
       /\ e.refused # {}
  <2>1. RunType(d)
    BY <1>5
  <2> QED BY <2>1, DroppedIs
<1> HIDE DEF e
<1>15. Len(e.frames) <= 1 /\ Pending(e.frames) \subseteq Arcs
       /\ CurrentOf(e.frames) = e.calls[Len(e.calls)][1]
  BY <1>9, <1>14
<1>16. BfsMarks(e.visited, e.calls, e.refused, q, HasEdges(e.frames))
  BY <1>6, <1>7, <1>14
<1>17. BfsState(e, q)
  BY <1>1, <1>14, <1>15, <1>16 DEF BfsState
<1> QED BY <1>3, <1>13, <1>17 DEF p, e

(* The queue is empty and a vertex has no mark: the first of them is the   *)
(* next root, or its push fails.                                           *)
LEMMA BfsRestarts ==
  ASSUME GraphShape, graph # NULL, NEW r, BfsState(r, <<>>), ~HasEdges(r.frames),
         NEW U, U = {v \in Vertices : r.visited[v] = "0"}, U # {},
         NEW u, u = Min(U), NEW d, d = Renumbered(r)
  PROVE  /\ u \in Vertices
         /\ BfsState(d, Append(<<>>, u))
         /\ BfsState(Dropped(d, <<"root", u>>), <<>>)
<1> DEFINE q == <<>>
<1>1. /\ RunType(r) /\ Len(r.frames) <= 1 /\ q \in Seq(Vertices)
      /\ Pending(r.frames) \subseteq Arcs
  BY DEF BfsState
<1>2. /\ r.visited \in [Vertices -> {"0", "1", "2"}]
      /\ r.frames \in Seq(FrameSet(Vertices, DOMAIN graph.edges))
      /\ r.subGraphNo \in Nat /\ r.calls \in CallSeq(Vertices) /\ r.start \in Vertices
  BY <1>1 DEF RunType
<1>3. u \in Vertices /\ r.visited[u] = "0"
  <2>1. U \subseteq Nat
    BY GraphFacts
  <2>2. u \in U
    BY <2>1, MinIs
  <2> QED BY <2>2
<1>4. /\ RunType(d) /\ d.start = r.start /\ d.visited = r.visited
      /\ d.frames = r.frames /\ d.subGraphNo = r.subGraphNo + 1
      /\ d.calls = r.calls /\ d.refused = r.refused
  BY <1>1, RenumberedIs
<1> DEFINE looking == HasEdges(r.frames)
           p == Append(q, u)
           e == Dropped(d, <<"root", u>>)
           pend == Pending(r.frames)
<1>p. pend = {}
  <2> DEFINE E == DOMAIN graph.edges
             fr == r.frames
  <2>1. fr \in Seq(FrameSet(Vertices, E)) /\ Len(fr) <= 1 /\ ~HasEdges(fr)
    BY <1>1, <1>2
  <2> HIDE DEF E, fr
  <2>2. Pending(fr) = {}
    BY <2>1, PendingEnds
  <2> QED BY <2>2 DEF fr
<1>m. BfsMarks(r.visited, r.calls, r.refused, q, looking)
  BY DEF BfsState
<1>5. /\ BfsMarks(r.visited, r.calls, r.refused, p, FALSE)
      /\ BfsMarks(r.visited, r.calls, r.refused \cup {<<"root", u>>}, q, FALSE)
  BY <1>2, <1>3, <1>m, MarksRoot
<1>6. ASSUME r.refused = {}
      PROVE  BfsFound(r.start, r.calls, r.subGraphNo + 1, p, pend, FALSE)
  <2>1. BfsFound(r.start, r.calls, r.subGraphNo, q, pend, looking)
    BY <1>6 DEF BfsState
  <2>2. BfsFound(r.start, r.calls, r.subGraphNo, q, {}, looking)
    BY <2>1, <1>p
  <2>3. /\ Distinct(Word(r.calls, q), Len(r.calls))
        /\ {v \in Vertices : r.visited[v] = "0"} = Vertices \ (Called(r.calls) \cup Lost(r.refused))
    BY <1>2, <1>m, MarksEnd
  <2>4. Lost(r.refused) = {}
    BY <1>6, LostIs
  <2>5. u = Min(Vertices \ Called(r.calls))
    BY <2>3, <2>4
  <2>6. Distinct(Word(r.calls, q), Len(r.calls))
    BY <2>3
  <2> QED BY <1>2, <1>3, <2>2, <2>5, <2>6, BfsFoundNext
<1>s. ~looking
  OBVIOUS
<1>7. p \in Seq(Vertices)
  BY <1>1, <1>3
<1> HIDE DEF looking, p, q
<1>8. /\ BfsMarks(r.visited, r.calls, r.refused, p, looking)
      /\ BfsMarks(r.visited, r.calls, r.refused \cup {<<"root", u>>}, q, looking)
  BY <1>5, <1>s, NotLooking
<1>9. r.refused = {} => BfsFound(r.start, r.calls, r.subGraphNo + 1, p, pend, looking)
  BY <1>6, <1>s, NotLooking
<1>10. BfsState(d, p)
  <2>1. d.refused = {} => BfsFound(d.start, d.calls, d.subGraphNo, p, Pending(d.frames),
                                   HasEdges(d.frames))
    BY <1>4, <1>9 DEF looking
  <2>2. BfsMarks(d.visited, d.calls, d.refused, p, HasEdges(d.frames))
    BY <1>4, <1>8 DEF looking
  <2>3. ~HasEdges(d.frames) /\ Len(d.frames) <= 1 /\ Pending(d.frames) \subseteq Arcs
    BY <1>1, <1>4
  <2> QED BY <1>4, <1>7, <2>1, <2>2, <2>3 DEF BfsState
<1>11. BfsState(e, q)
  <2>1. /\ RunType(e) /\ e.visited = d.visited /\ e.frames = d.frames
        /\ e.calls = d.calls /\ e.refused = d.refused \cup {<<"root", u>>}
        /\ e.refused # {}
    <3>1. RunType(d)
      BY <1>4
    <3> DEFINE pr == <<"root", u>>
    <3>2. e = Dropped(d, pr)
      OBVIOUS
    <3> HIDE DEF e, pr
    <3>3. /\ RunType(e) /\ e.visited = d.visited /\ e.frames = d.frames
          /\ e.calls = d.calls /\ e.refused = d.refused \cup {pr}
          /\ e.refused # {}
      BY <3>1, <3>2, DroppedIs
    <3> QED BY <3>3 DEF pr
  <2> HIDE DEF e
  <2>2. BfsMarks(e.visited, e.calls, e.refused, q, HasEdges(e.frames))
    BY <1>4, <1>8, <2>1 DEF looking
  <2>3. ~HasEdges(e.frames) /\ Len(e.frames) <= 1 /\ Pending(e.frames) \subseteq Arcs
    BY <1>1, <1>4, <2>1
  <2> QED BY <1>1, <2>1, <2>2, <2>3 DEF BfsState
<1> QED BY <1>3, <1>10, <1>11 DEF p, q

(* From the vertices called back for and the pieces to what is asked of an *)
(* answer.                                                                 *)
LEMMA ExactFrom ==
  ASSUME NEW op, NEW start, NEW calls \in CallSeq(Vertices), NEW refused, NEW no \in Nat,
         Cardinality(Called(calls)) = Len(calls),
         Called(calls) = Vertices \ Lost(refused),
         refused = {} => PiecesExact(op, start, calls, no)
  PROVE  Exact(op, start, calls, refused)
<1>1. ASSUME refused = {}, NEW i \in DOMAIN calls, NEW k \in 0 .. calls[i][2]
      PROVE  PieceExact(op, start, calls, k)
  <2>1. calls[i][2] \in 0 .. no
    BY <1>1 DEF PiecesExact
  <2>2. k \in 0 .. no
    <3> DEFINE n == calls[i][2]
    <3>1. n \in 0 .. no /\ k \in 0 .. n
      BY <2>1
    <3> HIDE DEF n
    <3> QED BY <3>1
  <2> QED BY <1>1, <2>2 DEF PiecesExact
<1> QED BY <1>1 DEF Exact

(* The queue is empty and every vertex has a mark.                         *)
LEMMA BfsEnds ==
  ASSUME GraphShape, graph # NULL, NEW r, BfsState(r, <<>>), ~HasEdges(r.frames),
         {v \in Vertices : r.visited[v] = "0"} = {}
  PROVE  Exact("bfs", r.start, r.calls, r.refused)
<1> DEFINE q == <<>>
           looking == HasEdges(r.frames)
<1>1. RunType(r) /\ Len(r.frames) <= 1
  BY DEF BfsState
<1>2. /\ r.visited \in [Vertices -> {"0", "1", "2"}]
      /\ r.frames \in Seq(FrameSet(Vertices, DOMAIN graph.edges))
      /\ r.subGraphNo \in Nat /\ r.calls \in CallSeq(Vertices)
  BY <1>1 DEF RunType
<1>p. Pending(r.frames) = {}
  <2> DEFINE E == DOMAIN graph.edges
             fr == r.frames
  <2>1. fr \in Seq(FrameSet(Vertices, E)) /\ Len(fr) <= 1 /\ ~HasEdges(fr)
    BY <1>1, <1>2
  <2> HIDE DEF E, fr
  <2>2. Pending(fr) = {}
    BY <2>1, PendingEnds
  <2> QED BY <2>2 DEF fr
<1>m. BfsMarks(r.visited, r.calls, r.refused, q, looking)
  BY DEF BfsState
<1>3. /\ Distinct(Word(r.calls, q), Len(r.calls))
      /\ Cardinality(Called(r.calls)) = Len(r.calls)
      /\ {v \in Vertices : r.visited[v] = "0"} = Vertices \ (Called(r.calls) \cup Lost(r.refused))
      /\ Called(r.calls) \subseteq Vertices /\ Called(r.calls) \cap Lost(r.refused) = {}
  BY <1>2, <1>m, MarksEnd
<1>4. Called(r.calls) = Vertices \ Lost(r.refused)
  BY <1>3
<1>5. r.refused = {} => PiecesExact("bfs", r.start, r.calls, r.subGraphNo)
  <2> SUFFICES ASSUME r.refused = {}
               PROVE  PiecesExact("bfs", r.start, r.calls, r.subGraphNo)
    OBVIOUS
  <2>1. BfsFound(r.start, r.calls, r.subGraphNo, q, Pending(r.frames), looking)
    BY DEF BfsState
  <2>2. BfsFound(r.start, r.calls, r.subGraphNo, q, {}, looking)
    BY <2>1, <1>p
  <2>3. Distinct(Word(r.calls, q), Len(r.calls))
    BY <1>3
  <2> QED BY <1>2, <2>2, <2>3, BfsFoundEnd
<1>6. Cardinality(Called(r.calls)) = Len(r.calls)
  BY <1>3
<1> QED BY <1>2, <1>4, <1>5, <1>6, ExactFrom

-----------------------------------------------------------------------------
(* The steps of the local variables, depth first.                          *)

(* graph_traverse_dfs_impl is called for v. *)
LEMMA EnteredFrames ==
  ASSUME GraphShape, graph # NULL, NEW v \in Vertices, NEW r, RunType(r),
         NEW fs, fs = Entered(v, r.frames)
  PROVE  /\ fs \in Seq(FrameSet(Vertices, DOMAIN graph.edges))
         /\ Pending(r.frames) \subseteq Arcs => Pending(fs) \subseteq Arcs
         /\ Pending(r.frames) \subseteq Pending(fs)
         /\ \A a \in Arcs : a[1] = v => a \in Pending(fs)
         /\ Active(fs) \subseteq {v} \cup Active(r.frames)
<1> DEFINE f == Frame(v, graph.incident[v])
           E == DOMAIN graph.edges
           fr == r.frames
<1>1. /\ f \in FrameSet(Vertices, E) /\ f.vertex = v
      /\ PendingOf(f) \subseteq Arcs
      /\ \A a \in Arcs : a[1] = v => a \in PendingOf(f)
  BY FrameIs
<1>2. fr \in Seq(FrameSet(Vertices, E)) /\ fs = <<f>> \o fr
  BY DEF RunType, Entered
<1> HIDE DEF f, E, fr
<1>3. /\ <<f>> \o fr \in Seq(FrameSet(Vertices, E))
      /\ Pending(<<f>> \o fr) = PendingOf(f) \cup Pending(fr)
      /\ Active(<<f>> \o fr) = {f.vertex} \cup Active(fr)
  BY <1>1, <1>2, FramesPush
<1>4. /\ fs \in Seq(FrameSet(Vertices, E))
      /\ Pending(fs) = PendingOf(f) \cup Pending(fr)
      /\ Active(fs) = {f.vertex} \cup Active(fr)
  BY <1>2, <1>3
<1> QED BY <1>1, <1>4 DEF E, fr

(* The call for start begins.                                              *)
LEMMA DfsBegins ==
  ASSUME GraphShape, graph # NULL, NEW s \in Vertices
  PROVE  DfsState(Enter(s, NewRun(s)))
<1> DEFINE r == NewRun(s)
           fs == Entered(s, r.frames)
           c == Append(r.calls, <<s, r.subGraphNo>>)
           vis == SetMark(r.visited, s, "1")
           d == Enter(s, r)
<1>1. /\ RunType(r) /\ r.start = s /\ r.frames = <<>>
      /\ r.subGraphNo = 0 /\ r.calls = <<>> /\ r.refused = {}
      /\ r.visited = [v \in Vertices |-> "0"]
  BY NewRunType
<1> HIDE DEF r
<1>2. /\ r.visited \in [Vertices -> {"0", "1", "2"}]
      /\ r.frames \in Seq(FrameSet(Vertices, DOMAIN graph.edges))
      /\ r.subGraphNo \in Nat /\ r.calls \in CallSeq(Vertices)
  BY <1>1 DEF RunType
<1>3. Pending(r.frames) = {} /\ Active(r.frames) = {}
  BY <1>1, NoFrames
<1>e. fs = Entered(s, r.frames)
  OBVIOUS
<1>4. /\ fs \in Seq(FrameSet(Vertices, DOMAIN graph.edges))
      /\ Pending(r.frames) \subseteq Arcs => Pending(fs) \subseteq Arcs
      /\ \A a \in Arcs : a[1] = s => a \in Pending(fs)
      /\ Active(fs) \subseteq {s} \cup Active(r.frames)
  <2> HIDE DEF fs
  <2> QED BY <1>1, <1>e, EnteredFrames, ZenonT(60)
<1>5. /\ RunType(d) /\ d.start = r.start /\ d.visited = vis
      /\ d.frames = fs /\ d.subGraphNo = r.subGraphNo
      /\ d.calls = c /\ d.refused = r.refused
  <2>1. Entered(s, r.frames) \in Seq(FrameSet(Vertices, DOMAIN graph.edges))
    BY <1>4
  <2>2. RunType(r)
    BY <1>1
  <2> QED BY <2>1, <2>2, EnteredIs
<1>6. DfsMarks(vis, c)
  <2>1. DfsMarks(r.visited, r.calls) /\ r.visited[s] = "0"
    BY <1>1, DfsMarksFirst
  <2>2. c = Append(r.calls, <<s, r.subGraphNo>>)
    OBVIOUS
  <2> HIDE DEF c
  <2> QED BY <1>2, <2>1, <2>2, DfsMarksCalled
<1> HIDE DEF fs
<1>7. DfsFound(s, c, 0, Pending(fs), Active(fs))
  <2>1. \A a \in Arcs : a[1] = s => a \in Pending(fs)
    BY <1>4
  <2>2. Active(fs) \subseteq {s}
    BY <1>3, <1>4
  <2>3. c = Append(<<>>, <<s, 0>>)
    BY <1>1
  <2> HIDE DEF c
  <2> QED BY <2>1, <2>2, <2>3, DfsFirstFound
<1> HIDE DEF c, vis, d
<1>8. DfsState(d)
  <2>1. DfsMarks(d.visited, d.calls)
    BY <1>5, <1>6
  <2>2. DfsFound(d.start, d.calls, d.subGraphNo, Pending(d.frames), Active(d.frames))
    BY <1>1, <1>5, <1>7
  <2>3. Pending(d.frames) \subseteq Arcs
    BY <1>3, <1>4, <1>5
  <2> QED BY <1>5, <2>1, <2>2, <2>3 DEF DfsState
<1> QED BY <1>8 DEF d, r

(* The neighbour has a mark.                                               *)
LEMMA DfsMeets ==
  ASSUME GraphShape, graph # NULL, NEW r, DfsState(r), HasEdges(r.frames),
         NEW u, u = Ahead(r.frames), r.visited[u] # "0"
  PROVE  DfsState(Advance(r))
<1> DEFINE fs == NextFrames(r.frames)
           x == CurrentOf(r.frames)
           d == Advance(r)
<1>1. RunType(r) /\ Pending(r.frames) \subseteq Arcs /\ DfsMarks(r.visited, r.calls)
  BY DEF DfsState
<1>2. /\ r.visited \in [Vertices -> {"0", "1", "2"}] /\ r.calls \in CallSeq(Vertices)
  BY <1>1 DEF RunType
<1>3. /\ u \in Vertices
      /\ Pending(fs) \subseteq Pending(r.frames)
      /\ Pending(r.frames) \subseteq Pending(fs) \cup {<<x, u>>}
      /\ Active(fs) = Active(r.frames)
      /\ fs \in Seq(FrameSet(Vertices, DOMAIN graph.edges))
  <2>1. RunType(r) /\ x = CurrentOf(r.frames) /\ fs = NextFrames(r.frames)
    BY <1>1
  <2> HIDE DEF fs, d, x
  <2> QED BY <2>1, LooksAt
<1>4. /\ RunType(d) /\ d.start = r.start /\ d.visited = r.visited
      /\ d.frames = fs /\ d.subGraphNo = r.subGraphNo
      /\ d.calls = r.calls /\ d.refused = r.refused
  BY <1>1, <1>3, AdvancedIs
<1> HIDE DEF fs, d, x
<1>5. DfsFound(r.start, r.calls, r.subGraphNo, Pending(fs), Active(fs))
  <2>1. DfsFound(r.start, r.calls, r.subGraphNo, Pending(r.frames), Active(r.frames))
    BY DEF DfsState
  <2>2. u \in Called(r.calls)
    BY <1>1, <1>3 DEF DfsMarks
  <2>3. Pending(r.frames) \subseteq Pending(fs) \cup {<<x, u>>}
    BY <1>3
  <2>4. Active(fs) \subseteq Active(r.frames)
    BY <1>3
  <2> QED BY <1>2, <2>1, <2>2, <2>3, <2>4, DfsMetFound
<1>6. DfsState(d)
  <2>1. DfsMarks(d.visited, d.calls)
    BY <1>1, <1>4
  <2>2. DfsFound(d.start, d.calls, d.subGraphNo, Pending(d.frames), Active(d.frames))
    BY <1>4, <1>5
  <2>3. Pending(d.frames) \subseteq Arcs
    BY <1>1, <1>3, <1>4
  <2> QED BY <1>4, <2>1, <2>2, <2>3 DEF DfsState
<1> QED BY <1>6 DEF d

(* The neighbour has none: the call for it begins.                         *)
LEMMA DfsEnters ==
  ASSUME GraphShape, graph # NULL, NEW r, DfsState(r), HasEdges(r.frames),
         NEW u, u = Ahead(r.frames), r.visited[u] = "0"
  PROVE  DfsState(Enter(u, Advance(r)))
<1> DEFINE gs == NextFrames(r.frames)
           x == CurrentOf(r.frames)
           a == Advance(r)
           fs == Entered(u, a.frames)
           c == Append(a.calls, <<u, a.subGraphNo>>)
           vis == SetMark(a.visited, u, "1")
           d == Enter(u, a)
<1>1. RunType(r) /\ Pending(r.frames) \subseteq Arcs /\ DfsMarks(r.visited, r.calls)
  BY DEF DfsState
<1>3. /\ u \in Vertices /\ x \in Active(r.frames) /\ <<x, u>> \in Pending(r.frames)
      /\ Pending(gs) \subseteq Pending(r.frames)
      /\ Pending(r.frames) \subseteq Pending(gs) \cup {<<x, u>>}
      /\ Active(gs) = Active(r.frames)
      /\ gs \in Seq(FrameSet(Vertices, DOMAIN graph.edges))
  <2>1. RunType(r) /\ x = CurrentOf(r.frames) /\ gs = NextFrames(r.frames)
    BY <1>1
  <2> HIDE DEF fs, d, x, gs, a, c, vis
  <2> QED BY <2>1, LooksAt
<1>4. /\ RunType(a) /\ a.start = r.start /\ a.visited = r.visited
      /\ a.frames = gs /\ a.subGraphNo = r.subGraphNo
      /\ a.calls = r.calls /\ a.refused = r.refused
  <2>1. RunType(r) /\ NextFrames(r.frames) \in Seq(FrameSet(Vertices, DOMAIN graph.edges))
    BY <1>1, <1>3
  <2> QED BY <2>1, AdvancedIs
<1> HIDE DEF a, x, gs
<1>2. /\ a.visited \in [Vertices -> {"0", "1", "2"}] /\ a.calls \in CallSeq(Vertices)
      /\ a.frames \in Seq(FrameSet(Vertices, DOMAIN graph.edges)) /\ a.subGraphNo \in Nat
  BY <1>4 DEF RunType
<1>e. fs = Entered(u, a.frames)
  OBVIOUS
<1>5. /\ fs \in Seq(FrameSet(Vertices, DOMAIN graph.edges))
      /\ Pending(a.frames) \subseteq Arcs => Pending(fs) \subseteq Arcs
      /\ Pending(a.frames) \subseteq Pending(fs)
      /\ \A b \in Arcs : b[1] = u => b \in Pending(fs)
      /\ Active(fs) \subseteq {u} \cup Active(a.frames)
  <2>1. u \in Vertices /\ RunType(a)
    BY <1>3, <1>4
  <2> HIDE DEF fs
  <2> QED BY <1>e, <2>1, EnteredFrames
<1>6. /\ RunType(d) /\ d.start = a.start /\ d.visited = vis
      /\ d.frames = fs /\ d.subGraphNo = a.subGraphNo
      /\ d.calls = c /\ d.refused = a.refused
  <2>1. Entered(u, a.frames) \in Seq(FrameSet(Vertices, DOMAIN graph.edges))
    BY <1>5
  <2>2. RunType(a) /\ u \in Vertices
    BY <1>3, <1>4
  <2> QED BY <2>1, <2>2, EnteredIs
<1> HIDE DEF fs
<1>7. DfsMarks(vis, c)
  <2>1. DfsMarks(a.visited, a.calls)
    BY <1>1, <1>4
  <2>2. a.visited[u] = "0"
    BY <1>4
  <2>3. c = Append(a.calls, <<u, a.subGraphNo>>)
    OBVIOUS
  <2>4. u \in Vertices
    BY <1>3
  <2> HIDE DEF c
  <2> QED BY <1>2, <2>1, <2>2, <2>3, <2>4, DfsMarksCalled
<1>8. DfsFound(a.start, c, a.subGraphNo, Pending(fs), Active(fs))
  <2>1. DfsFound(a.start, a.calls, a.subGraphNo, Pending(r.frames), Active(r.frames))
    BY <1>4 DEF DfsState
  <2>2. x \in Active(r.frames)
    BY <1>3
  <2>3. u \in Vertices
    BY <1>3
  <2>4. <<x, u>> \in Arcs
    BY <1>1, <1>3
  <2>5. Pending(r.frames) \subseteq Pending(fs) \cup {<<x, u>>}
    BY <1>3, <1>4, <1>5
  <2>6. \A b \in Arcs : b[1] = u => b \in Pending(fs)
    BY <1>5
  <2>7. Active(fs) \subseteq {u} \cup Active(r.frames)
    BY <1>3, <1>4, <1>5
  <2>8. c = Append(a.calls, <<u, a.subGraphNo>>)
    OBVIOUS
  <2> HIDE DEF c
  <2> QED BY <1>2, <2>1, <2>2, <2>3, <2>4, <2>5, <2>6, <2>7, <2>8, DfsEnteredFound,
             ZenonT(60)
<1> HIDE DEF c, vis, d
<1>9. DfsState(d)
  <2>1. DfsMarks(d.visited, d.calls)
    BY <1>6, <1>7
  <2>2. DfsFound(d.start, d.calls, d.subGraphNo, Pending(d.frames), Active(d.frames))
    BY <1>6, <1>8
  <2>3. Pending(d.frames) \subseteq Arcs
    BY <1>1, <1>3, <1>4, <1>5, <1>6
  <2> QED BY <1>6, <2>1, <2>2, <2>3 DEF DfsState
<1> QED BY <1>9 DEF d, a

(* A call returns.                                                         *)
LEMMA DfsLeaves ==
  ASSUME NEW r, DfsState(r), r.frames # <<>>, ~HasEdges(r.frames)
  PROVE  DfsState(Left(r))
<1> DEFINE d == Left(r)
           fs == Tail(r.frames)
<1>1. RunType(r) /\ Pending(r.frames) \subseteq Arcs /\ DfsMarks(r.visited, r.calls)
  BY DEF DfsState
<1>2. /\ fs \in Seq(FrameSet(Vertices, DOMAIN graph.edges))
      /\ Pending(r.frames) = Pending(fs) /\ Active(fs) \subseteq Active(r.frames)
  <2> DEFINE E == DOMAIN graph.edges
             fr == r.frames
  <2>1. fr \in Seq(FrameSet(Vertices, E)) /\ fr # <<>> /\ ~HasEdges(fr)
    BY <1>1 DEF RunType
  <2> HIDE DEF E, fr
  <2>2. /\ Tail(fr) \in Seq(FrameSet(Vertices, E))
        /\ Pending(fr) = Pending(Tail(fr)) /\ Active(Tail(fr)) \subseteq Active(fr)
    BY <2>1, FramesPop
  <2> QED BY <2>2 DEF E, fr
<1>3. /\ RunType(d) /\ d.start = r.start /\ d.visited = r.visited
      /\ d.frames = fs /\ d.subGraphNo = r.subGraphNo
      /\ d.calls = r.calls /\ d.refused = r.refused
  <2>1. RunType(r) /\ Tail(r.frames) \in Seq(FrameSet(Vertices, DOMAIN graph.edges))
    BY <1>1, <1>2
  <2> QED BY <2>1, LeftIs
<1> HIDE DEF d, fs
<1>4. DfsFound(r.start, r.calls, r.subGraphNo, Pending(fs), Active(fs))
  <2>1. DfsFound(r.start, r.calls, r.subGraphNo, Pending(fs), Active(r.frames))
    BY <1>2 DEF DfsState
  <2>2. Active(fs) \subseteq Active(r.frames)
    BY <1>2
  <2> QED BY <2>1, <2>2, DfsLeftFound
<1>5. DfsState(d)
  <2>2. DfsFound(d.start, d.calls, d.subGraphNo, Pending(d.frames), Active(d.frames))
    BY <1>3, <1>4
  <2>3. Pending(d.frames) \subseteq Arcs
    BY <1>1, <1>2, <1>3
  <2> QED BY <1>1, <1>3, <2>2, <2>3 DEF DfsState
<1> QED BY <1>5 DEF d

(* No call runs and a vertex has no mark: the first of them is the next    *)
(* root.                                                                   *)
LEMMA DfsRestarts ==
  ASSUME GraphShape, graph # NULL, NEW r, DfsState(r), r.frames = <<>>,
         NEW U, U = {v \in Vertices : r.visited[v] = "0"}, U # {}, NEW u, u = Min(U)
  PROVE  DfsState(Enter(u, Renumbered(r)))
<1> DEFINE a == Renumbered(r)
           fs == Entered(u, a.frames)
           c == Append(a.calls, <<u, a.subGraphNo>>)
           vis == SetMark(a.visited, u, "1")
           d == Enter(u, a)
<1>1. RunType(r) /\ DfsMarks(r.visited, r.calls)
  BY DEF DfsState
<1>2. /\ r.visited \in [Vertices -> {"0", "1", "2"}]
      /\ r.subGraphNo \in Nat /\ r.calls \in CallSeq(Vertices)
  BY <1>1 DEF RunType
<1>3. u \in Vertices /\ r.visited[u] = "0"
  <2>1. U \subseteq Nat
    BY GraphFacts
  <2>2. u \in U
    BY <2>1, MinIs
  <2> QED BY <2>2
<1>4. /\ RunType(a) /\ a.start = r.start /\ a.visited = r.visited
      /\ a.frames = r.frames /\ a.subGraphNo = r.subGraphNo + 1
      /\ a.calls = r.calls /\ a.refused = r.refused
  BY <1>1, RenumberedIs
<1> HIDE DEF a
<1>5. /\ a.visited \in [Vertices -> {"0", "1", "2"}] /\ a.calls \in CallSeq(Vertices)
      /\ a.frames \in Seq(FrameSet(Vertices, DOMAIN graph.edges)) /\ a.subGraphNo \in Nat
  BY <1>4 DEF RunType
<1>6. Pending(a.frames) = {} /\ Active(a.frames) = {} /\ Pending(r.frames) = {}
  BY <1>4, NoFrames
<1>e. fs = Entered(u, a.frames)
  OBVIOUS
<1>7. /\ fs \in Seq(FrameSet(Vertices, DOMAIN graph.edges))
      /\ Pending(a.frames) \subseteq Arcs => Pending(fs) \subseteq Arcs
      /\ \A b \in Arcs : b[1] = u => b \in Pending(fs)
      /\ Active(fs) \subseteq {u} \cup Active(a.frames)
  <2>1. u \in Vertices /\ RunType(a)
    BY <1>3, <1>4
  <2> HIDE DEF fs
  <2> QED BY <1>e, <2>1, EnteredFrames
<1>8. /\ RunType(d) /\ d.start = a.start /\ d.visited = vis
      /\ d.frames = fs /\ d.subGraphNo = a.subGraphNo
      /\ d.calls = c /\ d.refused = a.refused
  <2>1. Entered(u, a.frames) \in Seq(FrameSet(Vertices, DOMAIN graph.edges))
    BY <1>7
  <2>2. RunType(a)
    BY <1>4
  <2>3. u \in Vertices
    BY <1>3
  <2>4. d = Enter(u, a)
    OBVIOUS
  <2>5. \A v \in Vertices : Entered(v, a.frames) \in Seq(FrameSet(Vertices, DOMAIN graph.edges)) =>
          LET e == Enter(v, a) IN
            /\ RunType(e) /\ e.start = a.start /\ e.visited = SetMark(a.visited, v, "1")
            /\ e.frames = Entered(v, a.frames) /\ e.subGraphNo = a.subGraphNo
            /\ e.calls = Append(a.calls, <<v, a.subGraphNo>>) /\ e.refused = a.refused
    BY <2>2, EnteredIs
  <2> HIDE DEF d
  <2>6. /\ RunType(d) /\ d.start = a.start /\ d.visited = SetMark(a.visited, u, "1")
        /\ d.frames = Entered(u, a.frames) /\ d.subGraphNo = a.subGraphNo
        /\ d.calls = Append(a.calls, <<u, a.subGraphNo>>) /\ d.refused = a.refused
    BY <2>1, <2>3, <2>4, <2>5
  <2> QED BY <2>6
<1> HIDE DEF fs
<1>9. DfsMarks(vis, c)
  <2>1. DfsMarks(a.visited, a.calls)
    BY <1>1, <1>4
  <2>2. a.visited[u] = "0" /\ u \in Vertices
    BY <1>3, <1>4
  <2>3. c = Append(a.calls, <<u, a.subGraphNo>>)
    OBVIOUS
  <2> HIDE DEF c
  <2> QED BY <1>5, <2>1, <2>2, <2>3, DfsMarksCalled
<1>10. DfsFound(r.start, c, r.subGraphNo + 1, Pending(fs), Active(fs))
  <2>1. DfsFound(r.start, r.calls, r.subGraphNo, {}, Active(r.frames))
    BY <1>6 DEF DfsState
  <2>2. /\ Distinct(Word(r.calls, <<>>), Len(r.calls))
        /\ {v \in Vertices : r.visited[v] = "0"} = Vertices \ Called(r.calls)
    BY <1>1, <1>2, DfsMarksEnd
  <2>3. Distinct(Word(r.calls, <<>>), Len(r.calls))
    BY <2>2
  <2>4. u = Min(Vertices \ Called(r.calls))
    BY <2>2
  <2>5. u \in Vertices
    BY <1>3
  <2>6. \A b \in Arcs : b[1] = u => b \in Pending(fs)
    BY <1>7
  <2>7. Active(fs) \subseteq {u}
    BY <1>6, <1>7
  <2>8. c = Append(r.calls, <<u, r.subGraphNo + 1>>)
    BY <1>4
  <2> HIDE DEF c
  <2> QED BY <1>2, <2>1, <2>3, <2>4, <2>5, <2>6, <2>7, <2>8, DfsFoundNext
<1> HIDE DEF c, vis, d
<1>11. DfsState(d)
  <2>1. DfsMarks(d.visited, d.calls)
    BY <1>8, <1>9
  <2>2. DfsFound(d.start, d.calls, d.subGraphNo, Pending(d.frames), Active(d.frames))
    BY <1>4, <1>8, <1>10
  <2>3. Pending(d.frames) \subseteq Arcs
    BY <1>6, <1>7, <1>8
  <2> QED BY <1>8, <2>1, <2>2, <2>3 DEF DfsState
<1> QED BY <1>11 DEF d, a

(* No call runs and every vertex has a mark.                               *)
LEMMA DfsEnds ==
  ASSUME GraphShape, graph # NULL, NEW r, DfsState(r), r.frames = <<>>,
         {v \in Vertices : r.visited[v] = "0"} = {}
  PROVE  Exact("dfs", r.start, r.calls, {})
<1>1. RunType(r) /\ DfsMarks(r.visited, r.calls)
  BY DEF DfsState
<1>2. /\ r.visited \in [Vertices -> {"0", "1", "2"}]
      /\ r.subGraphNo \in Nat /\ r.calls \in CallSeq(Vertices)
  BY <1>1 DEF RunType
<1>3. Pending(r.frames) = {}
  BY NoFrames
<1>4. DfsFound(r.start, r.calls, r.subGraphNo, {}, Active(r.frames))
  BY <1>3 DEF DfsState
<1>5. /\ Distinct(Word(r.calls, <<>>), Len(r.calls))
      /\ Cardinality(Called(r.calls)) = Len(r.calls)
      /\ {v \in Vertices : r.visited[v] = "0"} = Vertices \ Called(r.calls)
      /\ Called(r.calls) \subseteq Vertices
  BY <1>1, <1>2, DfsMarksEnd
<1>6. Distinct(Word(r.calls, <<>>), Len(r.calls))
  BY <1>5
<1>7. PiecesExact("dfs", r.start, r.calls, r.subGraphNo)
  BY <1>2, <1>4, <1>6, DfsFoundEnd
<1>8. Called(r.calls) = Vertices \ Lost({})
  <2>1. Lost({}) = {}
    BY LostIs
  <2> QED BY <1>5, <2>1
<1>9. Cardinality(Called(r.calls)) = Len(r.calls)
  BY <1>5
<1> QED BY <1>2, <1>7, <1>8, <1>9, ExactFrom

-----------------------------------------------------------------------------
(* The steps of the local variables of critical_path_method, of which only *)
(* the types are proved.                                                   *)

(* The first push, of start.                                               *)
LEMMA CpmBegins ==
  ASSUME NEW r, NEW q, FirstState(r, q)
  PROVE  r.start \in Vertices /\ CpmState(r, Append(q, r.start))
<1>1. r.start \in Vertices /\ r = NewRun(r.start) /\ q = <<>>
  BY DEF FirstState
<1>2. RunType(r)
  BY <1>1, NewRunType
<1>3. Append(q, r.start) \in Seq(Vertices)
  BY <1>1
<1> QED BY <1>1, <1>2, <1>3 DEF CpmState

(* A vertex is popped, with the edges to go through.                       *)
LEMMA CpmTakes ==
  ASSUME NEW r, NEW q, CpmState(r, q), q # <<>>, NEW x, x = Head(q),
         NEW edges \in Seq(DOMAIN graph.edges), NEW f, f = Frame(x, edges)
  PROVE  CpmState(Timing(r, x, f), Tail(q)) /\ Timing(r, x, f).frames # <<>>
<1> DEFINE fs == <<f>>
           vis == SetMark(r.visited, x, "2")
           d == Timing(r, x, f)
<1>1. /\ r.start \in Vertices /\ r.visited \in [Vertices -> {"0", "1", "2"}]
      /\ r.subGraphNo \in Nat /\ r.calls \in CallSeq(Vertices) /\ IsRec(r)
      /\ q \in Seq(Vertices)
  BY DEF CpmState, RunType
<1>2. x \in Vertices /\ Tail(q) \in Seq(Vertices)
  BY <1>1
<1>3. vis \in [Vertices -> {"0", "1", "2"}]
  BY <1>1, <1>2, SetMarkIs
<1>4. f \in FrameSet(Vertices, DOMAIN graph.edges)
  BY <1>2 DEF Frame, FrameSet
<1>5. fs \in Seq(FrameSet(Vertices, DOMAIN graph.edges)) /\ fs # <<>>
  BY <1>4
<1>6. d = Rec(r.start, vis, fs, r.subGraphNo, r.calls, r.refused, r.early, r.late)
  BY <1>1, RecSteps
<1> HIDE DEF fs, vis, d
<1>7. RunType(d) /\ d.frames = fs
  BY <1>1, <1>3, <1>5, <1>6, RecType
<1>8. CpmState(d, Tail(q)) /\ d.frames # <<>>
  BY <1>2, <1>5, <1>7 DEF CpmState
<1> QED BY <1>8 DEF d

(* An edge is passed.                                                      *)
LEMMA CpmAdvances ==
  ASSUME GraphShape, graph # NULL, NEW r, RunType(r), HasEdges(r.frames),
         NEW d, d = Advance(r)
  PROVE  RunType(d) /\ d.frames # <<>>
<1> DEFINE fs == NextFrames(r.frames)
           x == CurrentOf(r.frames)
           u == Ahead(r.frames)
<1>1. fs = NextFrames(r.frames) /\ x = CurrentOf(r.frames) /\ u = Ahead(r.frames)
  OBVIOUS
<1>2. fs \in Seq(FrameSet(Vertices, DOMAIN graph.edges)) /\ Len(fs) = Len(r.frames)
  <2> HIDE DEF fs, x, u
  <2> QED BY <1>1, LooksAt
<1>3. RunType(d) /\ d.frames = fs
  BY <1>2, AdvancedIs
<1>4. Len(r.frames) # 0
  BY DEF RunType, HasEdges
<1> HIDE DEF fs
<1>5. fs # <<>>
  BY <1>2, <1>4
<1> QED BY <1>3, <1>5

(* A time is updated.                                                      *)
LEMMA CpmTimes ==
  ASSUME NEW r, RunType(r), NEW n, NEW e, NEW d, d = Timed(r, n, e)
  PROVE  RunType(d) /\ d.frames = r.frames
<1> DEFINE early(x) == [r.early EXCEPT ![n] = x]
           late(x) == [r.late EXCEPT ![n] = x]
<1>1. IsRec(r)
  BY DEF RunType
<1>2. \E x, y : d = Rec(r.start, r.visited, r.frames, r.subGraphNo, r.calls, r.refused, x, y)
  <2>1. CASE call = "forward"
    <3> DEFINE x == [r.early EXCEPT ![n] = Max({@, run.early[Current] + graph.edges[e].weight})]
    <3>1. d = [r EXCEPT !.early = x]
      BY <2>1 DEF Timed
    <3> HIDE DEF x
    <3>2. d = Rec(r.start, r.visited, r.frames, r.subGraphNo, r.calls, r.refused, x, r.late)
      BY <1>1, <3>1 DEF IsRec, Rec
    <3> QED BY <3>2
  <2>2. CASE call # "forward"
    <3> DEFINE y == [r.late EXCEPT ![n] = Min({@, run.late[Current] - graph.edges[e].weight})]
    <3>1. d = [r EXCEPT !.late = y]
      BY <2>2 DEF Timed
    <3> HIDE DEF y
    <3>2. d = Rec(r.start, r.visited, r.frames, r.subGraphNo, r.calls, r.refused, r.early, y)
      BY <1>1, <3>1 DEF IsRec, Rec
    <3> QED BY <3>2
  <2> QED BY <2>1, <2>2
<1>3. PICK x, y : d = Rec(r.start, r.visited, r.frames, r.subGraphNo, r.calls, r.refused, x, y)
  BY <1>2
<1>4. /\ r.start \in Vertices /\ r.visited \in [Vertices -> {"0", "1", "2"}]
      /\ r.frames \in Seq(FrameSet(Vertices, DOMAIN graph.edges))
      /\ r.subGraphNo \in Nat /\ r.calls \in CallSeq(Vertices)
  BY DEF RunType
<1> QED BY <1>3, <1>4, RecType

(* The marks are cleared and the last vertex gets its latest time.         *)
LEMMA CpmTurns ==
  ASSUME NEW r, RunType(r), NEW d, NEW v, NEW t,
         d = [r EXCEPT !.visited = [u \in Vertices |-> "0"], !.late[v] = t]
  PROVE  RunType(d) /\ d.frames = r.frames
<1> DEFINE vis == [u \in Vertices |-> "0"]
           y == [r.late EXCEPT ![v] = t]
<1>1. IsRec(r)
  BY DEF RunType
<1>2. vis \in [Vertices -> {"0", "1", "2"}]
  OBVIOUS
<1> HIDE DEF vis
<1>3. d = [r EXCEPT !.visited = vis, !.late = y]
  BY <1>1 DEF IsRec, Rec, vis
<1> HIDE DEF y
<1>4. d = Rec(r.start, vis, r.frames, r.subGraphNo, r.calls, r.refused, r.early, y)
  BY <1>1, <1>3 DEF IsRec, Rec
<1>5. /\ r.start \in Vertices
      /\ r.frames \in Seq(FrameSet(Vertices, DOMAIN graph.edges))
      /\ r.subGraphNo \in Nat /\ r.calls \in CallSeq(Vertices)
  BY DEF RunType
<1> QED BY <1>2, <1>4, <1>5, RecType

-----------------------------------------------------------------------------
(* The inductive invariant, and every action on it.                        *)

(* The inductive invariant. *)
Calls == {"none", "bfs first", "bfs", "bfs free", "dfs", "forward first",
          "forward", "backward", "cpm free", "floyd"}

StateOf(c, r, q) ==
  /\ c \in {"bfs first", "forward first"} => FirstState(r, q)
  /\ c = "bfs" => BfsState(r, q)
  /\ c = "bfs free" => Exact("bfs", r.start, r.calls, r.refused)
  /\ c = "dfs" => DfsState(r)
  /\ c \in {"forward", "backward"} => CpmState(r, q)
  /\ c = "forward" /\ r.frames = <<>> => q # <<>>

GraphThere == call # "none" \/ answer # NoAnswer => graph # NULL

GInv ==
  /\ IInv
  /\ GraphShape
  /\ call \in Calls
  /\ GraphThere
  /\ StateOf(call, run, Contents)
  /\ TraversalExact

(* Where the graph stays, so does what is known of the local variables.    *)
LEMMA SameStateOf ==
  ASSUME UNCHANGED graph, NEW c, NEW r, NEW q
  PROVE  StateOf(c, r, q)' <=> StateOf(c, r, q)
<1>1. /\ FirstState(r, q)' <=> FirstState(r, q)
      /\ BfsState(r, q)' <=> BfsState(r, q)
      /\ DfsState(r)' <=> DfsState(r)
      /\ CpmState(r, q)' <=> CpmState(r, q)
  BY SameStates
<1>2. Exact("bfs", r.start, r.calls, r.refused)' <=> Exact("bfs", r.start, r.calls, r.refused)
  BY SameExact
<1> QED BY <1>1, <1>2 DEF StateOf

(* A step within or out of a call. *)
LEMMA Arrives ==
  ASSUME UNCHANGED graph, GraphShape, graph # NULL, IInv', TraversalExact',
         NEW c \in Calls, NEW r, NEW q, StateOf(c, r, q),
         call' = c, run' = r, Contents' = q
  PROVE  GInv'
<1>1. StateOf(c, r, q)'
  BY SameStateOf
<1>2. StateOf(call, run, Contents)'
  BY <1>1
<1>3. GraphShape'
  BY DEF GraphShape
<1>4. GraphThere' /\ call' \in Calls
  BY DEF GraphThere
<1> QED BY <1>2, <1>3, <1>4 DEF GInv

(* Where the answer stays too it stays exact.                              *)
LEMMA SameAnswer ==
  ASSUME UNCHANGED graph, UNCHANGED answer, TraversalExact
  PROVE  TraversalExact'
<1>1. Exact(answer.op, answer.start, answer.calls, answer.refused)'
        <=> Exact(answer.op, answer.start, answer.calls, answer.refused)
  <2>1. \A op, start, calls, refused :
          Exact(op, start, calls, refused)' <=> Exact(op, start, calls, refused)
    BY SameExact
  <2> QED BY <2>1
<1> QED BY <1>1 DEF TraversalExact

(* A push whose result is ignored: the queue has the vertex, or the        *)
(* traversal goes on without it.                                           *)
LEMMA EnqueueStep ==
  ASSUME IInv, GraphShape, graph # NULL, NEW v \in Vertices, NEW role, NEW r,
         Enqueue(v, role, r)
  PROVE  /\ IInv'
         /\ \/ Contents' = Append(Contents, v) /\ run' = r
            \/ Contents' = Contents /\ run' = Dropped(r, <<role, v>>)
<1>1. v \in Value
  BY GraphFacts
<1>2. CASE PushVertex(v) /\ run' = r
  BY <1>1, <1>2, PushVertexStep
<1>3. CASE PushFails /\ run' = [r EXCEPT !.refused = @ \cup {<<role, v>>}]
  BY <1>3, QueueOther DEF Dropped
<1> QED BY <1>2, <1>3 DEF Enqueue

(* The queue of a breadth first traversal is made.                         *)
LEMMA BfsStartStep ==
  ASSUME GInv, NEW s, BfsStart(s)
  PROVE  GInv'
<1>1. /\ UNCHANGED graph /\ UNCHANGED answer /\ GraphShape /\ graph # NULL /\ IInv
      /\ TraversalExact /\ s \in Vertices /\ New /\ call' = "bfs first" /\ run' = NewRun(s)
  BY DEF GInv, BfsStart, CanCall
<1>2. IInv' /\ Contents' = <<>>
  BY <1>1, QueueOther
<1>3. FirstState(NewRun(s), <<>>)
  BY <1>1, NewRunType DEF FirstState
<1>4. StateOf("bfs first", NewRun(s), <<>>) /\ "bfs first" \in Calls
  BY <1>3 DEF StateOf, Calls
<1>5. TraversalExact'
  BY <1>1, SameAnswer
<1> QED BY <1>1, <1>2, <1>4, <1>5, Arrives

(* start is queued, or its push fails and the traversal begins with the    *)
(* first vertex.                                                           *)
LEMMA BfsFirstStep ==
  ASSUME GInv, BfsFirst
  PROVE  GInv'
<1>1. /\ UNCHANGED graph /\ UNCHANGED answer /\ GraphShape /\ graph # NULL /\ IInv
      /\ TraversalExact /\ call' = "bfs" /\ Enqueue(run.start, "root", run)
      /\ FirstState(run, Contents)
  BY DEF GInv, BfsFirst, GraphThere, StateOf
<1> DEFINE s == run.start
<1>2. /\ s \in Vertices
      /\ BfsState(run, Append(Contents, s))
      /\ BfsState(Dropped(run, <<"root", s>>), Contents)
  BY <1>1, BfsBegins
<1>3. /\ IInv'
      /\ \/ Contents' = Append(Contents, s) /\ run' = run
         \/ Contents' = Contents /\ run' = Dropped(run, <<"root", s>>)
  <2>1. Enqueue(s, "root", run)
    BY <1>1
  <2> HIDE DEF s
  <2> QED BY <1>1, <1>2, <2>1, EnqueueStep
<1>4. BfsState(run', Contents')
  BY <1>2, <1>3
<1>5. StateOf("bfs", run', Contents') /\ "bfs" \in Calls
  BY <1>4 DEF StateOf, Calls
<1>6. TraversalExact'
  BY <1>1, SameAnswer
<1>7. IInv'
  BY <1>3
<1> QED BY <1>1, <1>5, <1>6, <1>7, Arrives

(* A vertex is popped and called back for.                                 *)
LEMMA BfsVisitStep ==
  ASSUME GInv, BfsVisit
  PROVE  GInv'
<1>1. /\ UNCHANGED graph /\ UNCHANGED answer /\ GraphShape /\ graph # NULL /\ IInv
      /\ TraversalExact /\ call' = "bfs" /\ PopHead /\ ~HasEdges(run.frames)
      /\ BfsState(run, Contents)
  BY DEF GInv, BfsVisit, GraphThere, StateOf, Looking, HasEdges
<1>2. /\ IInv' /\ Contents # <<>>
      /\ PeekHead = Head(Contents) /\ Contents' = Tail(Contents)
  BY <1>1, PopHeadStep
<1> DEFINE x == PeekHead
           f == Frame(x, graph.incident[x])
<1>3. run' = Taken(run, x, f)
  BY DEF BfsVisit, Taken
<1>4. x = Head(Contents) /\ f = Frame(x, graph.incident[x])
  BY <1>2
<1> HIDE DEF x, f
<1>5. BfsState(Taken(run, x, f), Tail(Contents))
  BY <1>1, <1>2, <1>4, BfsTakes
<1>6. BfsState(run', Contents')
  BY <1>2, <1>3, <1>5
<1>7. StateOf("bfs", run', Contents') /\ "bfs" \in Calls
  BY <1>6 DEF StateOf, Calls
<1>8. TraversalExact'
  BY <1>1, SameAnswer
<1>9. IInv'
  BY <1>2
<1> QED BY <1>1, <1>7, <1>8, <1>9, Arrives

(* An edge of the current vertex is looked at.                             *)
LEMMA BfsLookStep ==
  ASSUME GInv, BfsLook
  PROVE  GInv'
<1> DEFINE u == Ahead(run.frames)
           x == CurrentOf(run.frames)
           d == Marked(Advance(run), u, "1")
<1>1. /\ UNCHANGED graph /\ UNCHANGED answer /\ GraphShape /\ graph # NULL /\ IInv
      /\ TraversalExact /\ call' = "bfs" /\ HasEdges(run.frames)
      /\ BfsState(run, Contents)
  BY DEF GInv, BfsLook, GraphThere, StateOf, Looking, HasEdges
<1>2. \/ run.visited[u] # "0" /\ run' = Advance(run) /\ UNCHANGED vars
      \/ run.visited[u] = "0" /\ Enqueue(u, "edge", d)
  BY DEF BfsLook, Ahead, Current, NextEdge, Met, Marked
<1>e. u = Ahead(run.frames) /\ x = CurrentOf(run.frames) /\ d = Marked(Advance(run), u, "1")
  OBVIOUS
<1> HIDE DEF u, x, d
<1>3. IInv' /\ BfsState(run', Contents')
  <2>1. CASE run.visited[u] # "0" /\ run' = Advance(run) /\ UNCHANGED vars
    <3>1. BfsState(Advance(run), Contents)
      BY <1>1, <1>e, <2>1, BfsMeets
    <3>2. Contents' = Contents /\ IInv'
      BY <1>1, <2>1, QueueSame
    <3> QED BY <2>1, <3>1, <3>2
  <2>2. CASE run.visited[u] = "0" /\ Enqueue(u, "edge", d)
    <3>1. /\ u \in Vertices
          /\ BfsState(d, Append(Contents, u))
          /\ BfsState(Dropped(d, <<"edge", u>>), Contents)
      BY <1>1, <1>e, <2>2, BfsQueues
    <3>2. /\ IInv'
          /\ \/ Contents' = Append(Contents, u) /\ run' = d
             \/ Contents' = Contents /\ run' = Dropped(d, <<"edge", u>>)
      BY <1>1, <2>2, <3>1, EnqueueStep
    <3> QED BY <3>1, <3>2
  <2> QED BY <1>2, <2>1, <2>2
<1>7. StateOf("bfs", run', Contents') /\ "bfs" \in Calls
  BY <1>3 DEF StateOf, Calls
<1>8. TraversalExact'
  BY <1>1, SameAnswer
<1>9. IInv'
  BY <1>3
<1> QED BY <1>1, <1>7, <1>8, <1>9, Arrives

(* An answer is exact when it is given. *)
LEMMA Answers ==
  ASSUME UNCHANGED graph, NEW op, NEW start, NEW calls, NEW refused,
         Exact(op, start, calls, refused),
         answer' = [op |-> op, start |-> start, calls |-> calls, refused |-> refused]
  PROVE  TraversalExact'
<1>1. Exact(op, start, calls, refused)'
  BY SameExact
<1>2. /\ answer'.op = op /\ answer'.start = start /\ answer'.calls = calls
      /\ answer'.refused = refused
  OBVIOUS
<1>3. Exact(answer.op, answer.start, answer.calls, answer.refused)'
  <2>1. \A o, s, c, r : o = op /\ s = start /\ c = calls /\ r = refused
          => Exact(o, s, c, r)'
    BY <1>1
  <2> QED BY <1>2, <2>1
<1> QED BY <1>3 DEF TraversalExact

(* An answer of another algorithm. *)
LEMMA OtherAnswer ==
  ASSUME answer'.op \notin {"bfs", "dfs"}
  PROVE  TraversalExact'
BY DEF TraversalExact

(* The queue is empty, and not all vertices have been met.                 *)
LEMMA BfsRestartStep ==
  ASSUME GInv, BfsRestart
  PROVE  GInv'
<1> DEFINE U == {v \in Vertices : run.visited[v] = "0"}
           u == Min(U)
           d == Renumbered(run)
<1>1. /\ UNCHANGED graph /\ UNCHANGED answer /\ GraphShape /\ graph # NULL /\ IInv
      /\ TraversalExact /\ call' = "bfs" /\ IsEmpty /\ ~HasEdges(run.frames)
      /\ BfsState(run, Contents)
  BY DEF GInv, BfsRestart, GraphThere, StateOf, Looking, HasEdges
<1>2. U # {} /\ Enqueue(u, "root", d)
  BY DEF BfsRestart, Unvisited, Renumbered
<1>3. Contents = <<>> /\ BfsState(run, <<>>)
  BY <1>1, EmptyHolds
<1>e. /\ U = {v \in Vertices : run.visited[v] = "0"}
      /\ u = Min(U) /\ d = Renumbered(run)
  OBVIOUS
<1> HIDE DEF U, u, d
<1>4. /\ u \in Vertices
      /\ BfsState(d, Append(<<>>, u))
      /\ BfsState(Dropped(d, <<"root", u>>), <<>>)
  BY <1>1, <1>2, <1>3, <1>e, BfsRestarts
<1>5. /\ IInv'
      /\ \/ Contents' = Append(Contents, u) /\ run' = d
         \/ Contents' = Contents /\ run' = Dropped(d, <<"root", u>>)
  BY <1>1, <1>2, <1>4, EnqueueStep
<1>6. BfsState(run', Contents')
  BY <1>3, <1>4, <1>5
<1>7. StateOf("bfs", run', Contents') /\ "bfs" \in Calls
  BY <1>6 DEF StateOf, Calls
<1>8. TraversalExact'
  BY <1>1, SameAnswer
<1>9. IInv'
  BY <1>5
<1> QED BY <1>1, <1>7, <1>8, <1>9, Arrives

(* The queue is empty, and all vertices have been met.                     *)
LEMMA BfsDoneStep ==
  ASSUME GInv, BfsDone
  PROVE  GInv'
<1>1. /\ UNCHANGED graph /\ UNCHANGED answer /\ GraphShape /\ graph # NULL /\ IInv
      /\ TraversalExact /\ call' = "bfs free" /\ IsEmpty /\ ~HasEdges(run.frames)
      /\ BfsState(run, Contents) /\ Free /\ run' = run
      /\ {v \in Vertices : run.visited[v] = "0"} = {}
  BY DEF GInv, BfsDone, GraphThere, StateOf, Looking, HasEdges, Unvisited
<1>2. BfsState(run, <<>>)
  BY <1>1, EmptyHolds
<1>3. Exact("bfs", run.start, run.calls, run.refused)
  BY <1>1, <1>2, BfsEnds
<1>4. IInv'
  BY <1>1, QueueOther
<1>5. StateOf("bfs free", run, Contents') /\ "bfs free" \in Calls
  BY <1>3 DEF StateOf, Calls
<1>6. TraversalExact'
  BY <1>1, SameAnswer
<1> QED BY <1>1, <1>4, <1>5, <1>6, Arrives

(* Nothing is known of the local variables between calls. *)
LEMMA Rests ==
  ASSUME NEW c \in {"none", "cpm free", "floyd"}, NEW r, NEW q
  PROVE  c \in Calls /\ StateOf(c, r, q)
BY DEF Calls, StateOf

(* The queue has been freed, and the answer is exact.                      *)
LEMMA BfsReturnStep ==
  ASSUME GInv, BfsReturn
  PROVE  GInv'
<1>1. /\ UNCHANGED graph /\ GraphShape /\ graph # NULL /\ IInv /\ call' = "none"
      /\ FreeQueue /\ run' = NoRun
      /\ answer' = [op |-> "bfs", start |-> run.start, calls |-> run.calls,
                    refused |-> run.refused]
      /\ Exact("bfs", run.start, run.calls, run.refused)
  BY DEF GInv, BfsReturn, GraphThere, StateOf
<1>2. IInv'
  BY <1>1, QueueOther
<1>3. TraversalExact'
  BY <1>1, Answers
<1>4. "none" \in Calls /\ StateOf("none", run', Contents')
  BY Rests
<1> QED BY <1>1, <1>2, <1>3, <1>4, Arrives

(* The call for start begins.                                              *)
LEMMA DfsStartStep ==
  ASSUME GInv, NEW s, DfsStart(s), UNCHANGED vars
  PROVE  GInv'
<1>1. /\ UNCHANGED graph /\ UNCHANGED answer /\ GraphShape /\ graph # NULL /\ IInv
      /\ TraversalExact /\ s \in Vertices /\ call' = "dfs"
      /\ run' = Enter(s, NewRun(s))
  BY DEF GInv, DfsStart, CanCall
<1>2. DfsState(run')
  BY <1>1, DfsBegins
<1>3. StateOf("dfs", run', Contents') /\ "dfs" \in Calls
  BY <1>2 DEF StateOf, Calls
<1>4. IInv' /\ TraversalExact'
  BY <1>1, QueueSame, SameAnswer
<1> QED BY <1>1, <1>3, <1>4, Arrives

(* An edge of the current vertex is looked at.                             *)
LEMMA DfsLookStep ==
  ASSUME GInv, DfsLook, UNCHANGED vars
  PROVE  GInv'
<1> DEFINE u == Ahead(run.frames)
<1>1. /\ UNCHANGED graph /\ UNCHANGED answer /\ GraphShape /\ graph # NULL /\ IInv
      /\ TraversalExact /\ call' = "dfs" /\ HasEdges(run.frames) /\ DfsState(run)
  BY DEF GInv, DfsLook, GraphThere, StateOf, Looking, HasEdges
<1>2. \/ run.visited[u] # "0" /\ run' = Advance(run)
      \/ run.visited[u] = "0" /\ run' = Enter(u, Advance(run))
  BY DEF DfsLook, Ahead, Current, NextEdge, Met
<1>e. u = Ahead(run.frames)
  OBVIOUS
<1> HIDE DEF u
<1>3. DfsState(run')
  <2>1. CASE run.visited[u] # "0" /\ run' = Advance(run)
    <3>1. DfsState(Advance(run))
      BY <1>1, <1>e, <2>1, DfsMeets
    <3> QED BY <2>1, <3>1
  <2>2. CASE run.visited[u] = "0" /\ run' = Enter(u, Advance(run))
    <3>1. DfsState(Enter(u, Advance(run)))
      BY <1>1, <1>e, <2>2, DfsEnters
    <3> QED BY <2>2, <3>1
  <2> QED BY <1>2, <2>1, <2>2
<1>4. StateOf("dfs", run', Contents') /\ "dfs" \in Calls
  BY <1>3 DEF StateOf, Calls
<1>5. IInv' /\ TraversalExact'
  BY <1>1, QueueSame, SameAnswer
<1> QED BY <1>1, <1>4, <1>5, Arrives

(* A call returns.                                                         *)
LEMMA DfsLeaveStep ==
  ASSUME GInv, DfsLeave, UNCHANGED vars
  PROVE  GInv'
<1>1. /\ UNCHANGED graph /\ UNCHANGED answer /\ GraphShape /\ graph # NULL /\ IInv
      /\ TraversalExact /\ call' = "dfs" /\ run.frames # <<>>
      /\ ~HasEdges(run.frames) /\ DfsState(run) /\ run' = Left(run)
  BY DEF GInv, DfsLeave, GraphThere, StateOf, Looking, HasEdges, Left
<1>2. DfsState(Left(run))
  BY <1>1, DfsLeaves
<1>3. StateOf("dfs", run', Contents') /\ "dfs" \in Calls
  BY <1>1, <1>2 DEF StateOf, Calls
<1>4. IInv' /\ TraversalExact'
  BY <1>1, QueueSame, SameAnswer
<1> QED BY <1>1, <1>3, <1>4, Arrives

(* No call runs, and not all vertices have been met.                       *)
LEMMA DfsRestartStep ==
  ASSUME GInv, DfsRestart, UNCHANGED vars
  PROVE  GInv'
<1> DEFINE U == {v \in Vertices : run.visited[v] = "0"}
           u == Min(U)
<1>1. /\ UNCHANGED graph /\ UNCHANGED answer /\ GraphShape /\ graph # NULL /\ IInv
      /\ TraversalExact /\ call' = "dfs" /\ run.frames = <<>> /\ DfsState(run)
  BY DEF GInv, DfsRestart, GraphThere, StateOf
<1>2. U # {} /\ run' = Enter(u, Renumbered(run))
  BY DEF DfsRestart, Unvisited, Renumbered
<1>e. U = {v \in Vertices : run.visited[v] = "0"} /\ u = Min(U)
  OBVIOUS
<1> HIDE DEF U, u
<1>3. DfsState(Enter(u, Renumbered(run)))
  BY <1>1, <1>2, <1>e, DfsRestarts
<1>4. StateOf("dfs", run', Contents') /\ "dfs" \in Calls
  BY <1>2, <1>3 DEF StateOf, Calls
<1>5. IInv' /\ TraversalExact'
  BY <1>1, QueueSame, SameAnswer
<1> QED BY <1>1, <1>4, <1>5, Arrives

(* No call runs and all vertices have been met: the answer is exact.       *)
LEMMA DfsReturnStep ==
  ASSUME GInv, DfsReturn, UNCHANGED vars
  PROVE  GInv'
<1>1. /\ UNCHANGED graph /\ GraphShape /\ graph # NULL /\ IInv /\ call' = "none"
      /\ run' = NoRun /\ run.frames = <<>> /\ DfsState(run)
      /\ {v \in Vertices : run.visited[v] = "0"} = {}
      /\ answer' = [op |-> "dfs", start |-> run.start, calls |-> run.calls,
                    refused |-> {}]
  BY DEF GInv, DfsReturn, GraphThere, StateOf, Unvisited
<1>2. Exact("dfs", run.start, run.calls, {})
  BY <1>1, DfsEnds
<1>3. TraversalExact'
  BY <1>1, <1>2, Answers
<1>4. IInv'
  BY <1>1, QueueSame
<1>5. "none" \in Calls /\ StateOf("none", run', Contents')
  BY Rests
<1> QED BY <1>1, <1>3, <1>4, <1>5, Arrives

(* The queue of critical_path_method is made.                              *)
LEMMA CpmStartStep ==
  ASSUME GInv, NEW s, CpmStart(s)
  PROVE  GInv'
<1>1. /\ UNCHANGED graph /\ UNCHANGED answer /\ GraphShape /\ graph # NULL /\ IInv
      /\ TraversalExact /\ s \in Vertices /\ New /\ call' = "forward first"
      /\ run' = NewRun(s)
  BY DEF GInv, CpmStart, CanCall
<1>2. IInv' /\ Contents' = <<>>
  BY <1>1, QueueOther
<1>3. FirstState(NewRun(s), <<>>)
  BY <1>1, NewRunType DEF FirstState
<1>4. StateOf("forward first", NewRun(s), <<>>) /\ "forward first" \in Calls
  BY <1>3 DEF StateOf, Calls
<1>5. TraversalExact'
  BY <1>1, SameAnswer
<1> QED BY <1>1, <1>2, <1>4, <1>5, Arrives

(* start is queued.                                                        *)
LEMMA CpmFirstStep ==
  ASSUME GInv, CpmFirst
  PROVE  GInv'
<1>1. /\ UNCHANGED graph /\ UNCHANGED answer /\ GraphShape /\ graph # NULL /\ IInv
      /\ TraversalExact /\ call' = "forward" /\ run' = run
      /\ PushVertex(run.start) /\ FirstState(run, Contents)
  BY DEF GInv, CpmFirst, GraphThere, StateOf
<1> DEFINE s == run.start
<1>2. s \in Vertices /\ CpmState(run, Append(Contents, s)) /\ Contents = <<>>
  BY <1>1, CpmBegins DEF FirstState
<1>3. PushVertex(s) /\ s \in Value
  BY <1>1, <1>2, GraphFacts
<1> HIDE DEF s
<1>4. IInv' /\ Contents' = Append(Contents, s)
  BY <1>1, <1>3, PushVertexStep
<1>5. Contents' # <<>> /\ CpmState(run, Contents')
  BY <1>2, <1>4
<1>6. StateOf("forward", run, Contents') /\ "forward" \in Calls
  BY <1>5 DEF StateOf, Calls
<1>7. TraversalExact'
  BY <1>1, SameAnswer
<1> QED BY <1>1, <1>4, <1>6, <1>7, Arrives

(* On the way of the critical path with a frame open. *)
LEMMA CpmGoesOn ==
  ASSUME NEW c \in {"forward", "backward"}, NEW r, NEW q, CpmState(r, q),
         r.frames # <<>>
  PROVE  c \in Calls /\ StateOf(c, r, q)
BY DEF Calls, StateOf

(* What is gone through for a vertex are edges.                            *)
LEMMA ScanType ==
  ASSUME GraphShape, graph # NULL, NEW v \in Vertices
  PROVE  Scan(v) \in Seq(DOMAIN graph.edges)
<1>1. graph.incident[v] \in Seq(DOMAIN graph.edges)
  BY GraphFacts
<1>2. [e \in DOMAIN graph.edges |-> e] \in Seq(DOMAIN graph.edges)
  <2> DEFINE E == DOMAIN graph.edges
             n == Len(graph.edges)
             f == [e \in E |-> e]
  <2>1. E = 1 .. n
    BY GraphFacts
  <2>2. n \in Nat
    BY DEF GraphShape, ShapeOf
  <2>3. f \in [1 .. n -> E]
    BY <2>1
  <2> HIDE DEF E, n, f
  <2>4. f \in Seq(E)
    BY <2>2, <2>3, FunctionIsSeq
  <2> QED BY <2>4 DEF f, E
<1> QED BY <1>1, <1>2 DEF Scan

(* A vertex is popped.                                                     *)
LEMMA CpmVisitStep ==
  ASSUME GInv, CpmVisit
  PROVE  GInv'
<1>1. /\ UNCHANGED graph /\ UNCHANGED answer /\ GraphShape /\ graph # NULL /\ IInv
      /\ TraversalExact /\ call \in {"forward", "backward"} /\ call' = call /\ PopHead
      /\ CpmState(run, Contents)
  BY DEF GInv, CpmVisit, GraphThere, StateOf
<1>2. /\ IInv' /\ Contents # <<>>
      /\ PeekHead = Head(Contents) /\ Contents' = Tail(Contents)
  BY <1>1, PopHeadStep
<1> DEFINE x == PeekHead
           s == Scan(x)
           f == Frame(x, s)
<1>3. run' = Timing(run, x, f)
  BY DEF CpmVisit, Timing
<1>4. x = Head(Contents) /\ f = Frame(x, s)
  BY <1>2
<1>5. x \in Vertices
  BY <1>1, <1>2 DEF CpmState
<1>6. s \in Seq(DOMAIN graph.edges)
  BY <1>1, <1>5, ScanType
<1> HIDE DEF x, s, f
<1>7. CpmState(Timing(run, x, f), Tail(Contents)) /\ Timing(run, x, f).frames # <<>>
  BY <1>1, <1>2, <1>4, <1>6, CpmTakes
<1>8. CpmState(run', Contents') /\ run'.frames # <<>>
  BY <1>2, <1>3, <1>7
<1>9. call \in Calls /\ StateOf(call, run', Contents')
  BY <1>1, <1>8, CpmGoesOn
<1>10. TraversalExact'
  BY <1>1, SameAnswer
<1>11. IInv'
  BY <1>2
<1> QED BY <1>1, <1>9, <1>10, <1>11, Arrives

(* Backward, an edge into another vertex is passed over.                   *)
LEMMA CpmPassStep ==
  ASSUME GInv, CpmPass
  PROVE  GInv'
<1>1. /\ UNCHANGED graph /\ UNCHANGED answer /\ GraphShape /\ graph # NULL /\ IInv
      /\ TraversalExact /\ call \in {"forward", "backward"} /\ call' = call
      /\ HasEdges(run.frames) /\ RunType(run) /\ Contents \in Seq(Vertices)
      /\ run' = Advance(run) /\ UNCHANGED vars
  BY DEF GInv, CpmPass, GraphThere, StateOf, Looking, HasEdges, CpmState
<1>2. RunType(Advance(run)) /\ Advance(run).frames # <<>>
  BY <1>1, CpmAdvances
<1>3. IInv' /\ Contents' = Contents
  BY <1>1, QueueSame
<1>4. CpmState(run', Contents') /\ run'.frames # <<>>
  BY <1>1, <1>2, <1>3 DEF CpmState
<1>5. call \in Calls /\ StateOf(call, run', Contents')
  BY <1>1, <1>4, CpmGoesOn
<1>6. TraversalExact'
  BY <1>1, SameAnswer
<1> QED BY <1>1, <1>3, <1>5, <1>6, Arrives

(* An edge is looked at, and the vertex at its other end queued if it has  *)
(* no mark.                                                                *)
LEMMA CpmLookStep ==
  ASSUME GInv, CpmLook
  PROVE  GInv'
<1> DEFINE e == NextEdge
           n == IF call = "forward" THEN graph.edges[e].to ELSE graph.edges[e].from
           a == Advance(run)
           r == Timed(a, n, e)
           d == Marked(r, n, "1")
<1>1. /\ UNCHANGED graph /\ UNCHANGED answer /\ GraphShape /\ graph # NULL /\ IInv
      /\ TraversalExact /\ call \in {"forward", "backward"} /\ call' = call
      /\ HasEdges(run.frames) /\ RunType(run) /\ Contents \in Seq(Vertices)
  BY DEF GInv, CpmLook, GraphThere, StateOf, Looking, HasEdges, CpmState
<1>2. \/ run' = r /\ UNCHANGED vars
      \/ PushVertex(n) /\ run' = d
  BY DEF CpmLook, Marked
<1>3. e \in DOMAIN graph.edges
  BY <1>1, FramesAdvance DEF NextEdge, RunType
<1>4. n \in Vertices /\ n \in Value
  <2>1. graph.edges[e].from \in Vertices /\ graph.edges[e].to \in Vertices
    BY <1>1, <1>3, GraphFacts
  <2>2. n \in Vertices
    BY <2>1
  <2> QED BY <1>1, <2>2, GraphFacts
<1>5. a = Advance(run) /\ r = Timed(a, n, e) /\ d = Marked(r, n, "1")
  OBVIOUS
<1> HIDE DEF e, n, a, r, d
<1>6. RunType(a) /\ a.frames # <<>>
  BY <1>1, <1>5, CpmAdvances
<1>7. RunType(r) /\ r.frames = a.frames
  BY <1>5, <1>6, CpmTimes
<1>8. RunType(d) /\ d.frames = r.frames
  <2>1. "1" \in {"0", "1", "2"}
    OBVIOUS
  <2> QED BY <1>4, <1>5, <1>7, <2>1, MarkedIs
<1>9. IInv' /\ CpmState(run', Contents') /\ run'.frames # <<>>
  <2>1. CASE run' = r /\ UNCHANGED vars
    <3>1. IInv' /\ Contents' = Contents
      BY <1>1, <2>1, QueueSame
    <3> QED BY <1>1, <1>6, <1>7, <2>1, <3>1 DEF CpmState
  <2>2. CASE PushVertex(n) /\ run' = d
    <3>1. IInv' /\ Contents' = Append(Contents, n)
      BY <1>1, <1>4, <2>2, PushVertexStep
    <3>2. Contents' \in Seq(Vertices)
      BY <1>1, <1>4, <3>1
    <3> QED BY <1>6, <1>7, <1>8, <2>2, <3>1, <3>2 DEF CpmState
  <2> QED BY <1>2, <2>1, <2>2
<1>10. call \in Calls /\ StateOf(call, run', Contents')
  BY <1>1, <1>9, CpmGoesOn
<1>11. TraversalExact'
  BY <1>1, SameAnswer
<1>12. IInv'
  BY <1>9
<1> QED BY <1>1, <1>10, <1>11, <1>12, Arrives

(* The queue is empty after the way forward.  Some vertex was popped, so   *)
(* that there is a current vertex to turn at: start was pushed, and no     *)
(* other step empties the queue.                                           *)
LEMMA CpmTurnStep ==
  ASSUME GInv, CpmTurn
  PROVE  GInv'
<1> DEFINE v == Current
           t == run.early[v]
           d == [run EXCEPT !.visited = [u \in Vertices |-> "0"], !.late[v] = t]
<1>1. /\ UNCHANGED graph /\ UNCHANGED answer /\ GraphShape /\ graph # NULL /\ IInv
      /\ TraversalExact /\ call' = "backward" /\ IsEmpty
      /\ RunType(run) /\ Contents \in Seq(Vertices)
      /\ run.frames = <<>> => Contents # <<>>
  BY DEF GInv, CpmTurn, GraphThere, StateOf, CpmState
<1>2. Contents = <<>> /\ run.frames # <<>>
  BY <1>1, EmptyHolds
<1>3. v \in Vertices
  <2>1. run.frames[1] \in FrameSet(Vertices, DOMAIN graph.edges)
    BY <1>1, <1>2 DEF RunType
  <2> QED BY <2>1 DEF Current, FrameSet
<1>4. v \in Value
  BY <1>1, <1>3, GraphFacts
<1>5. PushVertex(v) /\ run' = d
  BY DEF CpmTurn
<1>6. d = [run EXCEPT !.visited = [u \in Vertices |-> "0"], !.late[v] = t]
  OBVIOUS
<1> HIDE DEF v, t, d
<1>7. RunType(d) /\ d.frames = run.frames
  BY <1>1, <1>6, CpmTurns
<1>8. IInv' /\ Contents' = Append(Contents, v)
  BY <1>1, <1>4, <1>5, PushVertexStep
<1>9. Contents' \in Seq(Vertices)
  BY <1>1, <1>3, <1>8
<1>10. CpmState(run', Contents') /\ run'.frames # <<>>
  BY <1>2, <1>5, <1>7, <1>9 DEF CpmState
<1>11. "backward" \in Calls /\ StateOf("backward", run', Contents')
  BY <1>10, CpmGoesOn
<1>12. TraversalExact'
  BY <1>1, SameAnswer
<1>13. IInv'
  BY <1>8
<1> QED BY <1>1, <1>11, <1>12, <1>13, Arrives

(* The queue is empty after the way backward.                              *)
LEMMA CpmDoneStep ==
  ASSUME GInv, CpmDone
  PROVE  GInv'
<1>1. /\ UNCHANGED graph /\ UNCHANGED answer /\ GraphShape /\ graph # NULL /\ IInv
      /\ TraversalExact /\ call' = "cpm free" /\ Free
  BY DEF GInv, CpmDone, GraphThere
<1>2. IInv'
  BY <1>1, QueueOther
<1>3. "cpm free" \in Calls /\ StateOf("cpm free", run', Contents')
  BY Rests
<1>4. TraversalExact'
  BY <1>1, SameAnswer
<1> QED BY <1>1, <1>2, <1>3, <1>4, Arrives

(* The queue has been freed.                                               *)
LEMMA CpmReturnStep ==
  ASSUME GInv, CpmReturn
  PROVE  GInv'
<1>1. /\ UNCHANGED graph /\ GraphShape /\ graph # NULL /\ IInv /\ call' = "none"
      /\ FreeQueue /\ answer'.op = "cpm"
  BY DEF GInv, CpmReturn, GraphThere
<1>2. IInv'
  BY <1>1, QueueOther
<1>3. TraversalExact'
  BY <1>1, OtherAnswer
<1>4. "none" \in Calls /\ StateOf("none", run', Contents')
  BY Rests
<1> QED BY <1>1, <1>2, <1>3, <1>4, Arrives

(* An undirected graph is turned away.                                     *)
LEMMA CpmRefusesStep ==
  ASSUME GInv, CpmRefuses, UNCHANGED vars
  PROVE  GInv'
<1>1. /\ UNCHANGED graph /\ GraphShape /\ graph # NULL /\ IInv /\ call' = "none"
      /\ answer'.op = "refused"
  BY DEF GInv, CpmRefuses, CanCall
<1>2. IInv'
  BY <1>1, QueueSame
<1>3. TraversalExact'
  BY <1>1, OtherAnswer
<1>4. "none" \in Calls /\ StateOf("none", run', Contents')
  BY Rests
<1> QED BY <1>1, <1>2, <1>3, <1>4, Arrives

(* The other algorithms touch neither the queue nor a traversal.           *)
LEMMA WeighStep ==
  ASSUME GInv, Weigh
  PROVE  GInv'
<1>1. /\ UNCHANGED graph /\ GraphShape /\ IInv /\ TraversalExact /\ UNCHANGED vars
      /\ call # "none" => graph # NULL
  BY DEF GInv, Weigh, GraphThere, Prim, Kruskal, FloydStart, FloydRound, FloydReturn,
         Dijkstra
<1>2. IInv' /\ Contents' = Contents
  BY <1>1, QueueSame
<1>3. CASE Prim \/ Kruskal \/ Dijkstra
  <2>1. graph # NULL /\ call' = "none" /\ answer'.op \in {"prim", "kruskal", "dijkstra"}
    BY <1>3 DEF Prim, Kruskal, Dijkstra, CanCall
  <2>2. TraversalExact'
    BY <2>1, OtherAnswer
  <2>3. "none" \in Calls /\ StateOf("none", run', Contents')
    BY Rests
  <2> QED BY <1>1, <1>2, <2>1, <2>2, <2>3, Arrives
<1>4. CASE FloydStart \/ FloydRound
  <2>1. graph # NULL /\ call' = "floyd" /\ UNCHANGED answer
    BY <1>1, <1>4 DEF FloydStart, FloydRound, CanCall
  <2>2. TraversalExact'
    BY <1>1, <2>1, SameAnswer
  <2>3. "floyd" \in Calls /\ StateOf("floyd", run', Contents')
    BY Rests
  <2> QED BY <1>1, <1>2, <2>1, <2>2, <2>3, Arrives
<1>5. CASE FloydReturn
  <2>1. graph # NULL /\ call' = "none" /\ answer'.op = "floyd"
    BY <1>1, <1>5 DEF FloydReturn
  <2>2. TraversalExact'
    BY <2>1, OtherAnswer
  <2>3. "none" \in Calls /\ StateOf("none", run', Contents')
    BY Rests
  <2> QED BY <1>1, <1>2, <2>1, <2>2, <2>3, Arrives
<1> QED BY <1>3, <1>4, <1>5 DEF Weigh

(* The graph changes only between calls, when no answer is held. *)
LEMMA Changes ==
  ASSUME UNCHANGED vars, IInv, call' = "none", answer' = NoAnswer, GraphShape'
  PROVE  GInv'
<1>1. IInv'
  BY QueueSame
<1>2. StateOf(call, run, Contents)' /\ call' \in Calls
  BY DEF StateOf, Calls
<1>3. GraphThere' /\ TraversalExact'
  BY DEF GraphThere, TraversalExact, NoAnswer
<1> QED BY <1>1, <1>2, <1>3 DEF GInv

(* A graph is made, extended or freed, or an answer taken.                 *)
LEMMA BuildStep ==
  ASSUME GInv, Build
  PROVE  GInv'
<1>1. UNCHANGED vars /\ IInv /\ GraphShape /\ GraphThere
  BY DEF GInv, Build
<1>2. ASSUME NEW type, NewGraph(type) PROVE GInv'
  <2>1. /\ call' = "none" /\ answer' = NoAnswer
        /\ graph' = [graphType |-> type, incident |-> <<>>, edges |-> <<>>]
    BY <1>1, <1>2 DEF NewGraph, GraphThere
  <2>2. ShapeOf(graph')
    BY <2>1, NewShape
  <2>3. GraphShape'
    BY <2>2 DEF GraphShape, ShapeOf
  <2> QED BY <1>1, <2>1, <2>3, Changes
<1>3. ASSUME AddVertex PROVE GInv'
  <2>1. /\ graph # NULL /\ call' = "none" /\ answer' = NoAnswer
        /\ Len(graph.incident) < MaxVertices /\ ShapeOf(graph)
        /\ graph' = [graph EXCEPT !.incident = Append(@, <<>>)]
    BY <1>1, <1>3 DEF AddVertex, CanChange, VertexNum, GraphShape
  <2>2. graph' = [graphType |-> graph.graphType,
                  incident |-> Append(graph.incident, <<>>), edges |-> graph.edges]
    BY <2>1 DEF ShapeOf
  <2>3. ShapeOf(graph')
    BY <2>1, <2>2, VertexShape
  <2>4. GraphShape'
    BY <2>3 DEF GraphShape, ShapeOf
  <2> QED BY <1>1, <2>1, <2>4, Changes
<1>4. ASSUME GraphFree PROVE GInv'
  <2>1. call' = "none" /\ answer' = NoAnswer /\ graph' = NULL
    BY <1>4 DEF GraphFree, CanChange
  <2>2. GraphShape'
    BY <2>1 DEF GraphShape
  <2> QED BY <1>1, <2>1, <2>2, Changes
<1>5. ASSUME TakeAnswer PROVE GInv'
  <2>1. /\ UNCHANGED graph /\ graph # NULL /\ call' = call /\ run' = run
        /\ answer' = NoAnswer /\ call \in Calls /\ StateOf(call, run, Contents)
    BY <1>5 DEF GInv, TakeAnswer, GraphThere
  <2>2. IInv' /\ Contents' = Contents
    BY <1>1, QueueSame
  <2>3. TraversalExact'
    BY <2>1 DEF TraversalExact, NoAnswer
  <2> QED BY <1>1, <2>1, <2>2, <2>3, Arrives
<1> QED BY <1>2, <1>3, <1>4, <1>5 DEF Build

(* An edge is added.                                                       *)
LEMMA LinkStep ==
  ASSUME GInv, Link(AllPairs, Weight)
  PROVE  GInv'
<1>1. PICK p \in AllPairs, w \in Weight : AddEdge(p[1], p[2], w) /\ UNCHANGED vars
  BY DEF Link
<1> DEFINE s == p[1]
           t == p[2]
           inc == Attach(graph.incident, s, t, Len(graph.edges) + 1)
           new == [from |-> s, to |-> t, weight |-> w]
           both == graph.graphType = "undirected"
<1>2. /\ graph # NULL /\ call' = "none" /\ answer' = NoAnswer /\ IInv
      /\ s \in 1 .. Len(graph.incident) /\ t \in 1 .. Len(graph.incident)
      /\ graph' = [graph EXCEPT !.edges = Append(@, new), !.incident = inc]
      /\ ShapeOf(graph)
  <2>1. DOMAIN graph.incident = 1 .. Len(graph.incident) /\ ShapeOf(graph)
    BY <1>1 DEF GInv, AddEdge, CanChange, GraphShape, ShapeOf
  <2> QED BY <1>1, <2>1 DEF GInv, AddEdge, CanChange, Vertices
<1>3. graph' = [graphType |-> graph.graphType, incident |-> inc,
                edges |-> Append(graph.edges, new)]
  BY <1>2 DEF ShapeOf
<1>4. inc = Attached(graph.incident, s, t, both, Len(graph.edges) + 1)
  BY DEF Attach, Attached, Undirected
<1>5. both = (graph.graphType = "undirected")
  OBVIOUS
<1> HIDE DEF inc, both, s, t
<1>6. ShapeOf([graphType |-> graph.graphType, incident |-> inc,
               edges |-> Append(graph.edges, [from |-> s, to |-> t, weight |-> w])])
  BY <1>2, <1>4, <1>5, EdgeShape
<1>8. ShapeOf(graph')
  BY <1>3, <1>6
<1>7. GraphShape'
  BY <1>8 DEF GraphShape, ShapeOf
<1> QED BY <1>1, <1>2, <1>7, Changes

(* Before the first call nothing is there.                                 *)
LEMMA GraphInitInv == GraphInit => GInv
<1> SUFFICES ASSUME GraphInit PROVE GInv
  OBVIOUS
<1>1. Init /\ graph = NULL /\ call = "none" /\ answer = NoAnswer
  BY DEF GraphInit
<1>2. IInv
  BY <1>1, InitInv
<1>3. StateOf(call, run, Contents) /\ call \in Calls
  BY <1>1 DEF StateOf, Calls
<1>4. GraphShape /\ GraphThere /\ TraversalExact
  BY <1>1 DEF GraphShape, GraphThere, TraversalExact, NoAnswer
<1> QED BY <1>2, <1>3, <1>4 DEF GInv

(* The steps of the two traversals.                                        *)
LEMMA TraverseStep ==
  ASSUME GInv, Traverse
  PROVE  GInv'
<1>1. ASSUME NEW s \in 1 .. MaxVertices, BfsStart(s) PROVE GInv'
  BY <1>1, BfsStartStep
<1>2. CASE BfsFirst
  BY <1>2, BfsFirstStep
<1>3. CASE BfsVisit
  BY <1>3, BfsVisitStep
<1>4. CASE BfsLook
  BY <1>4, BfsLookStep
<1>5. CASE BfsRestart
  BY <1>5, BfsRestartStep
<1>6. CASE BfsDone
  BY <1>6, BfsDoneStep
<1>7. CASE BfsReturn
  BY <1>7, BfsReturnStep
<1>8. ASSUME NEW s \in 1 .. MaxVertices, DfsStart(s), UNCHANGED vars PROVE GInv'
  BY <1>8, DfsStartStep
<1>9. CASE DfsLook /\ UNCHANGED vars
  BY <1>9, DfsLookStep
<1>10. CASE DfsLeave /\ UNCHANGED vars
  BY <1>10, DfsLeaveStep
<1>11. CASE DfsRestart /\ UNCHANGED vars
  BY <1>11, DfsRestartStep
<1>12. CASE DfsReturn /\ UNCHANGED vars
  BY <1>12, DfsReturnStep
<1> QED
  BY <1>1, <1>2, <1>3, <1>4, <1>5, <1>6, <1>7, <1>8, <1>9, <1>10, <1>11, <1>12 DEF Traverse

(* The steps of critical_path_method.                                      *)
LEMMA ScheduleStep ==
  ASSUME GInv, Schedule
  PROVE  GInv'
<1>1. ASSUME NEW s \in 1 .. MaxVertices, CpmStart(s) PROVE GInv'
  BY <1>1, CpmStartStep
<1>2. CASE CpmRefuses /\ UNCHANGED vars
  BY <1>2, CpmRefusesStep
<1>3. CASE CpmFirst
  BY <1>3, CpmFirstStep
<1>4. CASE CpmVisit
  BY <1>4, CpmVisitStep
<1>5. CASE CpmPass
  BY <1>5, CpmPassStep
<1>6. CASE CpmLook
  BY <1>6, CpmLookStep
<1>7. CASE CpmTurn
  BY <1>7, CpmTurnStep
<1>8. CASE CpmDone
  BY <1>8, CpmDoneStep
<1>9. CASE CpmReturn
  BY <1>9, CpmReturnStep
<1> QED
  BY <1>1, <1>2, <1>3, <1>4, <1>5, <1>6, <1>7, <1>8, <1>9 DEF Schedule

(* Nothing happens.                                                        *)
LEMMA GraphStuttering ==
  ASSUME GInv, UNCHANGED <<vars, graphVars>>
  PROVE  GInv'
<1>1. /\ UNCHANGED vars /\ UNCHANGED graph /\ call' = call /\ run' = run
      /\ UNCHANGED answer /\ IInv /\ GraphShape /\ GraphThere /\ call \in Calls
      /\ StateOf(call, run, Contents) /\ TraversalExact
  BY DEF graphVars, GInv
<1>2. IInv' /\ Contents' = Contents
  BY <1>1, QueueSame
<1>3. TraversalExact'
  BY <1>1, SameAnswer
<1>4. CASE graph # NULL
  BY <1>1, <1>2, <1>3, <1>4, Arrives
<1>5. CASE graph = NULL
  <2>1. call' = "none" /\ answer' = NoAnswer /\ GraphShape'
    BY <1>1, <1>5 DEF GraphThere, GraphShape
  <2> QED BY <1>1, <2>1, Changes
<1> QED BY <1>4, <1>5

(* Every step keeps the invariant.                                         *)
LEMMA GraphNextInv == GInv /\ [GraphNext]_<<vars, graphVars>> => GInv'
<1> SUFFICES ASSUME GInv, [GraphNext]_<<vars, graphVars>> PROVE GInv'
  OBVIOUS
<1>1. CASE Build
  BY <1>1, BuildStep
<1>2. CASE Link(AllPairs, Weight)
  BY <1>2, LinkStep
<1>3. CASE Traverse
  BY <1>3, TraverseStep
<1>4. CASE Weigh
  BY <1>4, WeighStep
<1>5. CASE Schedule
  BY <1>5, ScheduleStep
<1>6. CASE UNCHANGED <<vars, graphVars>>
  BY <1>6, GraphStuttering
<1> QED BY <1>1, <1>2, <1>3, <1>4, <1>5, <1>6 DEF GraphNext

(* The shape of the graph, in the words of GraphTypeOK.                    *)
LEMMA ShapeIsTyped == GInv => GraphTypeOK
<1> SUFFICES ASSUME GInv PROVE GraphTypeOK
  OBVIOUS
<1>1. TypeOK /\ call \in Calls /\ GraphShape
  BY DEF GInv, IInv
<1>2. ASSUME graph # NULL, NEW v \in Vertices, NEW e \in DOMAIN graph.edges
      PROVE  Cardinality({i \in DOMAIN graph.incident[v] : graph.incident[v][i] = e})
               = (IF graph.edges[e].from = v THEN 1 ELSE 0)
                   + IF Undirected /\ graph.edges[e].to = v THEN 1 ELSE 0
  <2>1. ShapeOf(graph) /\ v \in 1 .. Len(graph.incident) /\ e \in 1 .. Len(graph.edges)
    BY <1>1, <1>2 DEF GraphShape, ShapeOf, Vertices
  <2>2. Count(graph.incident[v], e)
          = One(graph.edges[e].from = v)
              + One(graph.graphType = "undirected" /\ graph.edges[e].to = v)
    BY <2>1 DEF ShapeOf
  <2> QED BY <2>2 DEF Count, Places, One, Undirected
<1> QED BY <1>1, <1>2 DEF GraphTypeOK, Calls

(* The invariant holds whatever graph is built, whichever calls are made   *)
(* on it and whichever pushes fail.                                        *)
THEOREM GraphInvariant == GraphSpec => []GInv
BY GraphInitInv, GraphNextInv, PTL DEF GraphSpec

(* The adjacency lists hold every edge as often as it has ends there,      *)
(* whatever calls built the graph, and the queue of a traversal is linked. *)
THEOREM GraphTyped == GraphSpec => []GraphTypeOK
<1>1. GInv => GraphTypeOK
  BY ShapeIsTyped
<1> QED BY <1>1, GraphInvariant, PTL

(* What a traversal gives its caller is exact: it calls back once for      *)
(* every vertex but for those whose push failed, and when none did the     *)
(* vertices with one number are those reached from one root and not met    *)
(* before, breadth first in the order of their distance from it.           *)
THEOREM TraversalsExact == GraphSpec => []TraversalExact
<1>1. GInv => TraversalExact
  BY DEF GInv
<1> QED BY <1>1, GraphInvariant, PTL
=============================================================================
