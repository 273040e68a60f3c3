---------------------------- MODULE Power_proofs ----------------------------
(***************************************************************************)
(* Proofs about the power flow library: of its sparse matrices of every    *)
(* size, every node is on the lists of its row and of its column, both     *)
(* sorted, and each call is one operation on a matrix of values; a         *)
(* renumbering of any island goes by degree and is undone by recover; and  *)
(* a program keeps the shape of its state through every call of a solver.  *)
(***************************************************************************)
EXTENDS MC_Power, FiniteSetTheorems, SequenceTheorems, WellFoundedInduction, TLAPS

-----------------------------------------------------------------------------
(* A circular list of the nodes S, linked by next: it begins and ends at   *)
(* the head h, which has the least key, and goes through the others in the *)
(* order of their keys, none of which is beyond top.                       *)
IsRing(S, h, key, top, next) ==
  /\ h \in S
  /\ top \in Int
  /\ key \in [S -> Int]
  /\ \A a \in S : key[h] <= key[a] /\ key[a] <= top
  /\ \A a, b \in S : key[a] = key[b] => a = b
  /\ \A a \in S :
       \/ next[a] = h /\ \A b \in S : key[b] <= key[a]
       \/ /\ next[a] \in S
          /\ key[a] < key[next[a]]
          /\ \A b \in S : key[b] <= key[a] \/ key[next[a]] <= key[b]

\* Every set of numbers has a least one.
LEMMA LeastOf ==
  ASSUME NEW S, S \subseteq Nat, S # {}
  PROVE  \E i \in S : \A j \in S : i <= j
<1>1. PICK l \in S : \A j \in SetLessThan(l, OpToRel(<, Nat), Nat) : j \notin S
  BY WFMin, NatLessThanWellFounded DEF SetLessThan
<1>2. ASSUME NEW j \in S, ~(l <= j) PROVE FALSE
  <2>1. j \in Nat /\ l \in Nat
    OBVIOUS
  <2>2. j < l
    BY <1>2, <2>1
  <2>3. j \in SetLessThan(l, OpToRel(<, Nat), Nat)
    BY <2>1, <2>2 DEF SetLessThan, OpToRel
  <2> QED BY <1>1, <1>2, <2>3
<1> QED BY <1>2

\* What holds of 0, and of each number after one it holds of, holds up to top.
LEMMA UpTo ==
  ASSUME NEW top \in Nat, NEW S, 0 \in S,
         \A k \in 1 .. top : k - 1 \in S => k \in S
  PROVE  0 .. top \subseteq S
<1> SUFFICES ASSUME 0 .. top \ S # {} PROVE FALSE
  OBVIOUS
<1>1. PICK k \in (0 .. top) \ S : \A j \in (0 .. top) \ S : k <= j
  <2>1. (0 .. top) \ S \subseteq Nat
    OBVIOUS
  <2> QED BY <2>1, LeastOf
<1>2. k \in 1 .. top /\ k - 1 \in 0 .. top /\ ~(k <= k - 1)
  BY <1>1
<1>3. k - 1 \in S
  BY <1>1, <1>2
<1> QED BY <1>1, <1>2, <1>3

\* Among the nodes of a list there is one with the greatest key.
LEMMA GreatestKey ==
  ASSUME NEW S, NEW key \in [S -> Int], NEW top \in Int, \A a \in S : key[a] <= top,
         NEW T, T \subseteq S, T # {}
  PROVE  \E a \in T : \A b \in T : key[b] <= key[a]
<1> DEFINE D == {top - key[a] : a \in T}
<1>1. D \subseteq Nat /\ D # {}
  BY DEF D
<1>2. PICK d \in D : \A c \in D : d <= c
  BY <1>1, LeastOf
<1>3. PICK a \in T : d = top - key[a]
  BY <1>2
<1>4. ASSUME NEW b \in T PROVE key[b] <= key[a]
  <2>1. d <= top - key[b]
    BY <1>2
  <2> QED BY <1>3, <2>1
<1> QED BY <1>4

\* What holds of the last node, and of each node before one it holds of,
\* holds of all of them.
LEMMA Backwards ==
  ASSUME NEW S, NEW h, NEW key, NEW top, NEW next, IsRing(S, h, key, top, next), NEW Good,
         \A a \in S : next[a] = h \/ next[a] \in Good => a \in Good
  PROVE  S \subseteq Good
<1> SUFFICES ASSUME S \ Good # {} PROVE FALSE
  OBVIOUS
<1>1. PICK a \in S \ Good : \A b \in S \ Good : key[b] <= key[a]
  <2>1. /\ key \in [S -> Int] /\ top \in Int
        /\ \A b \in S : key[b] <= top
    BY DEF IsRing
  <2> DEFINE Bad == S \ Good
  <2>2. Bad \subseteq S /\ Bad # {}
    OBVIOUS
  <2>3. \E a \in Bad : \A b \in Bad : key[b] <= key[a]
    <3> HIDE DEF Bad
    <3> QED BY <2>1, <2>2, GreatestKey
  <2> QED BY <2>3
<1>2. CASE next[a] = h
  BY <1>1, <1>2
<1>3. CASE next[a] # h
  <2>1. next[a] \in S /\ key[a] < key[next[a]] /\ key[a] \in Int /\ key[next[a]] \in Int
    BY <1>1, <1>3 DEF IsRing
  <2>2. next[a] \in Good
    BY <1>1, <2>1
  <2> QED BY <1>1, <2>2
<1> QED BY <1>2, <1>3

-----------------------------------------------------------------------------
(* The loops of setValue: they stop at the last node, and before one at    *)
(* which they have to.                                                     *)
Walks(S, h, next, stop, f) ==
  f = [a \in S |-> IF next[a] = h \/ next[a] \in stop THEN a ELSE f[next[a]]]

\* The loops of setValue stop before the first node whose key is c or more.
LEMMA WalkStops ==
  ASSUME NEW S, NEW h, NEW key, NEW top, NEW next, IsRing(S, h, key, top, next),
         NEW c \in Int, key[h] < c,
         NEW stop, \A a \in S : a # h => (a \in stop <=> key[a] >= c)
  PROVE  /\ \E f : Walks(S, h, next, stop, f)
         /\ \E pre \in S :
              /\ key[pre] < c
              /\ \A b \in S : key[b] <= key[pre] \/ c <= key[b]
              /\ \A f : Walks(S, h, next, stop, f) => f[h] = pre
<1> DEFINE Low == {a \in S : key[a] < c}
<1>1. /\ h \in S /\ key \in [S -> Int] /\ top \in Int
      /\ \A a \in S : key[h] <= key[a] /\ key[a] <= top
      /\ \A a, b \in S : key[a] = key[b] => a = b
  BY DEF IsRing
<1>2. \A a \in S :
        \/ next[a] = h /\ \A b \in S : key[b] <= key[a]
        \/ /\ next[a] \in S
           /\ key[a] < key[next[a]]
           /\ \A b \in S : key[b] <= key[a] \/ key[next[a]] <= key[b]
  BY DEF IsRing
<1>3. PICK pre \in Low : \A b \in Low : key[b] <= key[pre]
  <2>1. Low \subseteq S /\ Low # {}
    BY <1>1
  <2> HIDE DEF Low
  <2> QED BY <1>1, <2>1, GreatestKey
<1>4. \A b \in S : key[b] <= key[pre] \/ c <= key[b]
  BY <1>1, <1>3
<1>5. ASSUME NEW a \in S, key[a] < c, a # pre
      PROVE  next[a] # h /\ next[a] \notin stop /\ next[a] \in S /\ key[next[a]] < c
  <2>1. key[a] < key[pre] /\ pre \in S /\ key[pre] < c
    <3>1. a \in Low
      BY <1>5
    <3> QED BY <1>1, <1>3, <1>5, <3>1
  <2>2. ~\A b \in S : key[b] <= key[a]
    BY <1>1, <2>1
  <2>3. next[a] \in S /\ key[a] < key[next[a]] /\ key[next[a]] <= key[pre]
    BY <1>1, <1>2, <2>1, <2>2
  <2>4. key[next[a]] < c /\ next[a] # h
    BY <1>1, <2>1, <2>3
  <2> QED BY <1>1, <2>3, <2>4
<1>6. ASSUME NEW a \in S, ~(key[a] < c) \/ a = pre
      PROVE  next[a] = h \/ next[a] \in stop
  <2> SUFFICES ASSUME next[a] # h PROVE next[a] \in stop
    OBVIOUS
  <2>1. next[a] \in S /\ key[a] < key[next[a]]
    BY <1>2
  <2>2. ~(key[next[a]] < c)
    <3> SUFFICES ASSUME key[next[a]] < c PROVE FALSE
      OBVIOUS
    <3>1. key[next[a]] <= key[pre] /\ key[a] < c
      BY <1>1, <1>3, <2>1
    <3> QED BY <1>1, <1>3, <1>6, <2>1, <3>1
  <2> QED BY <1>1, <2>1, <2>2
<1> DEFINE w == [a \in S |-> IF key[a] < c THEN pre ELSE a]
<1>7. Walks(S, h, next, stop, w)
  <2>1. ASSUME NEW a \in S
        PROVE  w[a] = IF next[a] = h \/ next[a] \in stop THEN a ELSE w[next[a]]
    <3>1. CASE key[a] < c /\ a # pre
      BY <1>5, <3>1
    <3>2. CASE ~(key[a] < c) \/ a = pre
      BY <1>3, <1>6, <3>2
    <3> QED BY <3>1, <3>2
  <2> QED BY <2>1 DEF Walks
<1>8. \E f : Walks(S, h, next, stop, f)
  <2> HIDE DEF w
  <2> QED BY <1>7
<1>9. ASSUME NEW walk, Walks(S, h, next, stop, walk) PROVE walk[h] = pre
  <2>1. \A a \in S : walk[a] = IF next[a] = h \/ next[a] \in stop THEN a ELSE walk[next[a]]
    BY <1>9 DEF Walks
  <2> HIDE DEF w
  <2> DEFINE Good == {a \in S : key[a] < c => walk[a] = pre}
  <2>2. ASSUME NEW a \in S, next[a] = h \/ next[a] \in Good, key[a] < c PROVE walk[a] = pre
    <3>1. CASE a = pre
      BY <1>6, <2>1, <3>1
    <3>2. CASE a # pre
      BY <1>5, <2>1, <2>2, <3>2
    <3> QED BY <3>1, <3>2
  <2>3. \A a \in S : next[a] = h \/ next[a] \in Good => a \in Good
    BY <2>2
  <2>4. S \subseteq Good
    <3> HIDE DEF Good
    <3> QED BY <2>3, Backwards
  <2> QED BY <1>1, <2>4
<1> QED BY <1>3, <1>4, <1>8, <1>9

(* Node p is linked in after the last one whose key is smaller, pre. *)
LinksIn(S, h, key, k2, top, next, n2, pre, p) ==
  /\ p \notin S
  /\ k2 \in [S \cup {p} -> Int]
  /\ \A a \in S : k2[a] = key[a]
  /\ key[h] < k2[p] /\ k2[p] <= top
  /\ pre \in S /\ key[pre] < k2[p]
  /\ \A b \in S : key[b] <= key[pre] \/ k2[p] < key[b]
  /\ n2[p] = next[pre] /\ n2[pre] = p
  /\ \A a \in S : a # pre => n2[a] = next[a]

\* A node linked in keeps the order.
LEMMA LinkedIn ==
  ASSUME NEW S, NEW h, NEW key, NEW top, NEW next, IsRing(S, h, key, top, next),
         NEW p, NEW k2, NEW pre, NEW n2, LinksIn(S, h, key, k2, top, next, n2, pre, p)
  PROVE  IsRing(S \cup {p}, h, k2, top, n2)
<1> SUFFICES ASSUME p \notin S,
                    k2 \in [S \cup {p} -> Int],
                    \A a \in S : k2[a] = key[a],
                    key[h] < k2[p], k2[p] <= top,
                    pre \in S, key[pre] < k2[p],
                    \A b \in S : key[b] <= key[pre] \/ k2[p] < key[b],
                    n2[p] = next[pre], n2[pre] = p,
                    \A a \in S : a # pre => n2[a] = next[a]
             PROVE  IsRing(S \cup {p}, h, k2, top, n2)
  BY DEF LinksIn
<1> DEFINE T == S \cup {p}
<1>1. /\ h \in S /\ key \in [S -> Int] /\ top \in Int
      /\ \A a \in S : key[h] <= key[a] /\ key[a] <= top
      /\ \A a, b \in S : key[a] = key[b] => a = b
  BY DEF IsRing
<1>2. \A a \in S :
        \/ next[a] = h /\ \A b \in S : key[b] <= key[a]
        \/ /\ next[a] \in S
           /\ key[a] < key[next[a]]
           /\ \A b \in S : key[b] <= key[a] \/ key[next[a]] <= key[b]
  BY DEF IsRing
<1>3. h \in T /\ \A a \in T : k2[h] <= k2[a] /\ k2[a] <= top
  BY <1>1
<1>4. ASSUME NEW a \in T, NEW b \in T, k2[a] = k2[b] PROVE a = b
  <2>1. CASE a \in S /\ b \in S
    BY <1>1, <1>4, <2>1
  <2>2. CASE a = p /\ b = p
    BY <2>2
  <2>3. ASSUME NEW e \in S, k2[e] = k2[p] PROVE FALSE
    <3>1. key[e] = k2[p] /\ key[e] \in Int /\ key[pre] \in Int
      BY <1>1, <2>3
    <3> QED BY <3>1
  <2> QED BY <1>4, <2>1, <2>2, <2>3
<1>5. ASSUME NEW a \in T
      PROVE  \/ n2[a] = h /\ \A b \in T : k2[b] <= k2[a]
             \/ /\ n2[a] \in T
                /\ k2[a] < k2[n2[a]]
                /\ \A b \in T : k2[b] <= k2[a] \/ k2[n2[a]] <= k2[b]
  <2>1. CASE a = p
    <3>1. n2[a] = next[pre]
      BY <2>1
    <3>2. CASE next[pre] = h /\ \A b \in S : key[b] <= key[pre]
      BY <1>1, <2>1, <3>1, <3>2
    <3>3. CASE /\ next[pre] \in S
               /\ key[pre] < key[next[pre]]
               /\ \A b \in S : key[b] <= key[pre] \/ key[next[pre]] <= key[b]
      <4>1. k2[p] < k2[next[pre]] /\ next[pre] \in T
        BY <1>1, <3>3
      <4>2. ASSUME NEW b \in T PROVE k2[b] <= k2[p] \/ k2[next[pre]] <= k2[b]
        <5>1. CASE b = p
          BY <5>1
        <5>2. CASE b \in S
          BY <1>1, <3>3, <4>1, <5>2
        <5> QED BY <5>1, <5>2
      <4> QED BY <2>1, <3>1, <4>1, <4>2
    <3> QED BY <1>2, <3>2, <3>3
  <2>2. CASE a = pre
    <3>1. n2[a] = p /\ p \in T /\ k2[a] < k2[p]
      BY <2>2
    <3>2. \A b \in T : k2[b] <= k2[a] \/ k2[p] <= k2[b]
      BY <1>1, <2>2
    <3> QED BY <3>1, <3>2
  <2>3. CASE a \in S /\ a # pre
    <3>1. n2[a] = next[a] /\ key[a] \in Int /\ k2[a] = key[a] /\ key[pre] \in Int
      BY <1>1, <2>3
    <3>2. key[pre] < key[a] => k2[p] < key[a]
      BY <1>1, <2>3, <3>1
    <3>3. CASE next[a] = h /\ \A b \in S : key[b] <= key[a]
      <4>1. key[pre] <= key[a] /\ key[pre] # key[a]
        BY <1>1, <2>3, <3>3
      <4>2. k2[p] < key[a]
        BY <3>1, <3>2, <4>1
      <4> QED BY <3>1, <3>3, <4>2
    <3>4. CASE /\ next[a] \in S
               /\ key[a] < key[next[a]]
               /\ \A b \in S : key[b] <= key[a] \/ key[next[a]] <= key[b]
      <4>1. k2[next[a]] = key[next[a]] /\ key[next[a]] \in Int
        BY <1>1, <3>4
      <4>2. k2[p] <= key[a] \/ key[next[a]] <= k2[p]
        <5>1. key[pre] # key[a]
          BY <1>1, <2>3
        <5>2. CASE key[pre] < key[a]
          BY <3>1, <3>2, <5>2
        <5>3. CASE key[a] < key[pre]
          BY <3>1, <3>4, <4>1, <5>3
        <5> QED BY <3>1, <5>1, <5>2, <5>3
      <4> QED BY <3>1, <3>4, <4>1, <4>2
    <3> QED BY <1>2, <2>3, <3>3, <3>4
  <2> QED BY <2>1, <2>2, <2>3
<1> QED BY <1>1, <1>3, <1>4, <1>5 DEF IsRing

\* A list whose nodes and their links stay is the same list.
LEMMA RingStays ==
  ASSUME NEW S, NEW h, NEW key, NEW top, NEW next, IsRing(S, h, key, top, next),
         NEW n2, \A a \in S : n2[a] = next[a]
  PROVE  IsRing(S, h, key, top, n2)
BY DEF IsRing

-----------------------------------------------------------------------------
(* The nodes after a, in the order of their keys. *)
After(S, key, a) == {b \in S : key[a] < key[b]}

IsAfter(S, key, a, s) ==
  /\ s \in Seq(S)
  /\ {s[k] : k \in 1 .. Len(s)} = After(S, key, a)
  /\ \A i, j \in 1 .. Len(s) : i < j => key[s[i]] < key[s[j]]

Collects(S, h, next, f) ==
  f = [a \in S |-> IF next[a] = h THEN <<>> ELSE <<next[a]>> \o f[next[a]]]

\* A node in front of a sequence.
LEMMA InFront ==
  ASSUME NEW S, NEW b \in S, NEW t \in Seq(S)
  PROVE  /\ <<b>> \o t \in Seq(S)
         /\ Len(t) \in Nat
         /\ Len(<<b>> \o t) = Len(t) + 1
         /\ (<<b>> \o t)[1] = b
         /\ \A i \in 1 .. Len(t) : (<<b>> \o t)[i + 1] = t[i] /\ t[i] \in S
<1>1. <<b>> \in Seq(S) /\ Len(<<b>>) = 1 /\ <<b>>[1] = b
  OBVIOUS
<1>2. Len(t) \in Nat /\ \A i \in 1 .. Len(t) : t[i] \in S
  BY LenProperties, ElementOfSeq
<1> DEFINE o == <<b>>
<1> HIDE DEF o
<1>3. /\ o \o t \in Seq(S)
      /\ Len(o \o t) = Len(o) + Len(t)
      /\ \A i \in 1 .. Len(o) + Len(t) :
           (o \o t)[i] = IF i <= Len(o) THEN o[i] ELSE t[i - Len(o)]
  BY <1>1, ConcatProperties DEF o
<1>4. o \in Seq(S) /\ Len(o) = 1 /\ o[1] = b
  BY <1>1 DEF o
<1>5. ASSUME NEW i \in 1 .. Len(t) PROVE (o \o t)[i + 1] = t[i]
  <2>1. i + 1 \in 1 .. 1 + Len(t) /\ ~(i + 1 <= 1) /\ (i + 1) - 1 = i
    BY <1>2
  <2> QED BY <1>3, <1>4, <2>1
<1>6. (o \o t)[1] = b
  <2>1. 1 \in 1 .. 1 + Len(t)
    BY <1>2
  <2> QED BY <1>3, <1>4, <2>1
<1>7. Len(o \o t) = Len(t) + 1
  BY <1>2, <1>3, <1>4
<1> QED BY <1>2, <1>3, <1>5, <1>6, <1>7 DEF o

\* What is collected from a node on are the nodes after it.
LEMMA CollectedAfter ==
  ASSUME NEW S, NEW h, NEW key, NEW top, NEW next, IsRing(S, h, key, top, next),
         NEW f, Collects(S, h, next, f)
  PROVE  \A a \in S : IsAfter(S, key, a, f[a])
<1> DEFINE Good == {a \in S : IsAfter(S, key, a, f[a])}
<1>1. /\ h \in S /\ key \in [S -> Int] /\ top \in Int
      /\ \A a \in S : key[h] <= key[a] /\ key[a] <= top
      /\ \A a, b \in S : key[a] = key[b] => a = b
  BY DEF IsRing
<1>2. \A a \in S : f[a] = IF next[a] = h THEN <<>> ELSE <<next[a]>> \o f[next[a]]
  BY DEF Collects
<1>3. ASSUME NEW a \in S, next[a] = h \/ next[a] \in Good PROVE IsAfter(S, key, a, f[a])
  <2>1. CASE next[a] = h
    <3>1. f[a] = <<>>
      BY <1>2, <2>1
    <3>2. \A b \in S : key[b] <= key[a]
      <4>1. ~(key[a] < key[h])
        BY <1>1
      <4> QED BY <2>1, <4>1 DEF IsRing
    <3>3. After(S, key, a) = {}
      BY <1>1, <3>2 DEF After
    <3>4. <<>> \in Seq(S) /\ Len(<<>>) = 0
      OBVIOUS
    <3> QED BY <3>1, <3>3, <3>4 DEF IsAfter
  <2>2. CASE next[a] # h
    <3> DEFINE b == next[a]
               t == f[b]
               u == <<b>> \o t
    <3>1. b \in S /\ key[a] < key[b] /\ \A c \in S : key[c] <= key[a] \/ key[b] <= key[c]
      BY <2>2 DEF IsRing
    <3>2. f[a] = u
      BY <1>2, <2>2
    <3>3. IsAfter(S, key, b, t)
      BY <1>3, <2>2
    <3> HIDE DEF b, t
    <3>4. /\ t \in Seq(S)
          /\ {t[k] : k \in 1 .. Len(t)} = After(S, key, b)
          /\ \A i, j \in 1 .. Len(t) : i < j => key[t[i]] < key[t[j]]
      BY <3>3 DEF IsAfter
    <3>5. /\ u \in Seq(S)
          /\ Len(t) \in Nat
          /\ Len(u) = Len(t) + 1
          /\ u[1] = b
          /\ \A i \in 1 .. Len(t) : u[i + 1] = t[i] /\ t[i] \in S
      BY <3>1, <3>4, InFront
    <3> HIDE DEF u
    <3>6. \A c \in S : key[a] < key[c] <=> c = b \/ key[b] < key[c]
      BY <1>1, <3>1
    <3>7. ASSUME NEW k \in 1 .. Len(u) PROVE u[k] \in After(S, key, a)
      <4>1. CASE k = 1
        BY <3>1, <3>5, <4>1 DEF After
      <4>2. CASE k # 1
        <5>1. k - 1 \in 1 .. Len(t) /\ (k - 1) + 1 = k
          BY <3>5, <4>2
        <5>2. u[k] = t[k - 1]
          BY <3>5, <5>1
        <5>3. t[k - 1] \in After(S, key, b)
          BY <3>4, <5>1
        <5> QED BY <3>6, <5>2, <5>3 DEF After
      <4> QED BY <4>1, <4>2
    <3>8. ASSUME NEW c \in After(S, key, a) PROVE \E k \in 1 .. Len(u) : c = u[k]
      <4>1. CASE c = b
        <5>1. 1 \in 1 .. Len(u)
          BY <3>5
        <5> QED BY <3>5, <4>1, <5>1
      <4>2. CASE c # b
        <5>1. c \in After(S, key, b)
          BY <3>6, <4>2 DEF After
        <5>2. PICK i \in 1 .. Len(t) : c = t[i]
          BY <3>4, <5>1
        <5>3. i + 1 \in 1 .. Len(u) /\ u[i + 1] = t[i]
          BY <3>5
        <5> QED BY <5>2, <5>3
      <4> QED BY <4>1, <4>2
    <3>9. {u[k] : k \in 1 .. Len(u)} = After(S, key, a)
      BY <3>7, <3>8
    <3>10. ASSUME NEW i \in 1 .. Len(u), NEW j \in 1 .. Len(u), i < j
           PROVE  key[u[i]] < key[u[j]]
      <4>1. j - 1 \in 1 .. Len(t) /\ (j - 1) + 1 = j
        BY <3>5, <3>10
      <4>2. u[j] = t[j - 1]
        BY <3>5, <4>1
      <4>3. CASE i = 1
        <5>1. t[j - 1] \in After(S, key, b)
          BY <3>4, <4>1
        <5> QED BY <3>5, <4>2, <4>3, <5>1 DEF After
      <4>4. CASE i # 1
        <5>1. i - 1 \in 1 .. Len(t) /\ (i - 1) + 1 = i /\ i - 1 < j - 1
          BY <3>5, <3>10, <4>4
        <5>2. u[i] = t[i - 1]
          BY <3>5, <5>1
        <5> QED BY <3>4, <4>1, <4>2, <5>1, <5>2
      <4> QED BY <4>3, <4>4
    <3> QED BY <3>2, <3>5, <3>9, <3>10 DEF IsAfter
  <2> QED BY <2>1, <2>2
<1>4. S \subseteq Good
  <2>1. \A a \in S : next[a] = h \/ next[a] \in Good => a \in Good
    BY <1>3
  <2> HIDE DEF Good
  <2> QED BY <2>1, Backwards
<1> QED BY <1>4

\* The nodes can be collected, from the last one backwards.
LEMMA CollectorExists ==
  ASSUME NEW S, NEW h, NEW key, NEW top, NEW next, IsRing(S, h, key, top, next)
  PROVE  \E f : Collects(S, h, next, f)
<1> DEFINE From(a) == {b \in S : key[a] <= key[b]}
           Part(a, f) ==
             f = [b \in From(a) |-> IF next[b] = h THEN <<>> ELSE <<next[b]>> \o f[next[b]]]
           Good == {a \in S : \E f : Part(a, f)}
<1>1. /\ h \in S /\ key \in [S -> Int] /\ top \in Int
      /\ \A a \in S : key[h] <= key[a] /\ key[a] <= top
      /\ \A a, b \in S : key[a] = key[b] => a = b
  BY DEF IsRing
<1>2. ASSUME NEW a \in S, next[a] = h PROVE a \in Good
  <2>1. From(a) = {a}
    <3>1. ~(key[a] < key[h])
      BY <1>1
    <3>2. \A b \in S : key[b] <= key[a]
      BY <1>2, <3>1 DEF IsRing
    <3>3. \A b \in S : key[a] <= key[b] <=> b = a
      BY <1>1, <3>2
    <3> QED BY <3>3
  <2> DEFINE f == [b \in {a} |-> <<>>]
  <2>2. Part(a, f)
    BY <1>2, <2>1
  <2> HIDE DEF Part, f
  <2> QED BY <2>2
<1>3. ASSUME NEW a \in S, next[a] # h, next[a] \in Good PROVE a \in Good
  <2>1. PICK g : Part(next[a], g)
    BY <1>3
  <2>2. next[a] \in S /\ key[a] < key[next[a]]
        /\ \A b \in S : key[b] <= key[a] \/ key[next[a]] <= key[b]
    BY <1>3 DEF IsRing
  <2>3. From(a) = From(next[a]) \cup {a} /\ a \notin From(next[a]) /\ next[a] \in From(next[a])
    <3>1. \A b \in S : key[a] <= key[b] <=> key[next[a]] <= key[b] \/ b = a
      BY <1>1, <2>2
    <3>2. ~(key[next[a]] <= key[a]) /\ key[next[a]] <= key[next[a]]
      BY <1>1, <2>2
    <3> QED BY <2>2, <3>1, <3>2
  <2>4. \A b \in From(next[a]) : next[b] = h \/ next[b] \in From(next[a])
    <3> SUFFICES ASSUME NEW b \in S, key[next[a]] <= key[b], next[b] # h
                 PROVE  next[b] \in S /\ key[next[a]] <= key[next[b]]
      OBVIOUS
    <3>1. next[b] \in S /\ key[b] < key[next[b]]
      BY DEF IsRing
    <3> QED BY <1>1, <2>2, <3>1
  <2> HIDE DEF From
  <2> DEFINE f == [b \in From(a) |-> IF b = a THEN <<next[a]>> \o g[next[a]] ELSE g[b]]
  <2>5. \A b \in From(next[a]) :
          g[b] = IF next[b] = h THEN <<>> ELSE <<next[b]>> \o g[next[b]]
    BY <2>1
  <2>6. ASSUME NEW b \in From(a)
        PROVE  f[b] = IF next[b] = h THEN <<>> ELSE <<next[b]>> \o f[next[b]]
    <3>1. CASE b = a
      <4>1. f[next[a]] = g[next[a]]
        BY <2>3
      <4> QED BY <1>3, <3>1, <4>1
    <3>2. CASE b # a
      <4>1. b \in From(next[a]) /\ f[b] = g[b]
        BY <2>3, <3>2
      <4>2. next[b] # h => f[next[b]] = g[next[b]]
        BY <2>3, <2>4, <4>1
      <4> HIDE DEF f
      <4> QED BY <2>5, <4>1, <4>2
    <3> QED BY <3>1, <3>2
  <2>7. Part(a, f)
    BY <2>6
  <2> HIDE DEF Part, f
  <2> QED BY <2>7
<1>4. S \subseteq Good
  <2> HIDE DEF Good
  <2> QED BY <1>2, <1>3, Backwards
<1>5. From(h) = S
  BY <1>1
<1>6. PICK f : Part(h, f)
  BY <1>1, <1>4
<1> QED BY <1>5, <1>6 DEF Collects

\* The nodes of a line of a matrix are all but its head, in the order of
\* their keys.
LEMMA LineIs ==
  ASSUME NEW next, NEW d, NEW h, NEW S, S = SM!OnLine(next, d, h),
         NEW key, NEW top, IsRing(S, h, key, top, next)
  PROVE  /\ SM!Line(next, d, h) \in Seq(S)
         /\ {SM!Line(next, d, h)[k] : k \in 1 .. Len(SM!Line(next, d, h))} = S \ {h}
         /\ \A i, j \in 1 .. Len(SM!Line(next, d, h)) :
              i < j => key[SM!Line(next, d, h)[i]] < key[SM!Line(next, d, h)[j]]
<1> DEFINE from == CHOOSE f : f = [a \in S |-> IF next[a] = h THEN <<>>
                                               ELSE <<next[a]>> \o f[next[a]]]
<1>1. SM!Line(next, d, h) = from[h]
  BY DEF SM!Line
<1>2. Collects(S, h, next, from)
  <2>1. \E f : Collects(S, h, next, f)
    BY CollectorExists
  <2> QED BY <2>1 DEF Collects
<1> HIDE DEF from
<1>3. h \in S
  BY DEF IsRing
<1>4. IsAfter(S, key, h, from[h])
  BY <1>2, <1>3, CollectedAfter
<1>5. After(S, key, h) = S \ {h}
  BY DEF IsRing, After
<1> QED BY <1>1, <1>4, <1>5 DEF IsAfter

\* The loops of setValue stop before the first node of a line whose key is c
\* or more.
LEMMA BeforeStops ==
  ASSUME NEW next, NEW d, NEW h, NEW S, S = SM!OnLine(next, d, h),
         NEW key, NEW top, IsRing(S, h, key, top, next),
         NEW c \in Int, key[h] < c,
         NEW stop, \A a \in S : a # h => (a \in stop <=> key[a] >= c)
  PROVE  /\ SM!Before(next, d, h, stop) \in S
         /\ key[SM!Before(next, d, h, stop)] < c
         /\ \A b \in S : key[b] <= key[SM!Before(next, d, h, stop)] \/ c <= key[b]
<1> DEFINE walk == CHOOSE f : f = [a \in S |-> IF next[a] = h \/ next[a] \in stop THEN a
                                               ELSE f[next[a]]]
<1>1. SM!Before(next, d, h, stop) = walk[h]
  BY DEF SM!Before
<1>2. Walks(S, h, next, stop, walk)
  <2>1. \E f : Walks(S, h, next, stop, f)
    BY WalkStops
  <2> QED BY <2>1 DEF Walks
<1> HIDE DEF walk
<1>3. PICK pre \in S : /\ key[pre] < c
                       /\ \A b \in S : key[b] <= key[pre] \/ c <= key[b]
                       /\ \A f : Walks(S, h, next, stop, f) => f[h] = pre
  BY WalkStops
<1> QED BY <1>1, <1>2, <1>3


-----------------------------------------------------------------------------
(* The nodes z of a matrix of r rows and c columns: the nodes of each row  *)
(* are a circular list in the order of their columns, those of each column *)
(* one in the order of their rows, and unzeroNum is their number.          *)
RowNodes(z, i) == {a \in DOMAIN z.right : a[1] = i}
ColNodes(z, j) == {a \in DOMAIN z.down : a[2] = j}
ColumnsOf(S) == [a \in S |-> a[2]]
RowsOf(S) == [a \in S |-> a[1]]

Places(r, c) == (0 .. r - 1) \X (0 .. c - 1)

RowRing(z, i, c) ==
  IsRing(RowNodes(z, i), SM!RowHead(i), ColumnsOf(RowNodes(z, i)), c, z.right)
ColRing(z, j, r) ==
  IsRing(ColNodes(z, j), SM!ColHead(j), RowsOf(ColNodes(z, j)), r, z.down)

IsMatrix(z) ==
  /\ z = [right |-> z.right, down |-> z.down, value |-> z.value, unzeroNum |-> z.unzeroNum]
  /\ z.value = [a \in DOMAIN z.value |-> z.value[a]]

Linked(z, r, c) ==
  /\ IsMatrix(z)
  /\ DOMAIN z.value \subseteq Places(r, c)
  /\ DOMAIN z.right = DOMAIN z.value \cup {SM!RowHead(i) : i \in 0 .. r - 1}
  /\ DOMAIN z.down = DOMAIN z.value \cup {SM!ColHead(j) : j \in 0 .. c - 1}
  /\ \A i \in 0 .. r - 1 : RowRing(z, i, c)
  /\ \A j \in 0 .. c - 1 : ColRing(z, j, r)
  /\ IsFiniteSet(DOMAIN z.value)
  /\ z.unzeroNum = Cardinality(DOMAIN z.value)

\* The nodes of a line are its positions with a value and its head.
LEMMA LineNodes ==
  ASSUME NEW r \in Nat, NEW c \in Nat, NEW z, Linked(z, r, c)
  PROVE  /\ \A i \in 0 .. r - 1 :
              /\ RowNodes(z, i) = {a \in DOMAIN z.value : a[1] = i} \cup {SM!RowHead(i)}
              /\ SM!RowHead(i) \notin DOMAIN z.value
         /\ \A j \in 0 .. c - 1 :
              /\ ColNodes(z, j) = {a \in DOMAIN z.value : a[2] = j} \cup {SM!ColHead(j)}
              /\ SM!ColHead(j) \notin DOMAIN z.value
<1>1. \A a \in DOMAIN z.value : a[1] \in 0 .. r - 1 /\ a[2] \in 0 .. c - 1 /\ a = <<a[1], a[2]>>
  BY DEF Linked, Places
<1>2. /\ DOMAIN z.right = DOMAIN z.value \cup {SM!RowHead(i) : i \in 0 .. r - 1}
      /\ DOMAIN z.down = DOMAIN z.value \cup {SM!ColHead(j) : j \in 0 .. c - 1}
  BY DEF Linked
<1>3. \A i : SM!RowHead(i)[1] = i /\ SM!RowHead(i)[2] = -1
  BY DEF SM!RowHead
<1>4. \A j : SM!ColHead(j)[1] = -1 /\ SM!ColHead(j)[2] = j
  BY DEF SM!ColHead
<1>5. \A i \in 0 .. r - 1 : RowNodes(z, i) = {a \in DOMAIN z.value : a[1] = i} \cup {SM!RowHead(i)}
  BY <1>2, <1>3 DEF RowNodes
<1>6. \A j \in 0 .. c - 1 : ColNodes(z, j) = {a \in DOMAIN z.value : a[2] = j} \cup {SM!ColHead(j)}
  BY <1>2, <1>4 DEF ColNodes
<1>7. \A i : SM!RowHead(i) \notin DOMAIN z.value
  <2> SUFFICES ASSUME NEW i, SM!RowHead(i) \in DOMAIN z.value PROVE FALSE
    OBVIOUS
  <2>1. SM!RowHead(i)[2] \in 0 .. c - 1
    BY <1>1
  <2> QED BY <1>3, <2>1
<1>8. \A j : SM!ColHead(j) \notin DOMAIN z.value
  <2> SUFFICES ASSUME NEW j, SM!ColHead(j) \in DOMAIN z.value PROVE FALSE
    OBVIOUS
  <2>1. SM!ColHead(j)[1] \in 0 .. r - 1
    BY <1>1
  <2> QED BY <1>4, <2>1
<1> QED BY <1>5, <1>6, <1>7, <1>8

\* Positions are told apart by their row and column.
LEMMA PlaceIs ==
  ASSUME NEW r, NEW c, NEW p \in Places(r, c)
  PROVE  p[1] \in 0 .. r - 1 /\ p[2] \in 0 .. c - 1 /\ p = <<p[1], p[2]>>
BY DEF Places

\* The first loop of setValue stops before the place of p in its row, and p
\* has a value if and only if it comes next.
LEMMA LeftIs ==
  ASSUME NEW r \in Nat, NEW c \in Nat, NEW z, Linked(z, r, c), NEW p \in Places(r, c)
  PROVE  /\ SM!Left(z, p) \in RowNodes(z, p[1])
         /\ SM!Left(z, p)[2] < p[2]
         /\ \A b \in RowNodes(z, p[1]) : b[2] <= SM!Left(z, p)[2] \/ p[2] <= b[2]
         /\ z.right[SM!Left(z, p)] = p <=> p \in DOMAIN z.value
<1> DEFINE i == p[1]
           S == RowNodes(z, i)
           h == SM!RowHead(i)
           key == ColumnsOf(S)
           stop == {a \in DOMAIN z.value : a[2] >= p[2]}
           pre == SM!Before(z.right, 1, h, stop)
<1>1. i \in 0 .. r - 1 /\ p[2] \in 0 .. c - 1 /\ p = <<i, p[2]>> /\ p[2] \in Int
  BY PlaceIs
<1>2. IsRing(S, h, key, c, z.right)
  BY <1>1 DEF Linked, RowRing
<1>3. S = {a \in DOMAIN z.value : a[1] = i} \cup {h} /\ h \notin DOMAIN z.value
  BY <1>1, LineNodes
<1>4. h[1] = i /\ h[2] = -1
  BY DEF SM!RowHead
<1>5. S = SM!OnLine(z.right, 1, h)
  BY <1>4 DEF SM!OnLine, RowNodes
<1>6. SM!Left(z, p) = pre
  BY DEF SM!Left
<1>7. \A a \in S : key[a] = a[2]
  BY DEF ColumnsOf
<1>8. \A a \in DOMAIN z.value : a[2] \in Int /\ p[2] \in Int /\ a[1] \in Int /\ a = <<a[1], a[2]>>
  BY <1>1 DEF Linked, Places
<1> HIDE DEF h, S, key, i
<1>9. key[h] < p[2] /\ h \in S
  BY <1>1, <1>3, <1>4, <1>7
<1>10. \A a \in S : a # h => (a \in stop <=> key[a] >= p[2])
  BY <1>3, <1>7, <1>8
<1>11. /\ pre \in S
       /\ key[pre] < p[2]
       /\ \A b \in S : key[b] <= key[pre] \/ p[2] <= key[b]
  <2> HIDE DEF stop
  <2> QED BY <1>5, <1>1, <1>2, <1>9, <1>10, BeforeStops
<1> HIDE DEF pre
<1>12. p \in DOMAIN z.value => z.right[pre] = p
  <2> SUFFICES ASSUME p \in DOMAIN z.value PROVE z.right[pre] = p
    OBVIOUS
  <2>1. p \in S /\ p # h
    BY <1>1, <1>3
  <2>2. key \in [S -> Int] /\ \A a, b \in S : key[a] = key[b] => a = b
    BY <1>2 DEF IsRing
  <2>3. key[p] = p[2] /\ ~(key[p] <= key[pre])
    BY <1>1, <1>7, <1>11, <2>1, <2>2
  <2>4. /\ z.right[pre] \in S
        /\ key[pre] < key[z.right[pre]]
        /\ \A b \in S : key[b] <= key[pre] \/ key[z.right[pre]] <= key[b]
    BY <1>2, <1>11, <2>1, <2>3 DEF IsRing
  <2>5. key[z.right[pre]] <= p[2] /\ p[2] <= key[z.right[pre]]
    BY <1>1, <1>11, <2>1, <2>2, <2>3, <2>4
  <2> QED BY <1>1, <2>1, <2>2, <2>3, <2>4, <2>5
<1>13. z.right[pre] = p => p \in DOMAIN z.value
  <2>1. z.right[pre] \in S
    BY <1>2, <1>9, <1>11 DEF IsRing
  <2>2. p # h
    BY <1>1, <1>4
  <2> QED BY <1>3, <2>1, <2>2
<1> QED BY <1>6, <1>7, <1>11, <1>12, <1>13 DEF S, i

\* The second loop stops before the place of p in its column.
LEMMA AboveIs ==
  ASSUME NEW r \in Nat, NEW c \in Nat, NEW z, Linked(z, r, c), NEW p \in Places(r, c),
         p \notin DOMAIN z.value
  PROVE  /\ SM!Above(z, p) \in ColNodes(z, p[2])
         /\ SM!Above(z, p)[1] < p[1]
         /\ \A b \in ColNodes(z, p[2]) : b[1] <= SM!Above(z, p)[1] \/ p[1] < b[1]
<1> DEFINE j == p[2]
           S == ColNodes(z, j)
           h == SM!ColHead(j)
           key == RowsOf(S)
           stop == {a \in DOMAIN z.value : a[1] > p[1]}
           pre == SM!Before(z.down, 2, h, stop)
           d == p[1] + 1
<1>1. j \in 0 .. c - 1 /\ p[1] \in 0 .. r - 1 /\ p = <<p[1], j>> /\ p[1] \in Int /\ d \in Int
  BY PlaceIs
<1>2. IsRing(S, h, key, r, z.down)
  BY <1>1 DEF Linked, ColRing
<1>3. S = {a \in DOMAIN z.value : a[2] = j} \cup {h} /\ h \notin DOMAIN z.value
  BY <1>1, LineNodes
<1>4. h[2] = j /\ h[1] = -1
  BY DEF SM!ColHead
<1>5. S = SM!OnLine(z.down, 2, h)
  BY <1>4 DEF SM!OnLine, ColNodes
<1>6. SM!Above(z, p) = pre
  BY DEF SM!Above
<1>7. \A a \in S : key[a] = a[1]
  BY DEF RowsOf
<1>8. \A a \in DOMAIN z.value : a[1] \in Int /\ a = <<a[1], a[2]>>
  BY <1>1 DEF Linked, Places
<1> HIDE DEF h, S, key, j
<1>9. key[h] < d /\ h \in S
  BY <1>1, <1>3, <1>4, <1>7
<1>10. \A a \in S : a # h => (a \in stop <=> key[a] >= d)
  BY <1>1, <1>3, <1>7, <1>8
<1>11. /\ pre \in S
       /\ key[pre] < d
       /\ \A b \in S : key[b] <= key[pre] \/ d <= key[b]
  <2> HIDE DEF stop, d
  <2> QED BY <1>5, <1>1, <1>2, <1>9, <1>10, BeforeStops
<1> HIDE DEF pre
<1>12. \A a \in S : key[a] \in Int /\ key[a] # p[1]
  <2>1. h[1] # p[1] /\ h[1] \in Int
    BY <1>1, <1>4
  <2> QED BY <1>3, <1>7, <1>8, <1>1, <2>1
<1>13. key[pre] < p[1] /\ \A b \in S : key[b] <= key[pre] \/ p[1] < key[b]
  BY <1>1, <1>11, <1>12
<1> QED BY <1>6, <1>7, <1>11, <1>13 DEF S, j

-----------------------------------------------------------------------------
\* setValue with a position that has a value changes that value only.
LEMMA PutOver ==
  ASSUME NEW r \in Nat, NEW c \in Nat, NEW z, Linked(z, r, c), NEW p \in Places(r, c),
         p \in DOMAIN z.value, NEW v, NEW isAddTo \in BOOLEAN
  PROVE  /\ Linked(SM!Put(z, p, v, isAddTo), r, c)
         /\ SM!Put(z, p, v, isAddTo).value =
              [z.value EXCEPT ![p] = IF isAddTo THEN @ + v ELSE v]
<1> DEFINE new == SM!Put(z, p, v, isAddTo)
           value == [z.value EXCEPT ![p] = IF isAddTo THEN @ + v ELSE v]
<1>1. z.right[SM!Left(z, p)] = p
  BY LeftIs
<1>2. new = [z EXCEPT !.value[p] = IF isAddTo THEN @ + v ELSE v]
  BY <1>1 DEF SM!Put
<1>3. z = [right |-> z.right, down |-> z.down, value |-> z.value, unzeroNum |-> z.unzeroNum]
  BY DEF Linked, IsMatrix
<1>4. new = [right |-> z.right, down |-> z.down, value |-> value, unzeroNum |-> z.unzeroNum]
  BY <1>2, <1>3
<1> HIDE DEF new
<1>5. /\ new.right = z.right /\ new.down = z.down
      /\ new.value = value /\ new.unzeroNum = z.unzeroNum
  BY <1>4
<1>6. DOMAIN new.value = DOMAIN z.value
  BY <1>5
<1>7. IsMatrix(new)
  <2>1. value = [a \in DOMAIN value |-> value[a]]
    BY <1>3 DEF Linked, IsMatrix
  <2> HIDE DEF value
  <2> QED BY <1>4, <1>5, <2>1 DEF IsMatrix
<1> HIDE DEF value
<1>8. \A i : RowNodes(new, i) = RowNodes(z, i)
  BY <1>5 DEF RowNodes
<1>9. \A j : ColNodes(new, j) = ColNodes(z, j)
  BY <1>5 DEF ColNodes
<1>10. \A i \in 0 .. r - 1 : RowRing(new, i, c)
  BY <1>5, <1>8 DEF Linked, RowRing
<1>11. \A j \in 0 .. c - 1 : ColRing(new, j, r)
  BY <1>5, <1>9 DEF Linked, ColRing
<1>12. Linked(new, r, c)
  BY <1>5, <1>6, <1>7, <1>10, <1>11 DEF Linked
<1> QED BY <1>5, <1>12 DEF new, value

\* A node that is linked in keeps the order of its row and leaves the others.
LEMMA RowsKept ==
  ASSUME NEW r \in Nat, NEW c \in Nat, NEW z, Linked(z, r, c), NEW p \in Places(r, c),
         p \notin DOMAIN z.value,
         NEW new, new.right = SM!LinkAfter(z.right, SM!Left(z, p), p),
         NEW i \in 0 .. r - 1
  PROVE  RowRing(new, i, c)
<1> DEFINE pre == SM!Left(z, p)
           S == RowNodes(z, i)
           T == RowNodes(new, i)
           h == SM!RowHead(i)
           key == ColumnsOf(S)
           k2 == ColumnsOf(T)
<1>1. p[1] \in 0 .. r - 1 /\ p[2] \in 0 .. c - 1 /\ p = <<p[1], p[2]>> /\ p[2] \in Int /\ p[2] <= c
  BY PlaceIs
<1>2. /\ pre \in RowNodes(z, p[1])
      /\ pre[2] < p[2]
      /\ \A b \in RowNodes(z, p[1]) : b[2] <= pre[2] \/ p[2] <= b[2]
  BY LeftIs
<1>3. IsRing(S, h, key, c, z.right)
  BY DEF Linked, RowRing
<1>4. S = {a \in DOMAIN z.value : a[1] = i} \cup {h}
  BY LineNodes
<1>5. h[1] = i /\ h[2] = -1
  BY DEF SM!RowHead
<1>6. /\ DOMAIN new.right = DOMAIN z.right \cup {p}
      /\ new.right[p] = z.right[pre]
      /\ \A a \in DOMAIN z.right : a # p => new.right[a] = IF a = pre THEN p ELSE z.right[a]
  BY DEF SM!LinkAfter
<1>7. p \notin DOMAIN z.right
  <2>1. p[2] # -1
    BY <1>1
  <2>2. \A j : SM!RowHead(j)[2] = -1
    BY DEF SM!RowHead
  <2> QED BY <2>1, <2>2 DEF Linked
<1>8. S \subseteq DOMAIN z.right /\ pre \in DOMAIN z.right /\ pre[1] = p[1] /\ pre # p
  BY <1>2, <1>7 DEF RowNodes
<1> HIDE DEF pre
<1>9. CASE i # p[1]
  <2>1. T = S
    BY <1>6, <1>9 DEF RowNodes
  <2>2. ASSUME NEW a \in S PROVE new.right[a] = z.right[a]
    <3>1. a[1] = i /\ a \in DOMAIN z.right /\ a # p /\ a # pre
      BY <1>7, <1>8, <1>9 DEF RowNodes
    <3> QED BY <1>6, <3>1
  <2>3. IsRing(S, h, key, c, new.right)
    <3> HIDE DEF S, h, key
    <3> QED BY <1>3, <2>2, RingStays
  <2> QED BY <2>1, <2>3 DEF RowRing
<1>10. CASE i = p[1]
  <2>1. T = S \cup {p} /\ p \notin S
    BY <1>6, <1>7, <1>10 DEF RowNodes
  <2>2. \A a \in S : key[a] = a[2] /\ k2[a] = a[2]
    BY <2>1 DEF ColumnsOf
  <2>3. k2[p] = p[2] /\ DOMAIN k2 = S \cup {p}
    BY <2>1 DEF ColumnsOf
  <2>4. key \in [S -> Int]
    BY <1>3 DEF IsRing
  <2>5. k2 \in [S \cup {p} -> Int]
    <3>1. \A a \in T : a[2] \in Int
      BY <1>1, <2>1, <2>2, <2>4
    <3> QED BY <2>1, <3>1 DEF ColumnsOf
  <2>6. h \in S /\ key[h] < k2[p] /\ k2[p] <= c
    <3>1. h \in S
      BY <1>4
    <3> QED BY <1>1, <1>5, <2>2, <2>3, <3>1
  <2>7. pre \in S /\ key[pre] < k2[p]
    BY <1>2, <1>10, <2>2, <2>3
  <2>8. \A b \in S : key[b] <= key[pre] \/ k2[p] < key[b]
    <3> SUFFICES ASSUME NEW b \in S PROVE key[b] <= key[pre] \/ k2[p] < key[b]
      OBVIOUS
    <3>1. key[b] # p[2]
      <4>1. CASE b = h
        BY <1>1, <1>5, <2>2, <4>1
      <4>2. CASE b \in DOMAIN z.value /\ b[1] = i
        <5>1. b = <<b[1], b[2]>>
          BY <4>2 DEF Linked, Places
        <5> QED BY <1>1, <1>10, <2>1, <2>2, <4>2, <5>1
      <4> QED BY <1>4, <4>1, <4>2
    <3>2. b[2] <= pre[2] \/ p[2] <= b[2]
      BY <1>2, <1>10
    <3>3. key[b] \in Int /\ key[pre] \in Int /\ key[b] = b[2] /\ key[pre] = pre[2]
      BY <2>2, <2>4, <2>7
    <3> HIDE DEF key, k2
    <3> QED BY <1>1, <2>3, <3>1, <3>2, <3>3
  <2>9. \A a \in S : a # pre => new.right[a] = z.right[a]
    BY <1>6, <1>7, <1>8
  <2>10. new.right[p] = z.right[pre] /\ new.right[pre] = p
    BY <1>6, <1>8
  <2>11. \A a \in S : k2[a] = key[a]
    BY <2>2
  <2>12. LinksIn(S, h, key, k2, c, z.right, new.right, pre, p)
    <3> HIDE DEF S, T, h, key, k2
    <3> QED BY <2>1, <2>5, <2>6, <2>7, <2>8, <2>9, <2>10, <2>11 DEF LinksIn
  <2>13. IsRing(S \cup {p}, h, k2, c, new.right)
    <3> HIDE DEF S, T, h, key, k2
    <3> QED BY <1>3, <2>12, LinkedIn
  <2> QED BY <2>1, <2>13 DEF RowRing
<1> QED BY <1>9, <1>10

\* A node that is linked in keeps the order of its column and leaves the others.
LEMMA ColsKept ==
  ASSUME NEW r \in Nat, NEW c \in Nat, NEW z, Linked(z, r, c), NEW p \in Places(r, c),
         p \notin DOMAIN z.value,
         NEW new, new.down = SM!LinkAfter(z.down, SM!Above(z, p), p),
         NEW j \in 0 .. c - 1
  PROVE  ColRing(new, j, r)
<1> DEFINE pre == SM!Above(z, p)
           S == ColNodes(z, j)
           T == ColNodes(new, j)
           h == SM!ColHead(j)
           key == RowsOf(S)
           k2 == RowsOf(T)
<1>1. p[1] \in 0 .. r - 1 /\ p[2] \in 0 .. c - 1 /\ p = <<p[1], p[2]>> /\ p[1] \in Int /\ p[1] <= r
  BY PlaceIs
<1>2. /\ pre \in ColNodes(z, p[2])
      /\ pre[1] < p[1]
      /\ \A b \in ColNodes(z, p[2]) : b[1] <= pre[1] \/ p[1] < b[1]
  BY AboveIs
<1>3. IsRing(S, h, key, r, z.down)
  BY DEF Linked, ColRing
<1>4. S = {a \in DOMAIN z.value : a[2] = j} \cup {h}
  BY LineNodes
<1>5. h[2] = j /\ h[1] = -1
  BY DEF SM!ColHead
<1>6. /\ DOMAIN new.down = DOMAIN z.down \cup {p}
      /\ new.down[p] = z.down[pre]
      /\ \A a \in DOMAIN z.down : a # p => new.down[a] = IF a = pre THEN p ELSE z.down[a]
  BY DEF SM!LinkAfter
<1>7. p \notin DOMAIN z.down
  <2>1. p[1] # -1
    BY <1>1
  <2>2. \A i : SM!ColHead(i)[1] = -1
    BY DEF SM!ColHead
  <2> QED BY <2>1, <2>2 DEF Linked
<1>8. S \subseteq DOMAIN z.down /\ pre \in DOMAIN z.down /\ pre[2] = p[2] /\ pre # p
  BY <1>2, <1>7 DEF ColNodes
<1> HIDE DEF pre
<1>9. CASE j # p[2]
  <2>1. T = S
    BY <1>6, <1>9 DEF ColNodes
  <2>2. ASSUME NEW a \in S PROVE new.down[a] = z.down[a]
    <3>1. a[2] = j /\ a \in DOMAIN z.down /\ a # p /\ a # pre
      BY <1>7, <1>8, <1>9 DEF ColNodes
    <3> QED BY <1>6, <3>1
  <2>3. IsRing(S, h, key, r, new.down)
    <3> HIDE DEF S, h, key
    <3> QED BY <1>3, <2>2, RingStays
  <2> QED BY <2>1, <2>3 DEF ColRing
<1>10. CASE j = p[2]
  <2>1. T = S \cup {p} /\ p \notin S
    BY <1>6, <1>7, <1>10 DEF ColNodes
  <2>2. \A a \in S : key[a] = a[1] /\ k2[a] = a[1]
    BY <2>1 DEF RowsOf
  <2>3. k2[p] = p[1] /\ DOMAIN k2 = S \cup {p}
    BY <2>1 DEF RowsOf
  <2>4. key \in [S -> Int]
    BY <1>3 DEF IsRing
  <2>5. k2 \in [S \cup {p} -> Int]
    <3>1. \A a \in T : a[1] \in Int
      BY <1>1, <2>1, <2>2, <2>4
    <3> QED BY <2>1, <3>1 DEF RowsOf
  <2>6. h \in S /\ key[h] < k2[p] /\ k2[p] <= r
    <3>1. h \in S
      BY <1>4
    <3> QED BY <1>1, <1>5, <2>2, <2>3, <3>1
  <2>7. pre \in S /\ key[pre] < k2[p]
    BY <1>2, <1>10, <2>2, <2>3
  <2>8. \A b \in S : key[b] <= key[pre] \/ k2[p] < key[b]
    <3> SUFFICES ASSUME NEW b \in S PROVE key[b] <= key[pre] \/ k2[p] < key[b]
      OBVIOUS
    <3>1. key[b] # p[1]
      <4>1. CASE b = h
        BY <1>1, <1>5, <2>2, <4>1
      <4>2. CASE b \in DOMAIN z.value /\ b[2] = j
        <5>1. b = <<b[1], b[2]>>
          BY <4>2 DEF Linked, Places
        <5> QED BY <1>1, <1>10, <2>1, <2>2, <4>2, <5>1
      <4> QED BY <1>4, <4>1, <4>2
    <3>2. b[1] <= pre[1] \/ p[1] < b[1]
      BY <1>2, <1>10
    <3>3. key[b] \in Int /\ key[pre] \in Int /\ key[b] = b[1] /\ key[pre] = pre[1]
      BY <2>2, <2>4, <2>7
    <3> HIDE DEF key, k2
    <3> QED BY <1>1, <2>3, <3>1, <3>2, <3>3
  <2>9. \A a \in S : a # pre => new.down[a] = z.down[a]
    BY <1>6, <1>7, <1>8
  <2>10. new.down[p] = z.down[pre] /\ new.down[pre] = p
    BY <1>6, <1>8
  <2>11. \A a \in S : k2[a] = key[a]
    BY <2>2
  <2>12. LinksIn(S, h, key, k2, r, z.down, new.down, pre, p)
    <3> HIDE DEF S, T, h, key, k2
    <3> QED BY <2>1, <2>5, <2>6, <2>7, <2>8, <2>9, <2>10, <2>11 DEF LinksIn
  <2>13. IsRing(S \cup {p}, h, k2, r, new.down)
    <3> HIDE DEF S, T, h, key, k2
    <3> QED BY <1>3, <2>12, LinkedIn
  <2> QED BY <2>1, <2>13 DEF ColRing
<1> QED BY <1>9, <1>10

\* setValue with a position that has no value gives it a node on both lists.
LEMMA PutNew ==
  ASSUME NEW r \in Nat, NEW c \in Nat, NEW z, Linked(z, r, c), NEW p \in Places(r, c),
         p \notin DOMAIN z.value, NEW v, NEW isAddTo \in BOOLEAN
  PROVE  /\ Linked(SM!Put(z, p, v, isAddTo), r, c)
         /\ SM!Put(z, p, v, isAddTo).value =
              [a \in DOMAIN z.value \cup {p} |-> IF a = p THEN v ELSE z.value[a]]
<1> DEFINE new == SM!Put(z, p, v, isAddTo)
           right == SM!LinkAfter(z.right, SM!Left(z, p), p)
           down == SM!LinkAfter(z.down, SM!Above(z, p), p)
           value == [a \in DOMAIN z.value \cup {p} |-> IF a = p THEN v ELSE z.value[a]]
<1>1. z.right[SM!Left(z, p)] # p
  BY LeftIs
<1>2. new = [right |-> right, down |-> down, value |-> value, unzeroNum |-> z.unzeroNum + 1]
  BY <1>1 DEF SM!Put
<1>3. /\ DOMAIN right = DOMAIN z.right \cup {p}
      /\ DOMAIN down = DOMAIN z.down \cup {p}
      /\ DOMAIN value = DOMAIN z.value \cup {p}
  BY DEF SM!LinkAfter
<1> HIDE DEF new, right, down, value
<1>4. /\ new.right = right /\ new.down = down
      /\ new.value = value /\ new.unzeroNum = z.unzeroNum + 1
  BY <1>2
<1>5. IsMatrix(new)
  <2>1. value = [a \in DOMAIN value |-> value[a]]
    BY DEF value
  <2> QED BY <1>2, <1>4, <2>1 DEF IsMatrix
<1>6. \A i \in 0 .. r - 1 : RowRing(new, i, c)
  BY <1>4, RowsKept DEF right
<1>7. \A j \in 0 .. c - 1 : ColRing(new, j, r)
  BY <1>4, ColsKept DEF down
<1>8. IsFiniteSet(DOMAIN z.value) /\ z.unzeroNum = Cardinality(DOMAIN z.value)
  BY DEF Linked
<1>9. IsFiniteSet(DOMAIN new.value) /\ new.unzeroNum = Cardinality(DOMAIN new.value)
  <2>1. /\ IsFiniteSet(DOMAIN z.value \cup {p})
        /\ Cardinality(DOMAIN z.value \cup {p}) = Cardinality(DOMAIN z.value) + 1
    BY <1>8, FS_AddElement
  <2> QED BY <1>3, <1>4, <1>8, <2>1
<1>10. Linked(new, r, c)
  BY <1>3, <1>4, <1>5, <1>6, <1>7, <1>9 DEF Linked
<1> QED BY <1>4, <1>10 DEF new, value

(* What setValue does to the values of the positions. *)
Set(value, p, v, isAddTo) ==
  [a \in DOMAIN value \cup {p} |->
     IF a = p THEN IF isAddTo /\ p \in DOMAIN value THEN value[p] + v ELSE v ELSE value[a]]

\* A matrix holds its values in a function.
LEMMA SetOver ==
  ASSUME NEW value, value = [a \in DOMAIN value |-> value[a]], NEW p \in DOMAIN value,
         NEW v, NEW isAddTo \in BOOLEAN
  PROVE  [value EXCEPT ![p] = IF isAddTo THEN @ + v ELSE v] = Set(value, p, v, isAddTo)
<1>1. DOMAIN value \cup {p} = DOMAIN value
  OBVIOUS
<1> QED BY <1>1 DEF Set

\* setValue keeps the lists and changes the value of one position.
LEMMA PutIs ==
  ASSUME NEW r \in Nat, NEW c \in Nat, NEW z, Linked(z, r, c), NEW p \in Places(r, c),
         NEW v, NEW isAddTo \in BOOLEAN
  PROVE  /\ Linked(SM!Put(z, p, v, isAddTo), r, c)
         /\ SM!Put(z, p, v, isAddTo).value = Set(z.value, p, v, isAddTo)
<1>1. CASE p \in DOMAIN z.value
  <2>1. z.value = [a \in DOMAIN z.value |-> z.value[a]]
    BY DEF Linked, IsMatrix
  <2>2. [z.value EXCEPT ![p] = IF isAddTo THEN @ + v ELSE v] = Set(z.value, p, v, isAddTo)
    BY <1>1, <2>1, SetOver
  <2> QED BY <1>1, <2>2, PutOver
<1>2. CASE p \notin DOMAIN z.value
  <2>1. Set(z.value, p, v, isAddTo) =
          [a \in DOMAIN z.value \cup {p} |-> IF a = p THEN v ELSE z.value[a]]
    BY <1>2 DEF Set
  <2> QED BY <1>2, <2>1, PutNew
<1> QED BY <1>1, <1>2

-----------------------------------------------------------------------------
\* A row goes through its nodes in the order of their columns.
LEMMA RowIs ==
  ASSUME NEW r \in Nat, NEW c \in Nat, Linked(mx, r, c), NEW i \in 0 .. r - 1
  PROVE  /\ SM!Row(i) \in Seq(DOMAIN mx.value)
         /\ {SM!Row(i)[k] : k \in 1 .. Len(SM!Row(i))} = {a \in DOMAIN mx.value : a[1] = i}
         /\ \A k, l \in 1 .. Len(SM!Row(i)) : k < l => SM!Row(i)[k][2] < SM!Row(i)[l][2]
<1> DEFINE S == RowNodes(mx, i)
           h == SM!RowHead(i)
           key == ColumnsOf(S)
           row == SM!Line(mx.right, 1, h)
<1>1. IsRing(S, h, key, c, mx.right)
  BY DEF Linked, RowRing
<1>2. S = SM!OnLine(mx.right, 1, h)
  BY DEF SM!OnLine, RowNodes, SM!RowHead
<1>3. S \ {h} = {a \in DOMAIN mx.value : a[1] = i}
  <2>1. S = {a \in DOMAIN mx.value : a[1] = i} \cup {h} /\ h \notin DOMAIN mx.value
    BY LineNodes
  <2> QED BY <2>1
<1>4. \A a \in S : key[a] = a[2]
  BY DEF ColumnsOf
<1>5. SM!Row(i) = row
  BY DEF SM!Row
<1>6. /\ row \in Seq(S)
      /\ {row[k] : k \in 1 .. Len(row)} = S \ {h}
      /\ \A k, l \in 1 .. Len(row) : k < l => key[row[k]] < key[row[l]]
  <2> HIDE DEF S, h, key
  <2> QED BY <1>1, <1>2, LineIs
<1> HIDE DEF S, h, key, row
<1>7. Len(row) \in Nat /\ \A k \in 1 .. Len(row) : row[k] \in S
  BY <1>6, LenProperties, ElementOfSeq
<1>8. \A k \in 1 .. Len(row) : row[k] \in DOMAIN mx.value
  BY <1>3, <1>6
<1>9. row \in Seq(DOMAIN mx.value)
  <2> DEFINE D == DOMAIN mx.value
  <2> HIDE DEF D
  <2>1. row \in [1 .. Len(row) -> S]
    BY <1>6, LenProperties
  <2>2. row \in [1 .. Len(row) -> D]
    BY <1>8, <2>1 DEF D
  <2> QED BY <1>7, <2>2, SeqDef DEF D
<1>10. \A k, l \in 1 .. Len(row) : k < l => row[k][2] < row[l][2]
  BY <1>4, <1>6, <1>7
<1> QED BY <1>3, <1>5, <1>6, <1>9, <1>10

\* A column goes through its nodes in the order of their rows.
LEMMA ColumnIs ==
  ASSUME NEW r \in Nat, NEW c \in Nat, Linked(mx, r, c), NEW j \in 0 .. c - 1
  PROVE  /\ SM!Column(j) \in Seq(DOMAIN mx.value)
         /\ {SM!Column(j)[k] : k \in 1 .. Len(SM!Column(j))} = {a \in DOMAIN mx.value : a[2] = j}
         /\ \A k, l \in 1 .. Len(SM!Column(j)) : k < l => SM!Column(j)[k][1] < SM!Column(j)[l][1]
<1> DEFINE S == ColNodes(mx, j)
           h == SM!ColHead(j)
           key == RowsOf(S)
           column == SM!Line(mx.down, 2, h)
<1>1. IsRing(S, h, key, r, mx.down)
  BY DEF Linked, ColRing
<1>2. S = SM!OnLine(mx.down, 2, h)
  BY DEF SM!OnLine, ColNodes, SM!ColHead
<1>3. S \ {h} = {a \in DOMAIN mx.value : a[2] = j}
  <2>1. S = {a \in DOMAIN mx.value : a[2] = j} \cup {h} /\ h \notin DOMAIN mx.value
    BY LineNodes
  <2> QED BY <2>1
<1>4. \A a \in S : key[a] = a[1]
  BY DEF RowsOf
<1>5. SM!Column(j) = column
  BY DEF SM!Column
<1>6. /\ column \in Seq(S)
      /\ {column[k] : k \in 1 .. Len(column)} = S \ {h}
      /\ \A k, l \in 1 .. Len(column) : k < l => key[column[k]] < key[column[l]]
  <2> HIDE DEF S, h, key
  <2> QED BY <1>1, <1>2, LineIs
<1> HIDE DEF S, h, key, column
<1>7. Len(column) \in Nat /\ \A k \in 1 .. Len(column) : column[k] \in S
  BY <1>6, LenProperties, ElementOfSeq
<1>8. \A k \in 1 .. Len(column) : column[k] \in DOMAIN mx.value
  BY <1>3, <1>6
<1>9. column \in Seq(DOMAIN mx.value)
  <2> DEFINE D == DOMAIN mx.value
  <2> HIDE DEF D
  <2>1. column \in [1 .. Len(column) -> S]
    BY <1>6, LenProperties
  <2>2. column \in [1 .. Len(column) -> D]
    BY <1>8, <2>1 DEF D
  <2> QED BY <1>7, <2>2, SeqDef DEF D
<1>10. \A k, l \in 1 .. Len(column) : k < l => column[k][1] < column[l][1]
  BY <1>4, <1>6, <1>7
<1> QED BY <1>3, <1>5, <1>6, <1>9, <1>10

\* freeSpace reaches every node along the rows.
LEMMA AllOnRows ==
  ASSUME NEW r \in Nat, NEW c \in Nat, m = r, Linked(mx, r, c)
  PROVE  SM!OnRows = DOMAIN mx.value
<1>1. ASSUME NEW i \in 0 .. r - 1 PROVE ToSet(SM!Row(i)) = {a \in DOMAIN mx.value : a[1] = i}
  <2> DEFINE row == SM!Row(i)
  <2>1. row \in Seq(DOMAIN mx.value)
        /\ {row[k] : k \in 1 .. Len(row)} = {a \in DOMAIN mx.value : a[1] = i}
    BY RowIs
  <2> HIDE DEF row
  <2>2. DOMAIN row = 1 .. Len(row)
    BY <2>1, LenProperties
  <2>3. ToSet(row) = {row[k] : k \in 1 .. Len(row)}
    BY <2>2 DEF ToSet
  <2> QED BY <2>1, <2>3 DEF row
<1>2. SM!OnRows = UNION {ToSet(SM!Row(i)) : i \in 0 .. r - 1}
  BY DEF SM!OnRows, ToSet, SM!ToSet
<1>3. \A a \in DOMAIN mx.value : a[1] \in 0 .. r - 1
  BY DEF Linked, Places
<1>4. ASSUME NEW a \in SM!OnRows PROVE a \in DOMAIN mx.value
  <2>1. PICK i \in 0 .. r - 1 : a \in ToSet(SM!Row(i))
    BY <1>2
  <2> QED BY <1>1, <2>1
<1>5. ASSUME NEW a \in DOMAIN mx.value PROVE a \in SM!OnRows
  <2> DEFINE i == a[1]
  <2>1. i \in 0 .. r - 1
    BY <1>3
  <2>2. a \in ToSet(SM!Row(i))
    BY <1>1, <2>1
  <2> HIDE DEF i
  <2> QED BY <1>2, <2>1, <2>2
<1> QED BY <1>4, <1>5

(* The lists of a matrix without nodes, each a head. *)
RowHeads(r) == {SM!RowHead(i) : i \in 0 .. r - 1}
ColHeads(c) == {SM!ColHead(j) : j \in 0 .. c - 1}

IsEmpty(z, r, c) ==
  /\ IsMatrix(z)
  /\ DOMAIN z.value = {} /\ z.unzeroNum = 0
  /\ DOMAIN z.right = RowHeads(r) /\ \A a \in RowHeads(r) : z.right[a] = a
  /\ DOMAIN z.down = ColHeads(c) /\ \A a \in ColHeads(c) : z.down[a] = a

\* A head alone is a list.
LEMMA HeadAlone ==
  ASSUME NEW h, NEW key, key \in [{h} -> Int], NEW top \in Int, key[h] <= top,
         NEW next, next[h] = h
  PROVE  IsRing({h}, h, key, top, next)
BY DEF IsRing

\* A matrix without nodes is one.
LEMMA EmptyIsLinked ==
  ASSUME NEW r \in Nat, NEW c \in Nat, NEW z, IsEmpty(z, r, c)
  PROVE  Linked(z, r, c)
<1>1. ASSUME NEW i \in 0 .. r - 1 PROVE RowRing(z, i, c)
  <2> DEFINE h == SM!RowHead(i)
             key == ColumnsOf({h})
  <2>1. RowNodes(z, i) = {h}
    BY DEF IsEmpty, RowNodes, RowHeads, SM!RowHead
  <2>2. key \in [{h} -> Int] /\ key[h] <= c
    BY DEF ColumnsOf, SM!RowHead
  <2>3. z.right[h] = h
    BY DEF IsEmpty, RowHeads
  <2> HIDE DEF h, key
  <2>4. IsRing({h}, h, key, c, z.right)
    BY <2>2, <2>3, HeadAlone
  <2> QED BY <2>1, <2>4 DEF RowRing, h, key
<1>2. ASSUME NEW j \in 0 .. c - 1 PROVE ColRing(z, j, r)
  <2> DEFINE h == SM!ColHead(j)
             key == RowsOf({h})
  <2>1. ColNodes(z, j) = {h}
    BY DEF IsEmpty, ColNodes, ColHeads, SM!ColHead
  <2>2. key \in [{h} -> Int] /\ key[h] <= r
    BY DEF RowsOf, SM!ColHead
  <2>3. z.down[h] = h
    BY DEF IsEmpty, ColHeads
  <2> HIDE DEF h, key
  <2>4. IsRing({h}, h, key, r, z.down)
    BY <2>2, <2>3, HeadAlone
  <2> QED BY <2>1, <2>4 DEF ColRing, h, key
<1>3. IsFiniteSet({}) /\ Cardinality({}) = 0
  BY FS_EmptySet
<1> QED BY <1>1, <1>2, <1>3 DEF IsEmpty, Linked, RowHeads, ColHeads

(* The inductive invariant of a matrix. *)
SMInv ==
  /\ m \in Nat
  /\ n \in Nat
  /\ <<m, n>> \in Sizes \cup {<<0, 0>>}
  /\ Linked(mx, m, n)

LEMMA SMInitInv == SM!Init => SMInv
<1> SUFFICES ASSUME SM!Init PROVE SMInv
  OBVIOUS
<1>1. RowHeads(0) = {} /\ ColHeads(0) = {}
  BY DEF RowHeads, ColHeads
<1>2. IsEmpty(mx, 0, 0)
  BY <1>1 DEF SM!Init, SM!NoMatrix, IsEmpty, IsMatrix
<1> QED BY <1>2, EmptyIsLinked DEF SM!Init, SMInv

\* Nothing outlives freeSpace.
LEMMA NothingLost ==
  ASSUME SMInv
  PROVE  SM!Unreached = [right |-> [a \in {} |-> mx.right[a]], down |-> [a \in {} |-> mx.down[a]],
                         value |-> [a \in {} |-> mx.value[a]], unzeroNum |-> 0]
<1>1. DOMAIN mx.value \ SM!OnRows = {}
  BY AllOnRows DEF SMInv
<1> QED BY <1>1 DEF SM!Unreached

LEMMA FreeSpaceLeaves ==
  ASSUME SMInv, SM!FreeSpace
  PROVE  IsEmpty(mx', 0, 0)
<1>1. RowHeads(0) = {} /\ ColHeads(0) = {}
  BY DEF RowHeads, ColHeads
<1>2. mx' = [right |-> [a \in {} |-> mx.right[a]], down |-> [a \in {} |-> mx.down[a]],
             value |-> [a \in {} |-> mx.value[a]], unzeroNum |-> 0]
  BY NothingLost DEF SM!FreeSpace
<1> QED BY <1>1, <1>2 DEF IsEmpty, IsMatrix

LEMMA InitialMakes ==
  ASSUME SMInv, NEW s \in Nat \X Nat, SM!Initial(s)
  PROVE  IsEmpty(mx', s[1], s[2])
<1> DEFINE R == RowHeads(s[1])
           C == ColHeads(s[2])
           u == SM!Unreached
<1>1. mx' = [u EXCEPT !.right = [a \in DOMAIN @ \cup R |-> IF a \in R THEN a ELSE @[a]],
                      !.down = [a \in DOMAIN @ \cup C |-> IF a \in C THEN a ELSE @[a]]]
  BY DEF SM!Initial, RowHeads, ColHeads
<1>2. u = [right |-> [a \in {} |-> mx.right[a]], down |-> [a \in {} |-> mx.down[a]],
           value |-> [a \in {} |-> mx.value[a]], unzeroNum |-> 0]
  BY NothingLost
<1> HIDE DEF R, C, u
<1>3. mx' = [right |-> [a \in R |-> a], down |-> [a \in C |-> a],
             value |-> [a \in {} |-> mx.value[a]], unzeroNum |-> 0]
  BY <1>1, <1>2
<1> QED BY <1>3 DEF IsEmpty, IsMatrix, R, C

-----------------------------------------------------------------------------
(* The loops of add: f[k] are the nodes after the first k positions. *)
Adds(other, w, f) ==
  f = [k \in 0 .. m * n |->
         IF k = 0 THEN mx
         ELSE LET p == <<(k - 1) \div n, (k - 1) % n>>
              IN  IF p \in DOMAIN other THEN SM!Put(f[k - 1], p, w * other[p], FALSE)
                  ELSE f[k - 1]]

\* The loops of add come to their end.
LEMMA AddsExist ==
  ASSUME NEW top \in Nat, top = m * n, NEW other, NEW w
  PROVE  \E f : Adds(other, w, f)
<1> DEFINE Step(z, k) == LET p == <<(k - 1) \div n, (k - 1) % n>>
                         IN  IF p \in DOMAIN other THEN SM!Put(z, p, w * other[p], FALSE) ELSE z
           Till(k, f) == f = [l \in 0 .. k |-> IF l = 0 THEN mx ELSE Step(f[l - 1], l)]
           Reached == {k \in 0 .. top : \E f : Till(k, f)}
<1> HIDE DEF Step
<1>1. 0 \in Reached
  <2>1. Till(0, [l \in 0 .. 0 |-> mx])
    OBVIOUS
  <2> HIDE DEF Till
  <2> QED BY <2>1
<1>2. ASSUME NEW k \in 1 .. top, k - 1 \in Reached PROVE k \in Reached
  <2>1. PICK f : Till(k - 1, f)
    BY <1>2
  <2> DEFINE g == [l \in 0 .. k |-> IF l = k THEN Step(f[k - 1], k) ELSE f[l]]
  <2>2. \A l \in 0 .. k - 1 : f[l] = IF l = 0 THEN mx ELSE Step(f[l - 1], l)
    BY <2>1
  <2>3. ASSUME NEW l \in 0 .. k PROVE g[l] = IF l = 0 THEN mx ELSE Step(g[l - 1], l)
    <3>1. CASE l = k
      BY <3>1
    <3>2. CASE l # k /\ l # 0
      <4>1. l \in 0 .. k - 1 /\ l - 1 \in 0 .. k /\ l - 1 # k
        BY <3>2
      <4>2. g[l] = f[l] /\ g[l - 1] = f[l - 1]
        BY <3>2, <4>1
      <4> HIDE DEF g
      <4> QED BY <2>2, <3>2, <4>1, <4>2
    <3>3. CASE l = 0
      <4>1. l \in 0 .. k - 1 /\ l # k
        BY <3>3
      <4> QED BY <2>2, <3>3, <4>1
    <3> QED BY <3>1, <3>2, <3>3
  <2>4. g = [l \in 0 .. k |-> IF l = 0 THEN mx ELSE Step(g[l - 1], l)]
    <3>1. g = [l \in 0 .. k |-> g[l]]
      OBVIOUS
    <3> HIDE DEF g
    <3> QED BY <2>3, <3>1
  <2> HIDE DEF g
  <2>5. k \in 0 .. top
    OBVIOUS
  <2> QED BY <2>4, <2>5
<1>3. top \in Reached
  <2> HIDE DEF Reached
  <2> QED BY <1>1, <1>2, UpTo
<1>4. PICK f : Till(top, f)
  BY <1>3
<1> QED BY <1>4 DEF Adds, Step

(* The values after k positions. *)
Over(other, w, k) ==
  [a \in DOMAIN mx.value \cup {q \in DOMAIN other : Map!Number(n, q) < k} |->
     IF a \in DOMAIN other /\ Map!Number(n, a) < k THEN w * other[a] ELSE mx.value[a]]

\* One position of add.
LEMMA OverNext ==
  ASSUME m \in Nat, n \in Nat, NEW other, DOMAIN other \subseteq Places(m, n), NEW w,
         NEW k \in 1 .. m * n
  PROVE  /\ Map!Place(n, k - 1) \in Places(m, n)
         /\ Over(other, w, k) =
              IF Map!Place(n, k - 1) \in DOMAIN other
              THEN Set(Over(other, w, k - 1), Map!Place(n, k - 1),
                       w * other[Map!Place(n, k - 1)], FALSE)
              ELSE Over(other, w, k - 1)
<1> DEFINE p == Map!Place(n, k - 1)
           Num(q) == Map!Number(n, q)
           old == Over(other, w, k - 1)
<1>1. k - 1 \in 0 .. m * n - 1
  <2>1. m * n \in Nat
    OBVIOUS
  <2> QED BY <2>1
<1>2. p \in Places(m, n) /\ Num(p) = k - 1
  BY <1>1, Map!PlaceThenNumber DEF Places
<1>3. ASSUME NEW q \in DOMAIN other
      PROVE  /\ Num(q) \in Int
             /\ Num(q) < k <=> Num(q) < k - 1 \/ q = p
  <2>1. Num(q) \in 0 .. m * n - 1 /\ Map!Place(n, Num(q)) = q
    BY Map!NumberThenPlace DEF Places
  <2>2. Num(q) = k - 1 => q = p
    BY <2>1
  <2> HIDE DEF Num, p
  <2>3. Num(q) \in Int
    BY <2>1
  <2> QED BY <1>1, <1>2, <2>2, <2>3
<1> HIDE DEF p, Num
<1>4. \A l : Over(other, w, l) =
        [a \in DOMAIN mx.value \cup {q \in DOMAIN other : Num(q) < l} |->
           IF a \in DOMAIN other /\ Num(a) < l THEN w * other[a] ELSE mx.value[a]]
  BY DEF Over, Num
<1>5. CASE p \in DOMAIN other
  <2>1. DOMAIN old \cup {p} = DOMAIN mx.value \cup {q \in DOMAIN other : Num(q) < k}
    <3>1. DOMAIN old = DOMAIN mx.value \cup {q \in DOMAIN other : Num(q) < k - 1}
      <4>1. old = [a \in DOMAIN mx.value \cup {q \in DOMAIN other : Num(q) < k - 1} |->
                     IF a \in DOMAIN other /\ Num(a) < k - 1 THEN w * other[a] ELSE mx.value[a]]
        BY <1>4
      <4> HIDE DEF old
      <4> QED BY <4>1
    <3> HIDE DEF old
    <3> QED BY <1>3, <1>5, <3>1
  <2>2. ASSUME NEW a \in DOMAIN old \cup {p}
        PROVE  (IF a = p THEN w * other[p] ELSE old[a]) =
                 IF a \in DOMAIN other /\ Num(a) < k THEN w * other[a] ELSE mx.value[a]
    <3>1. CASE a = p
      BY <1>3, <1>5, <3>1
    <3>2. CASE a # p
      <4>1. old[a] = IF a \in DOMAIN other /\ Num(a) < k - 1 THEN w * other[a] ELSE mx.value[a]
        <5>1. a \in DOMAIN old
          BY <3>2
        <5>2. old = [b \in DOMAIN mx.value \cup {q \in DOMAIN other : Num(q) < k - 1} |->
                       IF b \in DOMAIN other /\ Num(b) < k - 1 THEN w * other[b] ELSE mx.value[b]]
          BY <1>4
        <5> HIDE DEF old
        <5> QED BY <5>1, <5>2
      <4> QED BY <1>3, <3>2, <4>1
    <3> QED BY <3>1, <3>2
  <2>3. Set(old, p, w * other[p], FALSE) =
          [a \in DOMAIN old \cup {p} |-> IF a = p THEN w * other[p] ELSE old[a]]
    BY DEF Set
  <2> HIDE DEF old
  <2>4. Set(old, p, w * other[p], FALSE) = Over(other, w, k)
    <3> DEFINE F(a) == IF a = p THEN w * other[p] ELSE old[a]
               G(a) == IF a \in DOMAIN other /\ Num(a) < k THEN w * other[a] ELSE mx.value[a]
               D == DOMAIN old \cup {p}
    <3>1. \A a \in D : F(a) = G(a)
      BY <2>2
    <3>2. Set(old, p, w * other[p], FALSE) = [a \in D |-> F(a)]
      BY <2>3
    <3>3. Over(other, w, k) = [a \in D |-> G(a)]
      BY <1>4, <2>1
    <3> HIDE DEF F, G, D
    <3> QED BY <3>1, <3>2, <3>3
  <2> QED BY <1>2, <1>5, <2>4 DEF old, p
<1>6. CASE p \notin DOMAIN other
  <2>1. \A q \in DOMAIN other : Num(q) < k <=> Num(q) < k - 1
    BY <1>3, <1>6
  <2>2. {q \in DOMAIN other : Num(q) < k} = {q \in DOMAIN other : Num(q) < k - 1}
    BY <2>1
  <2>3. Over(other, w, k) = old
    BY <1>4, <2>1, <2>2
  <2> QED BY <1>2, <1>6, <2>3 DEF p
<1> QED BY <1>5, <1>6

\* add keeps the lists and lays the values of the other matrix over its own.
LEMMA AddIs ==
  ASSUME SMInv, NEW other, NEW w, SM!Add(other, w)
  PROVE  /\ Linked(mx', m, n)
         /\ DOMAIN other \subseteq Places(m, n)
         /\ mx'.value = [p \in DOMAIN mx.value \cup DOMAIN other |->
                           IF p \in DOMAIN other THEN w * other[p] ELSE mx.value[p]]
<1> DEFINE top == m * n
           after == CHOOSE f : f =
             [k \in 0 .. m * n |->
                IF k = 0 THEN mx
                ELSE LET p == <<(k - 1) \div n, (k - 1) % n>>
                     IN  IF p \in DOMAIN other THEN SM!Put(f[k - 1], p, w * other[p], FALSE)
                         ELSE f[k - 1]]
           Good == {k \in 0 .. top : /\ Linked(after[k], m, n)
                                     /\ after[k].value = Over(other, w, k)}
<1>1. m \in Nat /\ n \in Nat /\ Linked(mx, m, n) /\ top \in Nat
  BY DEF SMInv
<1>2. DOMAIN other \subseteq Places(m, n)
  BY DEF SM!Add, SM!Position, Places
<1>3. mx' = after[top]
  BY DEF SM!Add
<1>4. Adds(other, w, after)
  <2>1. \E f : Adds(other, w, f)
    BY <1>1, AddsExist
  <2> QED BY <2>1 DEF Adds
<1> HIDE DEF after
<1>5. \A k \in 0 .. top :
        after[k] = IF k = 0 THEN mx
                   ELSE IF Map!Place(n, k - 1) \in DOMAIN other
                   THEN SM!Put(after[k - 1], Map!Place(n, k - 1),
                               w * other[Map!Place(n, k - 1)], FALSE)
                   ELSE after[k - 1]
  BY <1>4 DEF Adds, Map!Place
<1> HIDE DEF top
<1>6. \A q \in DOMAIN other : Map!Number(n, q) \in 0 .. top - 1
  BY <1>1, <1>2, Map!NumberThenPlace DEF Places, top
<1>7. 0 \in Good
  <2>1. after[0] = mx
    <3>1. 0 \in 0 .. top
      BY <1>1
    <3> QED BY <1>5, <3>1
  <2>2. {q \in DOMAIN other : Map!Number(n, q) < 0} = {}
    BY <1>6
  <2>3. \A a \in DOMAIN other : ~(Map!Number(n, a) < 0)
    BY <1>6
  <2>4. mx.value = [a \in DOMAIN mx.value |-> mx.value[a]]
    BY <1>1 DEF Linked, IsMatrix
  <2>5. Over(other, w, 0) = mx.value
    BY <2>2, <2>3, <2>4 DEF Over
  <2> QED BY <1>1, <2>1, <2>5
<1>8. ASSUME NEW k \in 1 .. top, k - 1 \in Good PROVE k \in Good
  <2> DEFINE p == Map!Place(n, k - 1)
  <2>1. /\ p \in Places(m, n)
        /\ Over(other, w, k) = IF p \in DOMAIN other
                               THEN Set(Over(other, w, k - 1), p, w * other[p], FALSE)
                               ELSE Over(other, w, k - 1)
    BY <1>1, <1>2, OverNext DEF top
  <2>2. after[k] = IF p \in DOMAIN other THEN SM!Put(after[k - 1], p, w * other[p], FALSE)
                   ELSE after[k - 1]
    <3>1. k \in 0 .. top /\ k # 0
      BY <1>1
    <3> QED BY <1>5, <3>1
  <2>3. Linked(after[k - 1], m, n) /\ after[k - 1].value = Over(other, w, k - 1)
    BY <1>8
  <2> HIDE DEF p
  <2>4. /\ Linked(SM!Put(after[k - 1], p, w * other[p], FALSE), m, n)
        /\ SM!Put(after[k - 1], p, w * other[p], FALSE).value =
             Set(after[k - 1].value, p, w * other[p], FALSE)
    <3> DEFINE z == after[k - 1]
               v == w * other[p]
    <3>1. Linked(z, m, n)
      BY <2>3
    <3> HIDE DEF z, v
    <3>2. \A b \in BOOLEAN : /\ Linked(SM!Put(z, p, v, b), m, n)
                             /\ SM!Put(z, p, v, b).value = Set(z.value, p, v, b)
      BY <1>1, <2>1, <3>1, PutIs
    <3> QED BY <3>2 DEF z, v
  <2>5. k \in 0 .. top
    BY <1>1
  <2> QED BY <2>1, <2>2, <2>3, <2>4, <2>5
<1>9. top \in Good
  <2> HIDE DEF Good
  <2> QED BY <1>1, <1>7, <1>8, UpTo
<1>10. Over(other, w, top) = [p \in DOMAIN mx.value \cup DOMAIN other |->
                                IF p \in DOMAIN other THEN w * other[p] ELSE mx.value[p]]
  <2>1. \A q \in DOMAIN other : Map!Number(n, q) < top
    BY <1>1, <1>6
  <2>2. {q \in DOMAIN other : Map!Number(n, q) < top} = DOMAIN other
    BY <2>1
  <2> QED BY <2>1, <2>2 DEF Over
<1> QED BY <1>2, <1>3, <1>9, <1>10

\* setToZero reaches every value and keeps the lists.
LEMMA MakeZeroIs ==
  ASSUME SMInv, SM!MakeZero
  PROVE  Linked(mx', m, n) /\ mx'.value = [p \in DOMAIN mx.value |-> 0]
<1> DEFINE zero == [p \in DOMAIN mx.value |-> 0]
<1>1. SM!OnRows = DOMAIN mx.value
  BY AllOnRows DEF SMInv
<1>2. mx = [right |-> mx.right, down |-> mx.down, value |-> mx.value, unzeroNum |-> mx.unzeroNum]
  BY DEF SMInv, Linked, IsMatrix
<1>3. mx' = [mx EXCEPT !.value = zero]
  BY <1>1 DEF SM!MakeZero
<1>4. mx' = [right |-> mx.right, down |-> mx.down, value |-> zero, unzeroNum |-> mx.unzeroNum]
  BY <1>2, <1>3
<1>5. DOMAIN zero = DOMAIN mx.value /\ zero = [p \in DOMAIN zero |-> zero[p]]
  OBVIOUS
<1> HIDE DEF zero
<1>6. /\ mx'.right = mx.right /\ mx'.down = mx.down
      /\ mx'.value = zero /\ mx'.unzeroNum = mx.unzeroNum
  BY <1>4
<1>7. IsMatrix(mx')
  BY <1>4, <1>5, <1>6 DEF IsMatrix
<1>8. \A i \in 0 .. m - 1 : RowRing(mx', i, n)
  <2>1. \A i : RowNodes(mx', i) = RowNodes(mx, i)
    BY <1>6 DEF RowNodes
  <2> QED BY <1>6, <2>1 DEF SMInv, Linked, RowRing
<1>9. \A j \in 0 .. n - 1 : ColRing(mx', j, m)
  <2>1. \A j : ColNodes(mx', j) = ColNodes(mx, j)
    BY <1>6 DEF ColNodes
  <2> QED BY <1>6, <2>1 DEF SMInv, Linked, ColRing
<1>10. Linked(mx', m, n)
  BY <1>5, <1>6, <1>7, <1>8, <1>9 DEF SMInv, Linked
<1> QED BY <1>6, <1>10 DEF zero

LEMMA SMNextInv == SM!Parameters /\ SMInv /\ [SM!Next]_(SM!vars) => SMInv'
<1> SUFFICES ASSUME SM!Parameters, SMInv, [SM!Next]_(SM!vars) PROVE SMInv'
  OBVIOUS
<1>1. CASE SM!FreeSpace
  <2>1. m' = 0 /\ n' = 0
    BY <1>1 DEF SM!FreeSpace
  <2>2. Linked(mx', 0, 0)
    BY <1>1, FreeSpaceLeaves, EmptyIsLinked
  <2> QED BY <2>1, <2>2 DEF SMInv
<1>2. ASSUME NEW s \in Sizes, SM!Initial(s) PROVE SMInv'
  <2>1. s \in Nat \X Nat
    BY DEF SM!Parameters
  <2>2. m' = s[1] /\ n' = s[2] /\ <<m', n'>> = s /\ s[1] \in Nat /\ s[2] \in Nat
    BY <1>2, <2>1 DEF SM!Initial
  <2>3. Linked(mx', s[1], s[2])
    BY <1>2, <2>1, <2>2, InitialMakes, EmptyIsLinked
  <2> QED BY <2>2, <2>3 DEF SMInv
<1>3. ASSUME NEW p \in SM!Position, NEW v \in Values, NEW isAddTo \in BOOLEAN,
             SM!SetValue(p, v, isAddTo)
      PROVE  SMInv'
  <2>1. m' = m /\ n' = n /\ mx' = SM!Put(mx, p, v, isAddTo)
    BY <1>3 DEF SM!SetValue
  <2>2. Linked(SM!Put(mx, p, v, isAddTo), m, n)
    BY PutIs DEF SMInv, SM!Position, Places
  <2> QED BY <2>1, <2>2 DEF SMInv
<1>4. ASSUME NEW other \in Others, NEW w \in Values, SM!Add(other, w) PROVE SMInv'
  <2>1. m' = m /\ n' = n
    BY <1>4 DEF SM!Add
  <2>2. Linked(mx', m, n)
    BY <1>4, AddIs
  <2> QED BY <2>1, <2>2 DEF SMInv
<1>5. CASE SM!MakeZero
  <2>1. m' = m /\ n' = n
    BY <1>5 DEF SM!MakeZero
  <2>2. Linked(mx', m, n)
    BY <1>5, MakeZeroIs
  <2> QED BY <2>1, <2>2 DEF SMInv
<1>6. CASE UNCHANGED SM!vars
  <2>1. m' = m /\ n' = n /\ mx' = mx
    BY <1>6 DEF SM!vars
  <2> QED BY <2>1 DEF SMInv
<1> QED BY <1>1, <1>2, <1>3, <1>4, <1>5, <1>6 DEF SM!Next

LEMMA SMInvIsType == SMInv => SM!TypeOK
<1> SUFFICES ASSUME SMInv PROVE SM!TypeOK
  OBVIOUS
<1>1. mx.unzeroNum \in Nat
  BY FS_CardinalityType DEF SMInv, Linked
<1> QED BY <1>1 DEF SMInv, Linked, SM!TypeOK, SM!Position, Places

LEMMA SMInvIsLinked == SMInv => SM!WellLinked
<1> SUFFICES ASSUME SMInv PROVE SM!WellLinked
  OBVIOUS
<1>1. m \in Nat /\ n \in Nat /\ Linked(mx, m, n)
  BY DEF SMInv
<1>2. ASSUME NEW i \in 0 .. m - 1
      PROVE  /\ {SM!Row(i)[k] : k \in DOMAIN SM!Row(i)} = {a \in DOMAIN mx.value : a[1] = i}
             /\ \A k \in 1 .. Len(SM!Row(i)) - 1 : SM!Row(i)[k][2] < SM!Row(i)[k + 1][2]
  <2> DEFINE row == SM!Row(i)
  <2>1. /\ row \in Seq(DOMAIN mx.value)
        /\ {row[k] : k \in 1 .. Len(row)} = {a \in DOMAIN mx.value : a[1] = i}
        /\ \A k, l \in 1 .. Len(row) : k < l => row[k][2] < row[l][2]
    BY <1>1, RowIs
  <2> HIDE DEF row
  <2>2. DOMAIN row = 1 .. Len(row) /\ Len(row) \in Nat
    BY <2>1, LenProperties
  <2>3. \A k \in 1 .. Len(row) - 1 : k \in 1 .. Len(row) /\ k + 1 \in 1 .. Len(row) /\ k < k + 1
    BY <2>2
  <2> QED BY <2>1, <2>2, <2>3 DEF row
<1>3. ASSUME NEW j \in 0 .. n - 1
      PROVE  /\ {SM!Column(j)[k] : k \in DOMAIN SM!Column(j)} = {a \in DOMAIN mx.value : a[2] = j}
             /\ \A k \in 1 .. Len(SM!Column(j)) - 1 : SM!Column(j)[k][1] < SM!Column(j)[k + 1][1]
  <2> DEFINE column == SM!Column(j)
  <2>1. /\ column \in Seq(DOMAIN mx.value)
        /\ {column[k] : k \in 1 .. Len(column)} = {a \in DOMAIN mx.value : a[2] = j}
        /\ \A k, l \in 1 .. Len(column) : k < l => column[k][1] < column[l][1]
    BY <1>1, ColumnIs
  <2> HIDE DEF column
  <2>2. DOMAIN column = 1 .. Len(column) /\ Len(column) \in Nat
    BY <2>1, LenProperties
  <2>3. \A k \in 1 .. Len(column) - 1 :
          k \in 1 .. Len(column) /\ k + 1 \in 1 .. Len(column) /\ k < k + 1
    BY <2>2
  <2> QED BY <2>1, <2>2, <2>3 DEF column
<1>4. mx.unzeroNum = Cardinality(DOMAIN mx.value)
  BY <1>1 DEF Linked
<1>5. \A i \in 0 .. m - 1 :
        /\ {SM!Row(i)[k] : k \in DOMAIN SM!Row(i)} = {a \in DOMAIN mx.value : a[1] = i}
        /\ \A k \in 1 .. Len(SM!Row(i)) - 1 : SM!Row(i)[k][2] < SM!Row(i)[k + 1][2]
  BY <1>2
<1>6. \A j \in 0 .. n - 1 :
        /\ {SM!Column(j)[k] : k \in DOMAIN SM!Column(j)} = {a \in DOMAIN mx.value : a[2] = j}
        /\ \A k \in 1 .. Len(SM!Column(j)) - 1 : SM!Column(j)[k][1] < SM!Column(j)[k + 1][1]
  BY <1>3
<1>7. SM!Cardinality(DOMAIN mx.value) = Cardinality(DOMAIN mx.value)
  BY DEF SM!Cardinality, Cardinality
<1> QED BY <1>4, <1>5, <1>6, <1>7 DEF SM!WellLinked

(* In a matrix of any size every node is on the list of its row and on     *)
(* that of its column, once, both lists are sorted, and unzeroNum is the   *)
(* number of the nodes, whatever setValue, add, setToZero, initial and     *)
(* freeSpace did before.                                                   *)
THEOREM SparseWellLinked == ASSUME SM!Parameters PROVE SM!Spec => [](SM!TypeOK /\ SM!WellLinked)
<1>1. SMInv /\ [SM!Next]_(SM!vars) => SMInv'
  BY SMNextInv
<1> QED BY <1>1, SMInitInv, SMInvIsType, SMInvIsLinked, PTL DEF SM!Spec

-----------------------------------------------------------------------------
LEMMA SMInitMaps == SM!Init => SM!Abstract!Init
<1> SUFFICES ASSUME SM!Init PROVE SM!Abstract!Init
  OBVIOUS
<1>1. mx.value = [p \in {} |-> 0]
  BY DEF SM!Init, SM!NoMatrix
<1> QED BY <1>1 DEF SM!Init, SM!Abstract!Init, SM!Abstract!Empty

\* A matrix without nodes holds no value.
LEMMA EmptyIsEmpty ==
  ASSUME NEW r, NEW c, NEW z, IsEmpty(z, r, c)
  PROVE  z.value = [p \in {} |-> 0]
<1>1. z.value = [a \in DOMAIN z.value |-> z.value[a]] /\ DOMAIN z.value = {}
  BY DEF IsEmpty, IsMatrix
<1> QED BY <1>1

LEMMA SMStepMaps ==
  ASSUME SM!Parameters, SMInv, [SM!Next]_(SM!vars)
  PROVE  [SM!Abstract!Next]_(SM!Abstract!vars)
<1>1. ASSUME NEW s \in Sizes \cup {<<0, 0>>}, m' = s[1], n' = s[2], mx'.value = [p \in {} |-> 0]
      PROVE  SM!Abstract!Next
  <2>1. SM!Abstract!Resize(s)
    BY <1>1 DEF SM!Abstract!Resize, SM!Abstract!Empty
  <2> QED BY <2>1 DEF SM!Abstract!Next
<1>2. CASE SM!FreeSpace
  <2> DEFINE s == <<0, 0>>
  <2>1. m' = s[1] /\ n' = s[2] /\ s \in Sizes \cup {<<0, 0>>}
    BY <1>2 DEF SM!FreeSpace
  <2>2. mx'.value = [p \in {} |-> 0]
    BY <1>2, FreeSpaceLeaves, EmptyIsEmpty
  <2> HIDE DEF s
  <2> QED BY <1>1, <2>1, <2>2
<1>3. ASSUME NEW s \in Sizes, SM!Initial(s) PROVE SM!Abstract!Next
  <2>1. s \in Nat \X Nat /\ m' = s[1] /\ n' = s[2]
    BY <1>3 DEF SM!Parameters, SM!Initial
  <2>2. mx'.value = [p \in {} |-> 0]
    BY <1>3, <2>1, InitialMakes, EmptyIsEmpty
  <2> QED BY <1>1, <2>1, <2>2
<1>4. ASSUME NEW p \in SM!Position, NEW v \in Values, NEW isAddTo \in BOOLEAN,
             SM!SetValue(p, v, isAddTo)
      PROVE  SM!Abstract!Next
  <2>1. m' = m /\ n' = n /\ mx' = SM!Put(mx, p, v, isAddTo)
    BY <1>4 DEF SM!SetValue
  <2>2. SM!Put(mx, p, v, isAddTo).value = Set(mx.value, p, v, isAddTo)
    BY PutIs DEF SMInv, SM!Position, Places
  <2>3. p \in SM!Abstract!Position
    BY DEF SM!Position, SM!Abstract!Position
  <2>4. CASE isAddTo
    <3>1. SM!Abstract!AddValue(p, v)
      BY <2>1, <2>2, <2>4 DEF SM!Abstract!AddValue, SM!Abstract!Put, SM!Abstract!Filled, Set
    <3> QED BY <2>3, <3>1 DEF SM!Abstract!Next
  <2>5. CASE ~isAddTo
    <3>1. SM!Abstract!SetValue(p, v)
      BY <2>1, <2>2, <2>5 DEF SM!Abstract!SetValue, SM!Abstract!Put, SM!Abstract!Filled, Set
    <3> QED BY <2>3, <3>1 DEF SM!Abstract!Next
  <2> QED BY <2>4, <2>5
<1>5. ASSUME NEW other \in Others, NEW w \in Values, SM!Add(other, w) PROVE SM!Abstract!Next
  <2>1. m' = m /\ n' = n
    BY <1>5 DEF SM!Add
  <2>2. SM!Abstract!Overlay(other, w)
    BY <1>5, <2>1, AddIs
       DEF SM!Abstract!Overlay, SM!Abstract!Filled, SM!Abstract!Position, Places
  <2> QED BY <2>2 DEF SM!Abstract!Next
<1>6. CASE SM!MakeZero
  <2>1. m' = m /\ n' = n
    BY <1>6 DEF SM!MakeZero
  <2>2. SM!Abstract!MakeZero
    BY <1>6, <2>1, MakeZeroIs DEF SM!Abstract!MakeZero, SM!Abstract!Filled
  <2> QED BY <2>2 DEF SM!Abstract!Next
<1>7. CASE UNCHANGED SM!vars
  BY <1>7 DEF SM!vars, SM!Abstract!vars
<1> QED BY <1>2, <1>3, <1>4, <1>5, <1>6, <1>7 DEF SM!Next

(* Every history of the linked matrix is one of the abstract matrix: a     *)
(* call changes the values of the positions it names and of no other, and  *)
(* no content of an earlier size comes back.                               *)
THEOREM SparseRefinesMatrix == ASSUME SM!Parameters PROVE SM!Spec => SM!Abstract!Spec
<1>1. SMInv /\ [SM!Next]_(SM!vars) => SMInv'
  BY SMNextInv
<1>2. SMInv /\ [SM!Next]_(SM!vars) => [SM!Abstract!Next]_(SM!Abstract!vars)
  BY SMStepMaps
<1> QED BY <1>1, <1>2, SMInitInv, SMInitMaps, PTL DEF SM!Spec, SM!Abstract!Spec

-----------------------------------------------------------------------------
(* The invariant of the two classes of matrix. *)
MatrixInv ==
  /\ kind = "sparse" => SMInv
  /\ kind = "map" => Map!IInv

LEMMA MatrixInitInv == PowerInit => MatrixInv
<1> SUFFICES ASSUME PowerInit PROVE MatrixInv
  OBVIOUS
<1>1. CASE kind = "sparse"
  <2>1. SM!Init
    BY <1>1 DEF PowerInit
  <2> QED BY <1>1, <2>1, SMInitInv DEF MatrixInv
<1>2. CASE kind = "map"
  <2>1. Map!Init
    BY <1>2 DEF PowerInit
  <2> QED BY <1>2, <2>1, Map!InitInv DEF MatrixInv
<1> QED BY <1>1, <1>2 DEF MatrixInv

\* A step of a behaviour of a matrix is one of that matrix.
LEMMA MatrixStep ==
  ASSUME [PowerNext]_allVars
  PROVE  /\ kind' = kind
         /\ kind = "sparse" => [SM!Next]_(SM!vars)
         /\ kind = "map" => [Map!Next]_(Map!vars)
<1>1. CASE PowerNext
  BY <1>1 DEF PowerNext
<1>2. CASE UNCHANGED allVars
  BY <1>2 DEF allVars, matrixVars, SM!vars, Map!vars
<1> QED BY <1>1, <1>2

LEMMA MatrixNextInv == MatrixInv /\ [PowerNext]_allVars => MatrixInv'
<1> SUFFICES ASSUME MatrixInv, [PowerNext]_allVars PROVE MatrixInv'
  OBVIOUS
<1>1. kind' = kind
  BY MatrixStep
<1>2. kind = "sparse" => SMInv'
  <2>1. SM!Parameters
    BY PowerAssumption
  <2> QED BY <2>1, MatrixStep, SMNextInv DEF MatrixInv
<1>3. kind = "map" => Map!IInv'
  <2>1. Map!Parameters
    BY PowerAssumption
  <2> QED BY <2>1, MatrixStep, Map!NextInv DEF MatrixInv
<1> QED BY <1>1, <1>2, <1>3 DEF MatrixInv

LEMMA MatrixStepMaps ==
  ASSUME MatrixInv, [PowerNext]_allVars
  PROVE  CASE kind = "sparse" -> [SM!Abstract!Next]_(SM!Abstract!vars)
           [] kind = "map" -> [Map!Abstract!Next]_(Map!Abstract!vars)
           [] OTHER -> TRUE
<1>1. CASE kind = "sparse"
  <2>1. SM!Parameters /\ SMInv /\ [SM!Next]_(SM!vars)
    BY <1>1, PowerAssumption, MatrixStep DEF MatrixInv
  <2>2. [SM!Abstract!Next]_(SM!Abstract!vars)
    BY <2>1, SMStepMaps
  <2> QED BY <1>1, <2>2
<1>2. CASE kind = "map"
  <2>1. Map!Parameters /\ Map!IInv /\ [Map!Next]_(Map!vars)
    BY <1>2, PowerAssumption, MatrixStep DEF MatrixInv
  <2>2. [Map!Abstract!Next]_(Map!Abstract!vars)
    BY <2>1, Map!StepMaps
  <2> QED BY <1>2, <2>2
<1>3. CASE kind # "sparse" /\ kind # "map"
  BY <1>3
<1> QED BY <1>1, <1>2, <1>3

LEMMA MatrixInitMaps ==
  PowerInit => (kind = "sparse" => SM!Abstract!Init) /\ (kind = "map" => Map!Abstract!Init)
<1>1. PowerInit /\ kind = "sparse" => SM!Init
  BY DEF PowerInit
<1>2. PowerInit /\ kind = "map" => Map!Init
  BY DEF PowerInit
<1> QED BY <1>1, <1>2, SMInitMaps, Map!InitMaps

(* Both classes of sparse matrix, of any size and with any values, answer  *)
(* the calls of AbstractMatrix as one matrix of values would.              *)
THEOREM MatricesAreMatrices == PowerSpec => PowerMatrixImplemented
<1> DEFINE A == CASE kind = "sparse" -> [SM!Abstract!Next]_(SM!Abstract!vars)
                  [] kind = "map" -> [Map!Abstract!Next]_(Map!Abstract!vars)
                  [] OTHER -> TRUE
           I == (kind = "sparse" => SM!Abstract!Init) /\ (kind = "map" => Map!Abstract!Init)
<1>1. MatrixInv /\ [PowerNext]_allVars => MatrixInv'
  BY MatrixNextInv
<1>2. MatrixInv /\ [PowerNext]_allVars => A
  BY MatrixStepMaps
<1>3. PowerInit => I
  BY MatrixInitMaps
<1>4. PowerSpec => I /\ [][A]_allVars
  <2> HIDE DEF A, I
  <2> QED BY <1>1, <1>2, <1>3, MatrixInitInv, PTL DEF PowerSpec
<1> QED BY <1>4 DEF PowerMatrixImplemented
-----------------------------------------------------------------------------
(* The numbering of the buses. *)

(* A loop of top turns, each of which leads from T to T. *)
IsLoop(f, top, T, base, step) ==
  /\ f \in [0 .. top -> T]
  /\ f[0] = base
  /\ \A k \in 1 .. top : f[k] = step[<<f[k - 1], k>>]

LEMMA LoopExists ==
  ASSUME NEW top \in Nat, NEW T, NEW base \in T, NEW step \in [T \X (1 .. top) -> T]
  PROVE  \E f : IsLoop(f, top, T, base, step)
<1> DEFINE Till(k, f) == /\ f \in [0 .. k -> T]
                         /\ f[0] = base
                         /\ \A l \in 1 .. k : f[l] = step[<<f[l - 1], l>>]
           Reached == {k \in 0 .. top : \E f : Till(k, f)}
<1>1. 0 \in Reached
  <2>1. Till(0, [l \in 0 .. 0 |-> base])
    OBVIOUS
  <2> HIDE DEF Till
  <2> QED BY <2>1
<1>2. ASSUME NEW k \in 1 .. top, k - 1 \in Reached PROVE k \in Reached
  <2>1. PICK f : Till(k - 1, f)
    BY <1>2
  <2> DEFINE v == step[<<f[k - 1], k>>]
             g == [l \in 0 .. k |-> IF l = k THEN v ELSE f[l]]
  <2>2. v \in T
    <3>1. f[k - 1] \in T
      BY <2>1
    <3> QED BY <3>1
  <2> HIDE DEF v
  <2>3. \A l \in 0 .. k - 1 : l \in 0 .. k /\ l # k /\ f[l] \in T
    BY <2>1
  <2>4. \A l \in 0 .. k - 1 : g[l] = f[l]
    BY <2>3
  <2>5. g \in [0 .. k -> T]
    BY <2>2, <2>3
  <2>6. g[k] = v
    OBVIOUS
  <2> HIDE DEF g
  <2>7. ASSUME NEW l \in 1 .. k PROVE g[l] = step[<<g[l - 1], l>>]
    <3>1. g[l - 1] = f[l - 1]
      BY <2>4
    <3>2. CASE l = k
      BY <2>6, <3>1, <3>2 DEF v
    <3>3. CASE l # k
      <4>1. l \in 1 .. k - 1 /\ l \in 0 .. k - 1
        BY <3>3
      <4> QED BY <2>1, <2>4, <3>1, <4>1
    <3> QED BY <3>2, <3>3
  <2>8. g[0] = base
    BY <2>1, <2>4
  <2>9. Till(k, g)
    BY <2>5, <2>7, <2>8
  <2> HIDE DEF Till
  <2> QED BY <2>9
<1>3. top \in Reached
  <2> HIDE DEF Reached
  <2> QED BY <1>1, <1>2, UpTo
<1> QED BY <1>3 DEF IsLoop

(* An order of the members of a finite set. *)
IsOrder(s, S) ==
  /\ s \in [1 .. Cardinality(S) -> S]
  /\ \A i, j \in 1 .. Cardinality(S) : s[i] = s[j] => i = j

\* How many members a set of numbers has up to one of them.
LEMMA Ranks ==
  ASSUME NEW S, S \subseteq Nat, IsFiniteSet(S)
  PROVE  LET rank == [a \in S |-> Cardinality({b \in S : b <= a})]
         IN  /\ rank \in [S -> 1 .. Cardinality(S)]
             /\ \A a, b \in S : a < b => rank[a] < rank[b]
             /\ \A i \in 1 .. Cardinality(S) : \E a \in S : rank[a] = i
<1> DEFINE To(a) == {b \in S : b <= a}
           rank == [a \in S |-> Cardinality(To(a))]
           count == Cardinality(S)
<1>1. count \in Nat
  BY FS_CardinalityType
<1>2. ASSUME NEW a \in S PROVE rank[a] \in 1 .. count /\ IsFiniteSet(To(a))
  <2>1. To(a) \in SUBSET S /\ a \in To(a)
    OBVIOUS
  <2> HIDE DEF To
  <2>2. IsFiniteSet(To(a)) /\ Cardinality(To(a)) <= count
    BY <2>1, FS_Subset
  <2>3. Cardinality(To(a)) \in Nat
    BY <2>2, FS_CardinalityType
  <2>4. Cardinality(To(a)) # 0
    BY <2>1, <2>2, FS_EmptySet
  <2> QED BY <1>1, <2>2, <2>3, <2>4
<1>3. ASSUME NEW a \in S, NEW b \in S, a < b PROVE rank[a] < rank[b]
  <2>1. To(a) \in SUBSET To(b)
    <3>1. \A c \in S : c <= a => c <= b
      BY <1>3
    <3> QED BY <3>1
  <2>2. b \in To(b) /\ b \notin To(a)
    BY <1>3
  <2> HIDE DEF To
  <2>3. IsFiniteSet(To(b)) /\ IsFiniteSet(To(a))
    BY <1>2
  <2>4. Cardinality(To(a)) <= Cardinality(To(b)) /\ Cardinality(To(a)) # Cardinality(To(b))
    BY <2>1, <2>2, <2>3, FS_Subset
  <2>5. Cardinality(To(a)) \in Nat /\ Cardinality(To(b)) \in Nat
    BY <2>3, FS_CardinalityType
  <2> QED BY <2>4, <2>5
<1> HIDE DEF To
<1>4. rank \in [S -> 1 .. count]
  BY <1>2
<1>5. \A i \in 1 .. count : \E a \in S : rank[a] = i
  <2> HIDE DEF rank, count
  <2>1. \A a, b \in S : rank[a] = rank[b] => a = b
    <3>1. SUFFICES ASSUME NEW a \in S, NEW b \in S, rank[a] = rank[b], a # b PROVE FALSE
      OBVIOUS
    <3>2. a < b \/ b < a
      BY <3>1
    <3>3. rank[a] \in Int /\ rank[b] \in Int
      BY <1>4
    <3> QED BY <1>3, <3>1, <3>2, <3>3
  <2>2. rank \in Injection(S, 1 .. count)
    BY <1>4, <2>1 DEF Injection, IsInjective
  <2>3. IsFiniteSet(1 .. count) /\ Cardinality(1 .. count) = count
    BY <1>1, FS_Interval
  <2>4. rank \in Surjection(S, 1 .. count)
    BY <2>2, <2>3, FS_Injection DEF count
  <2> QED BY <2>4 DEF Surjection
<1> QED BY <1>3, <1>4, <1>5 DEF To

LEMMA AscendingIs ==
  ASSUME NEW S, S \subseteq Nat, IsFiniteSet(S)
  PROVE  IsOrder(Bus!Ascending(S), S)
<1> DEFINE rank == [a \in S |-> Cardinality({b \in S : b <= a})]
           At(i) == CHOOSE a \in S : rank[a] = i
           s == Bus!Ascending(S)
           Chosen(i) == CHOOSE a \in S : Cardinality({b \in S : b <= a}) = i
<1>1. \A i \in 1 .. Cardinality(S) : \E a \in S : rank[a] = i
  BY Ranks
<1>2. \A i : At(i) = Chosen(i)
  OBVIOUS
<1>3. s = [i \in 1 .. Cardinality(S) |-> Chosen(i)]
  BY DEF Bus!Ascending, Bus!Cardinality, Cardinality
<1> HIDE DEF rank, s, Chosen
<1>4. \A i \in 1 .. Cardinality(S) : At(i) \in S /\ rank[At(i)] = i
  BY <1>1
<1> HIDE DEF At
<1>5. \A i \in 1 .. Cardinality(S) : s[i] = At(i)
  BY <1>2, <1>3
<1>6. s \in [1 .. Cardinality(S) -> S]
  <2>1. s = [i \in 1 .. Cardinality(S) |-> s[i]]
    BY <1>3
  <2> QED BY <1>4, <1>5, <2>1
<1>7. \A i, j \in 1 .. Cardinality(S) : s[i] = s[j] => i = j
  BY <1>4, <1>5
<1> QED BY <1>6, <1>7 DEF IsOrder, s

(* The numbers and, of each, its neighbours. *)
IsNear(near, S) == near \in [S -> Seq(Nat)]

(* The first i places are taken by the least, in their order. *)
SortedTo(near, s, i) ==
  \A a \in 1 .. i, b \in 1 .. Len(s) :
    a <= b => Bus!Degree(near, s[a]) <= Bus!Degree(near, s[b])

\* A turn of quickSort puts one more number in its place.
LEMMA SelectIs ==
  ASSUME NEW S, IsFiniteSet(S), NEW near, IsNear(near, S), NEW s, IsOrder(s, S),
         NEW i \in 1 .. Cardinality(S), SortedTo(near, s, i - 1)
  PROVE  /\ IsOrder(Bus!Select(near, s, i), S)
         /\ SortedTo(near, Bus!Select(near, s, i), i)
<1> DEFINE count == Cardinality(S)
           D(b) == Bus!Degree(near, b)
           Least(j) == \A k \in i .. Len(s) : D(s[j]) < D(s[k]) \/ (D(s[j]) = D(s[k]) /\ j <= k)
           least == CHOOSE j \in i .. Len(s) : Least(j)
           t == Bus!Select(near, s, i)
<1>1. count \in Nat
  BY FS_CardinalityType
<1>2. Len(s) = count /\ s \in [1 .. count -> S]
  <2>1. s \in [1 .. count -> S]
    BY DEF IsOrder
  <2>2. s \in Seq(S)
    BY <1>1, <2>1, SeqDef
  <2> QED BY <1>1, <2>1, <2>2, LenProperties
<1>3. \A b \in S : D(b) \in Nat
  BY LenProperties DEF IsNear, Bus!Degree
<1>4. t = [s EXCEPT ![i] = s[least], ![least] = s[i]]
  BY DEF Bus!Select
<1> HIDE DEF D, t, count
<1>5. i \in 1 .. count
  BY DEF count
<1>6. \A k \in i .. count : k \in 1 .. count /\ s[k] \in S /\ D(s[k]) \in Nat
  BY <1>1, <1>2, <1>3, <1>5
<1>7. \E j \in i .. count : Least(j)
  <2> DEFINE DS == {D(s[k]) : k \in i .. count}
  <2>1. DS \subseteq Nat /\ DS # {}
    BY <1>1, <1>5, <1>6
  <2>2. PICK d \in DS : \A e \in DS : d <= e
    <3> HIDE DEF DS
    <3> QED BY <2>1, LeastOf
  <2> DEFINE JS == {k \in i .. count : D(s[k]) = d}
  <2>3. JS \subseteq Nat /\ JS # {}
    BY <1>1, <1>5, <2>2
  <2>4. PICK j \in JS : \A k \in JS : j <= k
    <3> HIDE DEF JS
    <3> QED BY <2>3, LeastOf
  <2>5. j \in i .. count /\ D(s[j]) = d
    BY <2>4
  <2>6. ASSUME NEW k \in i .. count
        PROVE  D(s[j]) < D(s[k]) \/ (D(s[j]) = D(s[k]) /\ j <= k)
    <3>1. d <= D(s[k]) /\ D(s[k]) \in Nat /\ d \in Nat
      BY <1>6, <2>1, <2>2
    <3>2. D(s[k]) = d => j <= k
      BY <2>4
    <3> QED BY <2>5, <3>1, <3>2
  <2> QED BY <1>2, <2>5, <2>6
<1>8. least \in i .. count /\ Least(least)
  BY <1>2, <1>7
<1> HIDE DEF least
<1>9. \A k \in i .. count : D(s[least]) <= D(s[k])
  BY <1>2, <1>6, <1>8
<1> HIDE DEF Least
<1>10. least \in 1 .. count
  BY <1>6, <1>8
<1> DEFINE P(k) == IF k = i THEN least ELSE IF k = least THEN i ELSE k
<1>11. \A k \in 1 .. count : P(k) \in 1 .. count
  BY <1>5, <1>10
<1>12. t \in [1 .. count -> S] /\ \A k \in 1 .. count : t[k] = s[P(k)]
  <2>1. t \in [1 .. count -> S]
    BY <1>2, <1>4, <1>5, <1>10
  <2>2. \A k \in 1 .. count : t[k] = s[P(k)]
    BY <1>2, <1>4, <1>5, <1>10
  <2> QED BY <2>1, <2>2
<1>13. \A k, l \in 1 .. count : t[k] = t[l] => k = l
  <2>1. \A k, l \in 1 .. count : s[k] = s[l] => k = l
    BY DEF IsOrder, count
  <2>2. \A k, l \in 1 .. count : P(k) = P(l) => k = l
    OBVIOUS
  <2> HIDE DEF P
  <2> QED BY <1>11, <1>12, <2>1, <2>2
<1>14. IsOrder(t, S)
  BY <1>12, <1>13 DEF IsOrder, count
<1>15. Len(t) = count
  <2>1. t \in Seq(S)
    BY <1>1, <1>12, SeqDef
  <2> QED BY <1>1, <1>12, <2>1, LenProperties
<1>16. ASSUME NEW a \in 1 .. i, NEW b \in 1 .. count, a <= b
       PROVE  D(t[a]) <= D(t[b])
  <2>1. \A k \in 1 .. i - 1, l \in 1 .. count : k <= l => D(s[k]) <= D(s[l])
    BY <1>2 DEF SortedTo, D
  <2>2. a \in 1 .. count
    BY <1>1, <1>5
  <2>3. t[a] = s[P(a)] /\ t[b] = s[P(b)] /\ P(b) \in 1 .. count
    BY <1>11, <1>12, <2>2
  <2>4. CASE a = i
    <3>1. P(b) \in i .. count
      BY <1>5, <1>8, <1>16, <2>4
    <3>2. P(a) = least
      BY <2>4
    <3> QED BY <1>9, <2>3, <3>1, <3>2
  <2>5. CASE a # i
    <3>1. a \in 1 .. i - 1
      BY <1>5, <2>5
    <3>2. P(a) = a
      BY <1>5, <1>8, <3>1
    <3>3. a <= P(b)
      BY <1>5, <1>8, <1>16, <3>1
    <3> HIDE DEF P
    <3> QED BY <2>1, <2>3, <3>1, <3>2, <3>3
  <2> QED BY <2>4, <2>5
<1>17. SortedTo(near, t, i)
  BY <1>15, <1>16 DEF SortedTo, D
<1> QED BY <1>14, <1>17 DEF t

\* quickSort orders the numbers by degree.
LEMMA SortedIs ==
  ASSUME NEW S, S \subseteq Nat, IsFiniteSet(S), S # {}, NEW near, IsNear(near, S)
  PROVE  /\ IsOrder(Bus!Sorted(near), S)
         /\ \A a, b \in 1 .. Cardinality(S) :
              a <= b => Bus!Degree(near, Bus!Sorted(near)[a]) <= Bus!Degree(near, Bus!Sorted(near)[b])
<1> DEFINE count == Cardinality(S)
           top == count - 1
           T == {s \in [1 .. count -> S] : IsOrder(s, S)}
           asc == Bus!Ascending(S)
           Rule(f) == f = [i \in 0 .. Cardinality(DOMAIN near) - 1 |->
                             IF i = 0 THEN Bus!Ascending(DOMAIN near)
                             ELSE Bus!Select(near, f[i - 1], i)]
           after == CHOOSE f : Rule(f)
<1>1. count \in Nat /\ top \in Nat
  <2>1. count \in Nat /\ count # 0
    BY FS_CardinalityType, FS_EmptySet
  <2> QED BY <2>1
<1>2. DOMAIN near = S
  BY DEF IsNear
<1>3. Bus!Sorted(near) = after[top]
  <2>1. Bus!Sorted(near) = after[Cardinality(DOMAIN near) - 1]
    BY DEF Bus!Sorted, Bus!Cardinality, Cardinality
  <2> HIDE DEF after
  <2> QED BY <1>2, <2>1
<1>4. asc \in T
  BY AscendingIs DEF IsOrder
<1> HIDE DEF asc, count, top
<1>5. \A s \in T : IsOrder(s, S)
  OBVIOUS
<1>6. ASSUME NEW s \in T, NEW i \in 1 .. top, SortedTo(near, s, i - 1)
      PROVE  Bus!Select(near, s, i) \in T /\ SortedTo(near, Bus!Select(near, s, i), i)
  <2>1. i \in 1 .. Cardinality(S)
    BY <1>1 DEF top, count
  <2>2. IsOrder(Bus!Select(near, s, i), S) /\ SortedTo(near, Bus!Select(near, s, i), i)
    BY <1>5, <1>6, <2>1, SelectIs
  <2>3. Bus!Select(near, s, i) \in [1 .. count -> S]
    BY <2>2 DEF IsOrder, count
  <2> QED BY <2>2, <2>3
<1>7. \E f : Rule(f)
  <2> DEFINE step == [z \in T \X (1 .. top) |->
                        IF SortedTo(near, z[1], z[2] - 1) THEN Bus!Select(near, z[1], z[2]) ELSE z[1]]
  <2>1. step \in [T \X (1 .. top) -> T]
    <3> HIDE DEF T
    <3>1. ASSUME NEW z \in T \X (1 .. top)
          PROVE  (IF SortedTo(near, z[1], z[2] - 1) THEN Bus!Select(near, z[1], z[2]) ELSE z[1]) \in T
      <4>1. z[1] \in T /\ z[2] \in 1 .. top
        OBVIOUS
      <4> QED BY <1>6, <4>1
    <3> QED BY <3>1
  <2>2. \A s \in T, i \in 1 .. top :
          step[<<s, i>>] = IF SortedTo(near, s, i - 1) THEN Bus!Select(near, s, i) ELSE s
    OBVIOUS
  <2> HIDE DEF step, T
  <2>3. PICK f : /\ f \in [0 .. top -> T]
                 /\ f[0] = asc
                 /\ \A k \in 1 .. top : f[k] = step[<<f[k - 1], k>>]
    <3>1. \E f : IsLoop(f, top, T, asc, step)
      BY <1>1, <1>4, <2>1, LoopExists
    <3> QED BY <3>1 DEF IsLoop
  <2> DEFINE Good == {k \in 0 .. top : SortedTo(near, f[k], k)}
  <2>4. 0 \in Good
    <3>1. SortedTo(near, f[0], 0)
      BY DEF SortedTo
    <3> QED BY <1>1, <3>1
  <2>5. ASSUME NEW k \in 1 .. top, k - 1 \in Good
        PROVE  k \in Good /\ f[k] = Bus!Select(near, f[k - 1], k)
    <3>1. k - 1 \in 0 .. top /\ k \in 0 .. top /\ SortedTo(near, f[k - 1], k - 1)
      BY <1>1, <2>5
    <3>2. f[k - 1] \in T
      BY <2>3, <3>1
    <3>3. f[k] = Bus!Select(near, f[k - 1], k)
      BY <2>2, <2>3, <3>1, <3>2
    <3>4. SortedTo(near, Bus!Select(near, f[k - 1], k), k)
      BY <1>6, <3>1, <3>2
    <3> QED BY <3>1, <3>3, <3>4
  <2>6. 0 .. top \subseteq Good
    <3> HIDE DEF Good
    <3> QED BY <1>1, <2>4, <2>5, UpTo
  <2>7. \A k \in 0 .. top : f[k] = IF k = 0 THEN asc ELSE Bus!Select(near, f[k - 1], k)
    <3>1. \A k \in 1 .. top : k - 1 \in 0 .. top
      BY <1>1
    <3> HIDE DEF Good
    <3>2. \A k \in 1 .. top : k - 1 \in Good
      BY <2>6, <3>1
    <3>3. \A k \in 1 .. top : f[k] = Bus!Select(near, f[k - 1], k)
      BY <2>5, <3>2
    <3>4. \A k \in 0 .. top : k = 0 \/ k \in 1 .. top
      BY <1>1
    <3> QED BY <2>3, <3>3, <3>4
  <2>8. f = [k \in 0 .. top |-> IF k = 0 THEN asc ELSE Bus!Select(near, f[k - 1], k)]
    BY <2>3, <2>7
  <2> QED BY <1>2, <2>8 DEF asc, top, count
<1>8. Rule(after)
  BY <1>7
<1> HIDE DEF after
<1>9. after[0] = asc /\ \A k \in 1 .. top : after[k] = Bus!Select(near, after[k - 1], k)
  <2>1. after = [i \in 0 .. top |-> IF i = 0 THEN asc ELSE Bus!Select(near, after[i - 1], i)]
    BY <1>2, <1>8 DEF top, count, asc
  <2>2. 0 \in 0 .. top /\ \A k \in 1 .. top : k \in 0 .. top /\ k # 0
    BY <1>1
  <2> QED BY <2>1, <2>2
<1> DEFINE Good == {k \in 0 .. top : after[k] \in T /\ SortedTo(near, after[k], k)}
<1> HIDE DEF T
<1>10. 0 \in Good
  <2>1. SortedTo(near, after[0], 0)
    BY DEF SortedTo
  <2> QED BY <1>1, <1>4, <1>9, <2>1
<1>11. ASSUME NEW k \in 1 .. top, k - 1 \in Good PROVE k \in Good
  <2>1. after[k - 1] \in T /\ SortedTo(near, after[k - 1], k - 1) /\ k \in 0 .. top
    BY <1>1, <1>11
  <2>2. after[k] = Bus!Select(near, after[k - 1], k)
    BY <1>9
  <2> QED BY <1>6, <2>1, <2>2
<1>12. top \in Good
  <2> HIDE DEF Good
  <2> QED BY <1>1, <1>10, <1>11, UpTo
<1> DEFINE s == after[top]
<1>13. IsOrder(s, S) /\ SortedTo(near, s, top)
  BY <1>5, <1>12
<1> HIDE DEF s
<1>14. Len(s) = count
  <2>1. s \in [1 .. count -> S]
    BY <1>13 DEF IsOrder, count
  <2>2. s \in Seq(S)
    BY <1>1, <2>1, SeqDef
  <2> QED BY <1>1, <2>1, <2>2, LenProperties
<1>15. ASSUME NEW a \in 1 .. count, NEW b \in 1 .. count, a <= b
       PROVE  Bus!Degree(near, s[a]) <= Bus!Degree(near, s[b])
  <2>1. CASE a \in 1 .. top
    BY <1>13, <1>14, <1>15, <2>1 DEF SortedTo
  <2>2. CASE a = count
    <3>1. b = a
      BY <1>1, <1>15, <2>2
    <3>2. s[a] \in S
      BY <1>13 DEF IsOrder, count
    <3>3. Bus!Degree(near, s[a]) \in Nat
      BY <3>2, LenProperties DEF IsNear, Bus!Degree
    <3> QED BY <3>1, <3>3
  <2>3. a \in 1 .. top \/ a = count
    BY <1>1 DEF top
  <2> QED BY <2>1, <2>2, <2>3
<1> QED BY <1>3, <1>13, <1>15 DEF s, count

-----------------------------------------------------------------------------
(* The numbers the buses of an island were read with. *)
NumbersOf(is) == {is.number[b] : b \in DOMAIN is.number}

(* The branches end at the buses at which they ended, by their numbers. *)
EndsAt(is, number) ==
  [k \in DOMAIN is.ends |-> <<number[is.ends[k][1]], number[is.ends[k][2]]>>]

\* What is assumed of an island.
LEMMA IslandIs ==
  ASSUME NEW is \in Islands
  PROVE  /\ Len(is.number) \in Nat
         /\ is.number \in [1 .. Len(is.number) -> Nat]
         /\ is.number \in Seq(Nat)
         /\ \A b, c \in 1 .. Len(is.number) : is.number[b] = is.number[c] => b = c
         /\ Len(is.ends) \in Nat
         /\ DOMAIN is.ends = 1 .. Len(is.ends)
         /\ \A k \in 1 .. Len(is.ends) :
              /\ is.ends[k][1] \in 1 .. Len(is.number)
              /\ is.ends[k][2] \in 1 .. Len(is.number)
              /\ is.ends[k][1] # is.ends[k][2]
         /\ 1 .. Len(is.number) = UNION {{is.ends[k][1], is.ends[k][2]} : k \in DOMAIN is.ends}
         /\ 1 \in 1 .. Len(is.number)
<1>1. /\ is.number \in Seq(Nat)
      /\ is.ends \in Seq((DOMAIN is.number) \X (DOMAIN is.number)) /\ is.ends # <<>>
      /\ \A b, c \in DOMAIN is.number : b # c => is.number[b] # is.number[c]
      /\ \A k \in DOMAIN is.ends : is.ends[k][1] # is.ends[k][2]
      /\ DOMAIN is.number = UNION {{is.ends[k][1], is.ends[k][2]} : k \in DOMAIN is.ends}
  BY PowerAssumption DEF Bus!Parameters
<1> DEFINE num == is.number
           e == is.ends
<1> HIDE DEF num, e
<1>2. Len(num) \in Nat /\ DOMAIN num = 1 .. Len(num) /\ num \in [1 .. Len(num) -> Nat]
  BY <1>1, LenProperties, ElementOfSeq DEF num
<1>3. e \in Seq((DOMAIN num) \X (DOMAIN num)) /\ e # <<>>
  BY <1>1 DEF num, e
<1>4. Len(e) \in Nat /\ DOMAIN e = 1 .. Len(e)
  BY <1>3, LenProperties
<1>5. \A k \in 1 .. Len(e) : e[k] \in (DOMAIN num) \X (DOMAIN num)
  BY <1>3, ElementOfSeq
<1>6. \A k \in 1 .. Len(e) : e[k][1] \in 1 .. Len(num) /\ e[k][2] \in 1 .. Len(num)
  BY <1>2, <1>5
<1>7. 1 \in 1 .. Len(num)
  <2>1. Len(e) # 0
    BY <1>3, EmptySeq
  <2>2. 1 \in 1 .. Len(e)
    BY <1>4, <2>1
  <2>3. e[1][1] \in 1 .. Len(num)
    BY <1>6, <2>2
  <2> QED BY <1>2, <2>3
<1>8. \A b, c \in 1 .. Len(num) : num[b] = num[c] => b = c
  BY <1>1, <1>2 DEF num
<1>9. \A k \in 1 .. Len(e) : e[k][1] # e[k][2]
  BY <1>1, <1>4 DEF e
<1>10. 1 .. Len(num) = UNION {{e[k][1], e[k][2]} : k \in DOMAIN e}
  BY <1>1, <1>2 DEF num, e
<1> QED BY <1>1, <1>2, <1>4, <1>6, <1>7, <1>8, <1>9, <1>10 DEF num, e

LEMMA NumbersAre ==
  ASSUME NEW is \in Islands
  PROVE  /\ NumbersOf(is) \subseteq Nat
         /\ NumbersOf(is) # {}
         /\ IsFiniteSet(NumbersOf(is))
         /\ Cardinality(NumbersOf(is)) = Len(is.number)
         /\ NumbersOf(is) = UNION {{EndsAt(is, is.number)[k][1], EndsAt(is, is.number)[k][2]} :
                                     k \in DOMAIN is.ends}
<1> DEFINE num == is.number
           S == NumbersOf(is)
           len == Len(is.number)
<1>1. /\ len \in Nat /\ num \in [1 .. len -> Nat] /\ 1 \in 1 .. len
      /\ \A b, c \in 1 .. len : num[b] = num[c] => b = c
  BY IslandIs
<1>2. S = {num[b] : b \in 1 .. len}
  BY <1>1 DEF NumbersOf
<1>3. S = UNION {{EndsAt(is, is.number)[k][1], EndsAt(is, is.number)[k][2]} : k \in DOMAIN is.ends}
  <2> DEFINE E(k) == EndsAt(is, is.number)[k]
             e == is.ends
  <2>1. 1 .. len = UNION {{e[k][1], e[k][2]} : k \in DOMAIN e}
    BY IslandIs
  <2>2. \A k \in DOMAIN e : E(k)[1] = num[e[k][1]] /\ E(k)[2] = num[e[k][2]]
    BY DEF EndsAt
  <2> HIDE DEF E, e, len, num, S
  <2>3. ASSUME NEW a PROVE a \in S <=> a \in UNION {{E(k)[1], E(k)[2]} : k \in DOMAIN e}
    <3>1. ASSUME a \in S PROVE a \in UNION {{E(k)[1], E(k)[2]} : k \in DOMAIN e}
      <4>1. PICK b \in 1 .. len : a = num[b]
        BY <1>2, <3>1
      <4>2. PICK k \in DOMAIN e : b = e[k][1] \/ b = e[k][2]
        BY <2>1
      <4> QED BY <2>2, <4>1, <4>2
    <3>2. ASSUME a \in UNION {{E(k)[1], E(k)[2]} : k \in DOMAIN e} PROVE a \in S
      <4>1. PICK k \in DOMAIN e : a = E(k)[1] \/ a = E(k)[2]
        BY <3>2
      <4>2. e[k][1] \in 1 .. len /\ e[k][2] \in 1 .. len
        BY <2>1
      <4> QED BY <1>2, <2>2, <4>1, <4>2
    <3> QED BY <3>1, <3>2
  <2>4. S = UNION {{E(k)[1], E(k)[2]} : k \in DOMAIN e}
    <3> DEFINE U == UNION {{E(k)[1], E(k)[2]} : k \in DOMAIN e}
    <3>1. \A a : a \in S <=> a \in U
      BY <2>3
    <3>2. S = U
      <4> HIDE DEF U
      <4> QED BY <3>1
    <3> QED BY <3>2
  <2> QED BY <2>4 DEF E, e
<1> HIDE DEF num, S, len
<1>4. num \in Bijection(1 .. len, S)
  <2>1. num \in [1 .. len -> S]
    BY <1>1, <1>2
  <2>2. num \in Injection(1 .. len, S)
    BY <1>1, <2>1 DEF Injection, IsInjective
  <2>3. num \in Surjection(1 .. len, S)
    BY <1>2, <2>1 DEF Surjection
  <2> QED BY <2>2, <2>3 DEF Bijection
<1>5. IsFiniteSet(S) /\ Cardinality(S) = len
  <2>1. ExistsBijection(1 .. len, S)
    BY <1>4 DEF ExistsBijection
  <2>2. IsFiniteSet(1 .. len) /\ Cardinality(1 .. len) = len
    BY <1>1, FS_Interval
  <2> QED BY <2>1, <2>2, FS_Bijection
<1>6. S \subseteq Nat /\ S # {}
  BY <1>1, <1>2
<1> QED BY <1>3, <1>5, <1>6 DEF S, len

\* formBus2Buses finds for every number a sequence of numbers.
LEMMA NeighboursAre ==
  ASSUME NEW is \in Islands, ends = EndsAt(is, is.number)
  PROVE  IsNear(Bus!Neighbours, NumbersOf(is))
<1> DEFINE S == NumbersOf(is)
           top == Len(is.ends)
           T == [S -> Seq(Nat)]
           base == [b \in S |-> <<>>]
           Rule(f) == f = [k \in 0 .. Len(ends) |->
                             IF k = 0 THEN [b \in S |-> <<>>] ELSE Bus!Meet(f[k - 1], ends[k])]
           after == CHOOSE f : Rule(f)
<1>1. top \in Nat /\ DOMAIN is.ends = 1 .. top
  BY IslandIs
<1>2. DOMAIN ends = 1 .. top /\ Len(ends) = top
  <2>1. ends = [k \in 1 .. top |-> <<is.number[is.ends[k][1]], is.number[is.ends[k][2]]>>]
    BY <1>1 DEF EndsAt
  <2> DEFINE X == {ends[k] : k \in 1 .. top}
  <2>2. ends \in Seq(X)
    <3>1. \A k \in 1 .. top : ends[k] \in X
      OBVIOUS
    <3> HIDE DEF X
    <3>2. ends \in [1 .. top -> X]
      BY <2>1, <3>1
    <3> QED BY <1>1, <3>2, SeqDef
  <2>3. DOMAIN ends = 1 .. top
    BY <2>1
  <2> QED BY <1>1, <2>2, <2>3, LenProperties
<1>3. S = UNION {{ends[k][1], ends[k][2]} : k \in DOMAIN ends} /\ S \subseteq Nat
  BY <1>1, <1>2, NumbersAre
<1>4. Bus!Neighbours = after[top]
  BY <1>2, <1>3 DEF Bus!Neighbours
<1> HIDE DEF after, S, top
<1>5. ASSUME NEW near \in T, NEW k \in 1 .. top PROVE Bus!Meet(near, ends[k]) \in T
  <2> DEFINE p == ends[k][1]
             q == ends[k][2]
  <2>1. p \in S /\ q \in S /\ p \in Nat /\ q \in Nat
    BY <1>2, <1>3
  <2> HIDE DEF p, q
  <2>2. Append(near[p], q) \in Seq(Nat) /\ Append(near[q], p) \in Seq(Nat)
    BY <2>1, AppendProperties
  <2>3. CASE p # q
    <3>1. [near EXCEPT ![p] = Append(@, q), ![q] = Append(@, p)] =
            [b \in S |-> IF b = q THEN Append(near[q], p)
                         ELSE IF b = p THEN Append(near[p], q) ELSE near[b]]
      BY <2>1, <2>3
    <3>2. [near EXCEPT ![p] = Append(@, q), ![q] = Append(@, p)] \in T
      BY <2>2, <3>1
    <3> QED BY <3>2 DEF Bus!Meet, p, q
  <2>4. p # q
    <3>1. /\ is.number \in [1 .. Len(is.number) -> Nat]
          /\ \A b, c \in 1 .. Len(is.number) : is.number[b] = is.number[c] => b = c
          /\ is.ends[k][1] \in 1 .. Len(is.number)
          /\ is.ends[k][2] \in 1 .. Len(is.number)
          /\ is.ends[k][1] # is.ends[k][2]
      BY IslandIs DEF top
    <3>2. p = is.number[is.ends[k][1]] /\ q = is.number[is.ends[k][2]]
      BY <1>1 DEF EndsAt, p, q
    <3> QED BY <3>1, <3>2
  <2> QED BY <2>3, <2>4
<1>6. base \in T
  <2>1. <<>> \in Seq(Nat)
    BY EmptySeq
  <2> QED BY <2>1
<1> HIDE DEF base, T
<1>7. \E f : Rule(f)
  <2> DEFINE step == [z \in T \X (1 .. top) |-> Bus!Meet(z[1], ends[z[2]])]
  <2>1. step \in [T \X (1 .. top) -> T]
    <3>1. ASSUME NEW z \in T \X (1 .. top) PROVE Bus!Meet(z[1], ends[z[2]]) \in T
      <4>1. z[1] \in T /\ z[2] \in 1 .. top
        OBVIOUS
      <4> QED BY <1>5, <4>1
    <3> QED BY <3>1
  <2>2. \A near \in T, k \in 1 .. top : step[<<near, k>>] = Bus!Meet(near, ends[k])
    OBVIOUS
  <2> HIDE DEF step
  <2>3. PICK f : /\ f \in [0 .. top -> T]
                 /\ f[0] = base
                 /\ \A k \in 1 .. top : f[k] = step[<<f[k - 1], k>>]
    <3>1. \E f : IsLoop(f, top, T, base, step)
      BY <1>1, <1>6, <2>1, LoopExists
    <3> QED BY <3>1 DEF IsLoop
  <2>4. ASSUME NEW k \in 0 .. top
        PROVE  f[k] = IF k = 0 THEN base ELSE Bus!Meet(f[k - 1], ends[k])
    <3>1. CASE k = 0
      BY <2>3, <3>1
    <3>2. CASE k # 0
      <4>1. k \in 1 .. top /\ k - 1 \in 0 .. top
        BY <1>1, <3>2
      <4>2. f[k - 1] \in T
        BY <2>3, <4>1
      <4> QED BY <2>2, <2>3, <3>2, <4>1, <4>2
    <3> QED BY <3>1, <3>2
  <2>5. f = [k \in 0 .. top |-> IF k = 0 THEN base ELSE Bus!Meet(f[k - 1], ends[k])]
    BY <2>3, <2>4
  <2> QED BY <1>2, <2>5 DEF base
<1>8. Rule(after)
  BY <1>7 DEF after
<1>9. after[0] = base /\ \A k \in 1 .. top : after[k] = Bus!Meet(after[k - 1], ends[k])
  <2>1. after = [k \in 0 .. top |-> IF k = 0 THEN base ELSE Bus!Meet(after[k - 1], ends[k])]
    BY <1>2, <1>8 DEF base
  <2>2. 0 \in 0 .. top /\ \A k \in 1 .. top : k \in 0 .. top /\ k # 0
    BY <1>1
  <2> QED BY <2>1, <2>2
<1> DEFINE Good == {k \in 0 .. top : after[k] \in T}
<1>10. 0 \in Good
  BY <1>1, <1>6, <1>9
<1>11. ASSUME NEW k \in 1 .. top, k - 1 \in Good PROVE k \in Good
  <2>1. after[k - 1] \in T /\ k \in 0 .. top
    BY <1>1, <1>11
  <2> QED BY <1>5, <1>9, <2>1
<1>12. top \in Good
  <2> HIDE DEF Good
  <2> QED BY <1>1, <1>10, <1>11, UpTo
<1> QED BY <1>4, <1>12 DEF IsNear, T, S

-----------------------------------------------------------------------------
(* first became last by t renumberings with the map f. *)
Renumbered(f, t, len, first, last) ==
  \E h \in [0 .. t -> [1 .. len -> Nat]] :
    /\ h[0] = first
    /\ h[t] = last
    /\ \A k \in 0 .. t - 1 : \A b \in 1 .. len :
         h[k][b] \in DOMAIN f /\ h[k + 1][b] = f[h[k][b]]

LEMMA RenumberedNever ==
  ASSUME NEW f, NEW len \in Nat, NEW first \in [1 .. len -> Nat], NEW last
  PROVE  Renumbered(f, 0, len, first, last) <=> first = last
<1>1. ASSUME first = last PROVE Renumbered(f, 0, len, first, last)
  <2> DEFINE h == [k \in 0 .. 0 |-> first]
  <2>1. h \in [0 .. 0 -> [1 .. len -> Nat]] /\ h[0] = first /\ h[0] = last
    BY <1>1
  <2>2. 0 .. 0 - 1 = {}
    OBVIOUS
  <2> HIDE DEF h
  <2> QED BY <2>1, <2>2 DEF Renumbered
<1>2. ASSUME Renumbered(f, 0, len, first, last) PROVE first = last
  BY <1>2 DEF Renumbered
<1> QED BY <1>1, <1>2

LEMMA RenumberedAgain ==
  ASSUME NEW f, NEW len \in Nat, NEW t \in Nat, NEW first, NEW last,
         Renumbered(f, t, len, first, last),
         NEW next \in [1 .. len -> Nat],
         \A b \in 1 .. len : last[b] \in DOMAIN f /\ next[b] = f[last[b]]
  PROVE  Renumbered(f, t + 1, len, first, next)
<1> DEFINE T == [1 .. len -> Nat]
<1>1. PICK h \in [0 .. t -> T] :
        /\ h[0] = first
        /\ h[t] = last
        /\ \A k \in 0 .. t - 1 : \A b \in 1 .. len :
             h[k][b] \in DOMAIN f /\ h[k + 1][b] = f[h[k][b]]
  BY DEF Renumbered
<1> HIDE DEF T
<1> DEFINE g == [k \in 0 .. t + 1 |-> IF k = t + 1 THEN next ELSE h[k]]
<1>2. \A k \in 0 .. t : k \in 0 .. t + 1 /\ k # t + 1 /\ h[k] \in T
  OBVIOUS
<1>3. next \in T
  BY DEF T
<1>4. g \in [0 .. t + 1 -> T]
  BY <1>2, <1>3
<1>5. (\A k \in 0 .. t : g[k] = h[k]) /\ g[t + 1] = next
  BY <1>2
<1> HIDE DEF g
<1>6. ASSUME NEW k \in 0 .. t, NEW b \in 1 .. len
      PROVE  g[k][b] \in DOMAIN f /\ g[k + 1][b] = f[g[k][b]]
  <2>1. CASE k = t
    BY <1>1, <1>5, <2>1
  <2>2. CASE k # t
    <3>1. k \in 0 .. t - 1 /\ k + 1 \in 0 .. t
      BY <2>2
    <3>2. g[k] = h[k] /\ g[k + 1] = h[k + 1]
      BY <1>5, <3>1
    <3> QED BY <1>1, <3>1, <3>2
  <2> QED BY <2>1, <2>2
<1>7. g[0] = first
  BY <1>1, <1>5
<1>8. \A k \in 0 .. (t + 1) - 1 : k \in 0 .. t
  OBVIOUS
<1> QED BY <1>4, <1>5, <1>6, <1>7, <1>8 DEF Renumbered, T

(* What one map does the other undoes. *)
Undoes(g, f) == \A a \in DOMAIN f : g[f[a]] = a

\* The inverse map takes the last renumbering back.
LEMMA RenumberedBack ==
  ASSUME NEW f, NEW g, Undoes(g, f),
         NEW len \in Nat, NEW u \in Nat, NEW first, NEW last,
         Renumbered(f, u + 1, len, first, last),
         NEW next \in [1 .. len -> Nat],
         \A b \in 1 .. len : next[b] = g[last[b]]
  PROVE  Renumbered(f, u, len, first, next)
<1> DEFINE T == [1 .. len -> Nat]
<1>1. PICK h \in [0 .. u + 1 -> T] :
        /\ h[0] = first
        /\ h[u + 1] = last
        /\ \A k \in 0 .. (u + 1) - 1 : \A b \in 1 .. len :
             h[k][b] \in DOMAIN f /\ h[k + 1][b] = f[h[k][b]]
  BY DEF Renumbered
<1>2. /\ \A k \in 0 .. u : k \in 0 .. u + 1 /\ k \in 0 .. (u + 1) - 1
      /\ u \in 0 .. u
  OBVIOUS
<1>3. h[u] \in T
  BY <1>2
<1>4. \A b \in 1 .. len : h[u][b] \in DOMAIN f /\ last[b] = f[h[u][b]]
  BY <1>1, <1>2
<1>5. ASSUME NEW b \in 1 .. len PROVE next[b] = h[u][b]
  <2>1. h[u][b] \in DOMAIN f /\ next[b] = g[f[h[u][b]]]
    BY <1>4
  <2> QED BY <2>1 DEF Undoes
<1>6. next = h[u]
  BY <1>3, <1>5
<1> HIDE DEF T
<1> DEFINE r == [k \in 0 .. u |-> h[k]]
<1>7. r \in [0 .. u -> T] /\ \A k \in 0 .. u : r[k] = h[k]
  BY <1>2
<1> HIDE DEF r
<1>8. r[0] = first /\ r[u] = next
  BY <1>1, <1>6, <1>7
<1>9. ASSUME NEW k \in 0 .. u - 1, NEW b \in 1 .. len
      PROVE  r[k][b] \in DOMAIN f /\ r[k + 1][b] = f[r[k][b]]
  <2>1. k \in 0 .. u /\ k + 1 \in 0 .. u
    OBVIOUS
  <2>2. r[k] = h[k] /\ r[k + 1] = h[k + 1]
    BY <1>7, <2>1
  <2> QED BY <1>1, <1>2, <2>1, <2>2
<1> QED BY <1>7, <1>8, <1>9 DEF Renumbered, T


(* The two maps that tinney1 makes of an order of the numbers. *)
MapsOf(near, S, to, back) ==
  LET order == Bus!Sorted(near)
      count == Cardinality(S)
  IN  /\ to = [old \in {order[i] : i \in 1 .. count} |-> CHOOSE i \in 1 .. count : order[i] = old]
      /\ back = [i \in 1 .. count |-> order[i]]

(* What the maps are: they are inverse to one another, and number the      *)
(* buses by degree.                                                        *)
NumbersByDegree(near, S, to, back) ==
  /\ back \in [1 .. Cardinality(S) -> S]
  /\ to \in [DOMAIN to -> 1 .. Cardinality(S)]
  /\ DOMAIN to \subseteq S
  /\ \A i \in 1 .. Cardinality(S) : back[i] \in DOMAIN to /\ to[back[i]] = i
  /\ \A b \in DOMAIN to : back[to[b]] = b
  /\ \A i, j \in 1 .. Cardinality(S) :
       i <= j => Bus!Degree(near, back[i]) <= Bus!Degree(near, back[j])

LEMMA MapsNumber ==
  ASSUME NEW S, S \subseteq Nat, IsFiniteSet(S), S # {}, NEW near, IsNear(near, S),
         NEW to, NEW back, MapsOf(near, S, to, back)
  PROVE  NumbersByDegree(near, S, to, back)
<1> DEFINE order == Bus!Sorted(near)
           count == Cardinality(S)
<1>1. /\ order \in [1 .. count -> S]
      /\ \A i, j \in 1 .. count : order[i] = order[j] => i = j
      /\ \A i, j \in 1 .. count :
           i <= j => Bus!Degree(near, order[i]) <= Bus!Degree(near, order[j])
  BY SortedIs DEF IsOrder
<1>2. /\ to = [old \in {order[i] : i \in 1 .. count} |-> CHOOSE i \in 1 .. count : order[i] = old]
      /\ back = [i \in 1 .. count |-> order[i]]
  BY DEF MapsOf
<1> HIDE DEF order, count
<1>3. \A i \in 1 .. count : back[i] = order[i]
  BY <1>2
<1>4. back \in [1 .. count -> S]
  BY <1>1, <1>2
<1>5. \A b \in DOMAIN to : to[b] \in 1 .. count /\ order[to[b]] = b
  BY <1>2
<1>6. DOMAIN to = {order[i] : i \in 1 .. count}
  BY <1>2
<1>7. to \in [DOMAIN to -> 1 .. count]
  <2>1. to = [old \in DOMAIN to |-> to[old]]
    BY <1>2
  <2> QED BY <1>5, <2>1
<1>8. DOMAIN to \subseteq S
  BY <1>1, <1>6
<1>9. ASSUME NEW i \in 1 .. count PROVE back[i] \in DOMAIN to /\ to[back[i]] = i
  <2>1. back[i] \in DOMAIN to
    BY <1>3, <1>6
  <2>2. to[back[i]] \in 1 .. count /\ order[to[back[i]]] = order[i]
    BY <1>3, <1>5, <2>1
  <2> QED BY <1>1, <2>1, <2>2
<1>10. \A b \in DOMAIN to : back[to[b]] = b
  BY <1>3, <1>5
<1>11. \A i, j \in 1 .. count :
         i <= j => Bus!Degree(near, back[i]) <= Bus!Degree(near, back[j])
  BY <1>1, <1>3
<1> QED BY <1>4, <1>7, <1>8, <1>9, <1>10, <1>11 DEF NumbersByDegree, count

(* The inductive invariant of a numbering: until tinney1 has been called   *)
(* the numbers are those that were read; afterwards the numbers of the     *)
(* buses come from those that were read by as many renumberings as trans   *)
(* was called more often than recover, or the other way around.            *)
Unnumbered ==
  /\ old2new = Bus!Nothing
  /\ new2old = Bus!Nothing
  /\ turns = 0
  /\ busNumber = island.number

Turned ==
  LET len == Len(island.number)
  IN  /\ turns >= 0 => Renumbered(old2new, turns, len, island.number, busNumber)
      /\ turns <= 0 => Renumbered(new2old, 0 - turns, len, island.number, busNumber)

BusInv ==
  /\ island \in Islands
  /\ busNumber \in [1 .. Len(island.number) -> Nat]
  /\ \A b, c \in 1 .. Len(island.number) : busNumber[b] = busNumber[c] => b = c
  /\ ends = EndsAt(island, busNumber)
  /\ bus2buses = Bus!Nothing \/ IsNear(bus2buses, NumbersOf(island))
  /\ turns \in -MaxTurns .. MaxTurns
  /\ \/ Unnumbered
     \/ /\ IsNear(bus2buses, NumbersOf(island))
        /\ MapsOf(bus2buses, NumbersOf(island), old2new, new2old)
        /\ Turned

LEMMA TurnsAre == MaxTurns \in Nat
BY PowerAssumption DEF Bus!Parameters

LEMMA BusInitInv == Bus!Init => BusInv
<1> SUFFICES ASSUME Bus!Init PROVE BusInv
  OBVIOUS
<1>1. island \in Islands /\ busNumber = island.number /\ ends = EndsAt(island, busNumber)
  BY DEF Bus!Init, EndsAt
<1>2. /\ island.number \in [1 .. Len(island.number) -> Nat]
      /\ \A b, c \in 1 .. Len(island.number) : island.number[b] = island.number[c] => b = c
  BY <1>1, IslandIs
<1>3. bus2buses = Bus!Nothing /\ Unnumbered /\ turns \in -MaxTurns .. MaxTurns
  BY <1>1, TurnsAre DEF Bus!Init, Unnumbered
<1> QED BY <1>1, <1>2, <1>3 DEF BusInv

\* The number of the buses does not change.
LEMMA BusCount ==
  ASSUME BusInv
  PROVE  /\ Bus!busN = Len(island.number)
         /\ Len(island.number) \in Nat
         /\ Cardinality(NumbersOf(island)) = Len(island.number)
         /\ busNumber \in Seq(Nat)
<1>1. Len(island.number) \in Nat /\ busNumber \in [1 .. Len(island.number) -> Nat]
  BY IslandIs DEF BusInv
<1>2. busNumber \in Seq(Nat)
  BY <1>1, SeqDef
<1>3. Len(busNumber) = Len(island.number)
  BY <1>1, <1>2, LenProperties
<1> QED BY <1>1, <1>2, <1>3, NumbersAre DEF BusInv, Bus!busN

\* The neighbours are found once, among the numbers that were read.
LEMMA FormedIs ==
  ASSUME BusInv, Bus!FormBus2Buses
  PROVE  /\ IsNear(bus2buses', NumbersOf(island))
         /\ IsNear(bus2buses, NumbersOf(island)) => bus2buses' = bus2buses
<1>1. island \in Islands
  BY DEF BusInv
<1>2. 1 \in DOMAIN island.number /\ island.number[1] \in NumbersOf(island)
  BY <1>1, IslandIs DEF NumbersOf
<1>3. ASSUME IsNear(bus2buses, NumbersOf(island)) PROVE bus2buses # Bus!Nothing
  <2>1. DOMAIN bus2buses # {}
    BY <1>2, <1>3 DEF IsNear
  <2>2. DOMAIN Bus!Nothing = {}
    BY DEF Bus!Nothing
  <2> QED BY <2>1, <2>2
<1>4. CASE IsNear(bus2buses, NumbersOf(island))
  BY <1>3, <1>4 DEF Bus!FormBus2Buses
<1>5. CASE ~IsNear(bus2buses, NumbersOf(island))
  <2>1. bus2buses = Bus!Nothing /\ Unnumbered
    BY <1>5 DEF BusInv
  <2>2. ends = EndsAt(island, island.number)
    BY <2>1 DEF BusInv, Unnumbered
  <2>3. IsNear(Bus!Neighbours, NumbersOf(island))
    BY <1>1, <2>2, NeighboursAre
  <2> QED BY <1>5, <2>1, <2>3 DEF Bus!FormBus2Buses
<1> QED BY <1>4, <1>5

LEMMA Tinney1Inv == ASSUME BusInv, Bus!Tinney1 PROVE BusInv'
<1> DEFINE S == NumbersOf(island)
           near == bus2buses'
<1>1. /\ IsNear(near, S)
      /\ IsNear(bus2buses, S) => near = bus2buses
  BY FormedIs DEF Bus!Tinney1
<1>2. UNCHANGED <<island, busNumber, ends, turns>>
  BY DEF Bus!Tinney1
<1>3. MapsOf(near, S, old2new', new2old')
  BY BusCount DEF Bus!Tinney1, MapsOf
<1>4. Turned'
  <2>1. CASE Unnumbered
    <3>1. turns' = 0 /\ busNumber' = island.number /\ island' = island
      BY <1>2, <2>1 DEF Unnumbered
    <3>2. Len(island.number) \in Nat /\ island.number \in [1 .. Len(island.number) -> Nat]
      BY IslandIs DEF BusInv
    <3>3. \A f : Renumbered(f, 0, Len(island.number), island.number, island.number)
      BY <3>2, RenumberedNever
    <3>4. 0 - 0 = 0
      OBVIOUS
    <3> QED BY <3>1, <3>3, <3>4 DEF Turned
  <2>2. CASE IsNear(bus2buses, S) /\ MapsOf(bus2buses, S, old2new, new2old) /\ Turned
    <3>1. near = bus2buses
      BY <1>1, <2>2
    <3>2. old2new' = old2new /\ new2old' = new2old
      BY <1>3, <2>2, <3>1 DEF MapsOf
    <3> QED BY <1>2, <2>2, <3>2 DEF Turned
  <2> QED BY <2>1, <2>2 DEF BusInv
<1> QED BY <1>1, <1>2, <1>3, <1>4 DEF BusInv

LEMMA Tinney2Inv == ASSUME BusInv, Bus!Tinney2 PROVE BusInv'
<1>1. /\ IsNear(bus2buses', NumbersOf(island))
      /\ IsNear(bus2buses, NumbersOf(island)) => bus2buses' = bus2buses
  BY FormedIs DEF Bus!Tinney2
<1>2. UNCHANGED <<island, busNumber, ends, old2new, new2old, turns>>
  BY DEF Bus!Tinney2
<1>3. Unnumbered' <=> Unnumbered
  BY <1>2 DEF Unnumbered
<1>4. Turned' <=> Turned
  BY <1>2 DEF Turned
<1> QED BY <1>1, <1>2, <1>3, <1>4 DEF BusInv

\* A map of which another is the inverse renumbers buses and branches alike.
LEMMA TransByIs ==
  ASSUME BusInv, NEW map, Bus!TransBy(map), NEW inverse, \A a \in DOMAIN map : inverse[map[a]] = a,
         \A a \in DOMAIN map : map[a] \in Nat
  PROVE  /\ busNumber' \in [1 .. Len(island.number) -> Nat]
         /\ \A b \in 1 .. Len(island.number) :
              busNumber[b] \in DOMAIN map /\ busNumber'[b] = map[busNumber[b]]
         /\ \A b, c \in 1 .. Len(island.number) : busNumber'[b] = busNumber'[c] => b = c
         /\ ends' = EndsAt(island, busNumber')
<1> DEFINE len == Len(island.number)
           e == island.ends
<1>1. len = Bus!busN
  BY BusCount
<1>2. /\ \A b \in 1 .. len : busNumber[b] \in DOMAIN map
      /\ busNumber' = [b \in 1 .. len |-> map[busNumber[b]]]
      /\ ends' = [k \in DOMAIN ends |-> <<map[ends[k][1]], map[ends[k][2]]>>]
  BY <1>1 DEF Bus!TransBy
<1>3. /\ DOMAIN e = 1 .. Len(e)
      /\ \A k \in 1 .. Len(e) : e[k][1] \in 1 .. len /\ e[k][2] \in 1 .. len
  BY IslandIs DEF BusInv
<1>4. /\ ends = [k \in DOMAIN e |-> <<busNumber[e[k][1]], busNumber[e[k][2]]>>]
      /\ \A b, c \in 1 .. len : busNumber[b] = busNumber[c] => b = c
  BY DEF BusInv, EndsAt
<1> HIDE DEF len, e
<1>5. \A b \in 1 .. len : busNumber'[b] = map[busNumber[b]]
  BY <1>2
<1>6. busNumber' \in [1 .. len -> Nat]
  BY <1>2
<1>7. \A b, c \in 1 .. len : busNumber'[b] = busNumber'[c] => b = c
  <2>1. SUFFICES ASSUME NEW b \in 1 .. len, NEW c \in 1 .. len, busNumber'[b] = busNumber'[c]
                 PROVE  b = c
    OBVIOUS
  <2>2. inverse[busNumber'[b]] = busNumber[b] /\ inverse[busNumber'[c]] = busNumber[c]
    BY <1>2, <1>5
  <2> QED BY <1>4, <2>1, <2>2
<1>8. ends' = [k \in DOMAIN e |-> <<busNumber'[e[k][1]], busNumber'[e[k][2]]>>]
  <2>1. DOMAIN ends = DOMAIN e
    BY <1>4
  <2>2. \A k \in DOMAIN e : /\ map[ends[k][1]] = busNumber'[e[k][1]]
                            /\ map[ends[k][2]] = busNumber'[e[k][2]]
    BY <1>3, <1>4, <1>5
  <2> QED BY <1>2, <2>1, <2>2
<1> QED BY <1>2, <1>5, <1>6, <1>7, <1>8 DEF len, e, EndsAt

\* Without a map no bus is found.
LEMMA TransNeedsMaps ==
  ASSUME BusInv, NEW map, Bus!TransBy(map), Unnumbered, map = Bus!Nothing
  PROVE  FALSE
<1>1. 1 \in 1 .. Bus!busN
  BY BusCount, IslandIs DEF BusInv
<1>2. busNumber[1] \in DOMAIN map
  BY <1>1 DEF Bus!TransBy
<1> QED BY <1>2 DEF Bus!Nothing

LEMMA MapsAre ==
  ASSUME BusInv, ~Unnumbered
  PROVE  NumbersByDegree(bus2buses, NumbersOf(island), old2new, new2old)
<1>1. island \in Islands /\ IsNear(bus2buses, NumbersOf(island))
  BY DEF BusInv
<1>2. MapsOf(bus2buses, NumbersOf(island), old2new, new2old)
  BY DEF BusInv
<1>3. NumbersOf(island) \subseteq Nat /\ IsFiniteSet(NumbersOf(island)) /\ NumbersOf(island) # {}
  BY <1>1, NumbersAre
<1> QED BY <1>1, <1>2, <1>3, MapsNumber

LEMMA TransInv == ASSUME BusInv, Bus!Trans PROVE BusInv'
<1>1. /\ Bus!TransBy(old2new) /\ turns < MaxTurns /\ turns' = turns + 1
      /\ UNCHANGED <<island, bus2buses, old2new, new2old>>
  BY DEF Bus!Trans, Bus!TransBy
<1>2. ~Unnumbered
  BY <1>1, TransNeedsMaps DEF Unnumbered
<1>3. NumbersByDegree(bus2buses, NumbersOf(island), old2new, new2old)
  BY <1>2, MapsAre
<1>4. /\ \A a \in DOMAIN old2new : new2old[old2new[a]] = a /\ old2new[a] \in Nat
      /\ \A a \in DOMAIN new2old : old2new[new2old[a]] = a
  <2>1. DOMAIN new2old = 1 .. Cardinality(NumbersOf(island))
    BY <1>3 DEF NumbersByDegree
  <2> QED BY <1>3, <2>1 DEF NumbersByDegree
<1> DEFINE len == Len(island.number)
<1>5. /\ busNumber' \in [1 .. len -> Nat]
      /\ \A b \in 1 .. len : busNumber[b] \in DOMAIN old2new /\ busNumber'[b] = old2new[busNumber[b]]
      /\ \A b, c \in 1 .. len : busNumber'[b] = busNumber'[c] => b = c
      /\ ends' = EndsAt(island, busNumber')
  BY <1>1, <1>4, TransByIs
<1>6. turns \in Int /\ MaxTurns \in Nat /\ len \in Nat /\ turns \in -MaxTurns .. MaxTurns
  BY TurnsAre, BusCount DEF BusInv
<1>7. Undoes(old2new, new2old) /\ Undoes(new2old, old2new)
  BY <1>4 DEF Undoes
<1>8. busNumber' \in [1 .. len -> Nat]
  BY <1>5
<1>9. \A b \in 1 .. len : busNumber'[b] = old2new[busNumber[b]]
  BY <1>5
<1>10. Turned
  BY <1>2 DEF BusInv
<1>11. turns + 1 >= 0 => Renumbered(old2new, turns + 1, len, island.number, busNumber')
  <2>1. CASE turns >= 0
    <3>1. turns \in Nat /\ Renumbered(old2new, turns, len, island.number, busNumber)
      BY <1>6, <1>10, <2>1 DEF Turned
    <3> HIDE DEF len
    <3> QED BY <1>5, <1>6, <3>1, RenumberedAgain
  <2>2. CASE turns = -1
    <3>1. Renumbered(new2old, 0 + 1, len, island.number, busNumber)
      <4>1. turns <= 0 /\ 0 - turns = 0 + 1
        BY <2>2
      <4> QED BY <1>10, <4>1 DEF Turned
    <3>2. Renumbered(new2old, 0, len, island.number, busNumber')
      <4> HIDE DEF len
      <4>1. 0 \in Nat
        OBVIOUS
      <4> QED BY <1>6, <1>7, <1>8, <1>9, <3>1, <4>1, RenumberedBack
    <3>3. island.number \in [1 .. len -> Nat]
      BY IslandIs DEF BusInv
    <3>4. island.number = busNumber'
      <4> HIDE DEF len
      <4> QED BY <1>6, <3>2, <3>3, RenumberedNever
    <3>5. Renumbered(old2new, 0, len, island.number, busNumber')
      <4> HIDE DEF len
      <4> QED BY <1>6, <3>3, <3>4, RenumberedNever
    <3>6. turns + 1 = 0
      BY <2>2
    <3> QED BY <3>5, <3>6
  <2> QED BY <1>6, <2>1, <2>2
<1>12. turns + 1 <= 0 => Renumbered(new2old, 0 - (turns + 1), len, island.number, busNumber')
  <2>1. SUFFICES ASSUME turns + 1 <= 0
                 PROVE  Renumbered(new2old, 0 - (turns + 1), len, island.number, busNumber')
    OBVIOUS
  <2>2. turns <= 0 /\ 0 - turns \in Nat /\ 0 - (turns + 1) \in Nat /\ 0 - turns = (0 - (turns + 1)) + 1
    BY <1>6, <2>1
  <2>3. Renumbered(new2old, 0 - turns, len, island.number, busNumber)
    BY <1>10, <2>2 DEF Turned
  <2> DEFINE t == 0 - turns
             u == 0 - (turns + 1)
  <2>4. u \in Nat /\ t = u + 1 /\ Renumbered(new2old, t, len, island.number, busNumber)
    BY <2>2, <2>3
  <2> HIDE DEF t, u, len
  <2>5. Renumbered(new2old, u + 1, len, island.number, busNumber)
    BY <2>4
  <2>6. Renumbered(new2old, u, len, island.number, busNumber')
    BY <1>6, <1>7, <1>8, <1>9, <2>4, <2>5, RenumberedBack
  <2> QED BY <2>6 DEF u
<1>13. Turned'
  BY <1>1, <1>11, <1>12 DEF Turned
<1>14. turns' \in -MaxTurns .. MaxTurns
  BY <1>1, <1>6
<1>15. MapsOf(bus2buses, NumbersOf(island), old2new, new2old) /\ IsNear(bus2buses, NumbersOf(island))
  BY <1>2 DEF BusInv
<1> QED BY <1>1, <1>5, <1>13, <1>14, <1>15 DEF BusInv

LEMMA RecoverInv == ASSUME BusInv, Bus!Recover PROVE BusInv'
<1>1. /\ Bus!TransBy(new2old) /\ turns > -MaxTurns /\ turns' = turns - 1
      /\ UNCHANGED <<island, bus2buses, old2new, new2old>>
  BY DEF Bus!Recover, Bus!TransBy
<1>2. ~Unnumbered
  BY <1>1, TransNeedsMaps DEF Unnumbered
<1>3. NumbersByDegree(bus2buses, NumbersOf(island), old2new, new2old)
  BY <1>2, MapsAre
<1>4. /\ \A a \in DOMAIN old2new : new2old[old2new[a]] = a
      /\ \A a \in DOMAIN new2old : old2new[new2old[a]] = a /\ new2old[a] \in Nat
  <2>1. DOMAIN new2old = 1 .. Cardinality(NumbersOf(island))
    BY <1>3 DEF NumbersByDegree
  <2>2. NumbersOf(island) \subseteq Nat
    BY NumbersAre DEF BusInv
  <2> QED BY <1>3, <2>1, <2>2 DEF NumbersByDegree
<1> DEFINE len == Len(island.number)
<1>5. /\ busNumber' \in [1 .. len -> Nat]
      /\ \A b \in 1 .. len : busNumber[b] \in DOMAIN new2old /\ busNumber'[b] = new2old[busNumber[b]]
      /\ \A b, c \in 1 .. len : busNumber'[b] = busNumber'[c] => b = c
      /\ ends' = EndsAt(island, busNumber')
  BY <1>1, <1>4, TransByIs
<1>6. turns \in Int /\ MaxTurns \in Nat /\ len \in Nat /\ turns \in -MaxTurns .. MaxTurns
  BY TurnsAre, BusCount DEF BusInv
<1>7. Undoes(old2new, new2old) /\ Undoes(new2old, old2new)
  BY <1>4 DEF Undoes
<1>8. busNumber' \in [1 .. len -> Nat]
  BY <1>5
<1>9. \A b \in 1 .. len : busNumber'[b] = new2old[busNumber[b]]
  BY <1>5
<1>10. Turned
  BY <1>2 DEF BusInv
<1>11. turns - 1 <= 0 => Renumbered(new2old, 0 - (turns - 1), len, island.number, busNumber')
  <2>1. CASE turns <= 0
    <3> DEFINE t == 0 - turns
    <3>1. t \in Nat /\ 0 - (turns - 1) = t + 1
      BY <1>6, <2>1
    <3>2. Renumbered(new2old, t, len, island.number, busNumber)
      BY <1>10, <2>1 DEF Turned
    <3> HIDE DEF len, t
    <3>3. Renumbered(new2old, t + 1, len, island.number, busNumber')
      BY <1>5, <1>6, <3>1, <3>2, RenumberedAgain
    <3> QED BY <3>1, <3>3
  <2>2. CASE turns = 1
    <3>1. Renumbered(old2new, 0 + 1, len, island.number, busNumber)
      <4>1. turns >= 0 /\ turns = 0 + 1
        BY <2>2
      <4> QED BY <1>10, <4>1 DEF Turned
    <3>2. Renumbered(old2new, 0, len, island.number, busNumber')
      <4> HIDE DEF len
      <4>1. 0 \in Nat
        OBVIOUS
      <4> QED BY <1>6, <1>7, <1>8, <1>9, <3>1, <4>1, RenumberedBack
    <3>3. island.number \in [1 .. len -> Nat]
      BY IslandIs DEF BusInv
    <3>4. island.number = busNumber'
      <4> HIDE DEF len
      <4> QED BY <1>6, <3>2, <3>3, RenumberedNever
    <3>5. Renumbered(new2old, 0, len, island.number, busNumber')
      <4> HIDE DEF len
      <4> QED BY <1>6, <3>3, <3>4, RenumberedNever
    <3>6. 0 - (turns - 1) = 0
      BY <2>2
    <3> QED BY <3>5, <3>6
  <2> QED BY <1>6, <2>1, <2>2
<1>12. turns - 1 >= 0 => Renumbered(old2new, turns - 1, len, island.number, busNumber')
  <2>1. SUFFICES ASSUME turns - 1 >= 0
                 PROVE  Renumbered(old2new, turns - 1, len, island.number, busNumber')
    OBVIOUS
  <2> DEFINE u == turns - 1
  <2>2. turns >= 0 /\ turns \in Nat /\ u \in Nat /\ turns = u + 1
    BY <1>6, <2>1
  <2>3. Renumbered(old2new, turns, len, island.number, busNumber)
    BY <1>10, <2>2 DEF Turned
  <2> HIDE DEF len, u
  <2>4. Renumbered(old2new, u + 1, len, island.number, busNumber)
    BY <2>2, <2>3
  <2>5. Renumbered(old2new, u, len, island.number, busNumber')
    BY <1>6, <1>7, <1>8, <1>9, <2>2, <2>4, RenumberedBack
  <2> QED BY <2>5 DEF u
<1>13. Turned'
  BY <1>1, <1>11, <1>12 DEF Turned
<1>14. turns' \in -MaxTurns .. MaxTurns
  BY <1>1, <1>6
<1>15. MapsOf(bus2buses, NumbersOf(island), old2new, new2old) /\ IsNear(bus2buses, NumbersOf(island))
  BY <1>2 DEF BusInv
<1> QED BY <1>1, <1>5, <1>13, <1>14, <1>15 DEF BusInv

LEMMA BusNextInv == BusInv /\ [Bus!Next]_(Bus!vars) => BusInv'
<1> SUFFICES ASSUME BusInv, [Bus!Next]_(Bus!vars) PROVE BusInv'
  OBVIOUS
<1>1. CASE UNCHANGED Bus!vars
  BY <1>1 DEF Bus!vars, BusInv, Unnumbered, Turned
<1>2. CASE Bus!Next
  BY <1>2, Tinney1Inv, Tinney2Inv, TransInv, RecoverInv DEF Bus!Next
<1> QED BY <1>1, <1>2

LEMMA BusInvIs ==
  BusInv => Bus!TypeOK /\ Bus!OrderedByDegree /\ Bus!SameIsland /\ Bus!Recovered
<1> SUFFICES ASSUME BusInv
             PROVE  Bus!TypeOK /\ Bus!OrderedByDegree /\ Bus!SameIsland /\ Bus!Recovered
  OBVIOUS
<1> DEFINE len == Len(island.number)
           e == island.ends
<1>1. /\ island \in Islands
      /\ busNumber \in [1 .. len -> Nat]
      /\ \A b, c \in 1 .. len : busNumber[b] = busNumber[c] => b = c
      /\ ends = [k \in DOMAIN e |-> <<busNumber[e[k][1]], busNumber[e[k][2]]>>]
      /\ turns \in -MaxTurns .. MaxTurns
  BY DEF BusInv, EndsAt
<1>2. busNumber \in Seq(Nat) /\ Bus!busN = len /\ len \in Nat
  BY BusCount
<1>3. /\ DOMAIN e = 1 .. Len(e)
      /\ \A k \in 1 .. Len(e) : e[k][1] \in 1 .. len /\ e[k][2] \in 1 .. len
  BY IslandIs DEF BusInv
<1>4. Bus!TypeOK
  <2>1. \A k \in DOMAIN ends : ends[k] \in Nat \X Nat
    <3> HIDE DEF e, len
    <3> QED BY <1>1, <1>3
  <2>2. \A b \in DOMAIN bus2buses : bus2buses[b] \in Seq(Nat)
    <3>1. CASE bus2buses = Bus!Nothing
      BY <3>1 DEF Bus!Nothing
    <3>2. CASE IsNear(bus2buses, NumbersOf(island))
      BY <3>2 DEF IsNear
    <3> QED BY <3>1, <3>2 DEF BusInv
  <2> QED BY <1>1, <1>2, <2>1, <2>2 DEF Bus!TypeOK
<1>5. Bus!SameIsland
  <2> HIDE DEF len
  <2>1. \A k \in DOMAIN ends : /\ ends[k][1] = busNumber[e[k][1]]
                               /\ ends[k][2] = busNumber[e[k][2]]
    <3> HIDE DEF e
    <3> QED BY <1>1
  <2> QED BY <1>1, <1>2, <2>1 DEF Bus!SameIsland
<1>6. Bus!OrderedByDegree
  <2>1. SUFFICES ASSUME old2new # Bus!Nothing PROVE Bus!OrderedByDegree
    BY DEF Bus!OrderedByDegree
  <2>2. NumbersByDegree(bus2buses, NumbersOf(island), old2new, new2old)
    BY <2>1, MapsAre DEF Unnumbered
  <2>3. Cardinality(NumbersOf(island)) = Bus!busN /\ Bus!busN \in Nat
    BY BusCount
  <2> DEFINE top == Bus!busN
  <2>4. top \in Nat /\ \A i \in 1 .. top - 1 : i \in 1 .. top /\ i + 1 \in 1 .. top /\ i <= i + 1
    BY <2>3
  <2>5. /\ DOMAIN new2old = 1 .. top
        /\ \A i \in 1 .. top : old2new[new2old[i]] = i
        /\ \A b \in DOMAIN old2new : new2old[old2new[b]] = b
        /\ \A i, j \in 1 .. top :
             i <= j => Bus!Degree(bus2buses, new2old[i]) <= Bus!Degree(bus2buses, new2old[j])
    BY <2>2, <2>3 DEF NumbersByDegree
  <2> HIDE DEF top
  <2>6. \A i \in 1 .. top - 1 :
          Bus!Degree(bus2buses, new2old[i]) <= Bus!Degree(bus2buses, new2old[i + 1])
    BY <2>4, <2>5
  <2> QED BY <2>5, <2>6 DEF Bus!OrderedByDegree, top
<1>7. Bus!Recovered
  <2>1. SUFFICES ASSUME turns = 0 PROVE busNumber = island.number
    BY DEF Bus!Recovered
  <2>2. CASE Unnumbered
    BY <2>2 DEF Unnumbered
  <2>3. CASE Turned
    <3>1. Renumbered(old2new, 0, len, island.number, busNumber)
      BY <2>1, <2>3 DEF Turned
    <3>2. island.number \in [1 .. len -> Nat] /\ len \in Nat
      BY <1>1, <1>2, IslandIs
    <3> HIDE DEF len
    <3> QED BY <3>1, <3>2, RenumberedNever
  <2> QED BY <2>2, <2>3 DEF BusInv
<1> QED BY <1>4, <1>5, <1>6, <1>7

-----------------------------------------------------------------------------
(* The programs. *)
MeasureSet == [type : Quantity, num : Nat]

\* One sequence after another.
LEMMA FlattenIn ==
  ASSUME NEW T, NEW len \in Nat, NEW s \in [1 .. len -> Seq(T)]
  PROVE  FlattenSeq(s) \in Seq(T)
<1>1. s \in Seq(Seq(T)) /\ Len(s) = len
  BY SeqDef, LenProperties
<1>2. CASE len = 0
  <2>1. s = <<>>
    BY <1>1, <1>2, EmptySeq
  <2> QED BY <1>1, <1>2, <2>1 DEF FlattenSeq
<1>3. CASE len # 0
  <2> DEFINE step == [a \in Seq(T) \X (1 .. len) |-> IF a[2] = 1 THEN s[1] ELSE a[1] \o s[a[2]]]
  <2>1. step \in [Seq(T) \X (1 .. len) -> Seq(T)]
    <3>1. ASSUME NEW a \in Seq(T) \X (1 .. len)
          PROVE  (IF a[2] = 1 THEN s[1] ELSE a[1] \o s[a[2]]) \in Seq(T)
      <4>1. a[1] \in Seq(T) /\ s[a[2]] \in Seq(T) /\ 1 \in 1 .. len /\ s[1] \in Seq(T)
        BY <1>3
      <4>2. a[1] \o s[a[2]] \in Seq(T)
        BY <4>1, ConcatProperties
      <4> QED BY <4>1, <4>2
    <3> QED BY <3>1
  <2>2. <<>> \in Seq(T)
    OBVIOUS
  <2>3. PICK f : IsLoop(f, len, Seq(T), <<>>, step)
    <3> HIDE DEF step
    <3> QED BY <2>1, <2>2, LoopExists
  <2>4. f \in [0 .. len -> Seq(T)] /\ \A k \in 1 .. len : f[k] = step[<<f[k - 1], k>>]
    BY <2>3 DEF IsLoop
  <2>5. ASSUME NEW k \in 1 .. len
        PROVE  f[k] = IF k = 1 THEN s[k] ELSE f[k - 1] \o s[k]
    <3>1. <<f[k - 1], k>> \in Seq(T) \X (1 .. len)
      BY <2>4
    <3>2. f[k] = step[<<f[k - 1], k>>]
      BY <2>4
    <3> QED BY <3>1, <3>2
  <2> HIDE DEF step
  <2> DEFINE Made(g) == g = [i \in 1 .. len |-> IF i = 1 THEN s[i] ELSE g[i - 1] \o s[i]]
             g == [i \in 1 .. len |-> f[i]]
  <2>6. Made(g)
    <3>1. ASSUME NEW i \in 1 .. len
          PROVE  g[i] = IF i = 1 THEN s[i] ELSE g[i - 1] \o s[i]
      <4>1. i # 1 => i - 1 \in 1 .. len
        OBVIOUS
      <4> QED BY <2>5, <4>1
    <3>2. g = [i \in 1 .. len |-> g[i]]
      OBVIOUS
    <3> HIDE DEF g
    <3>3. g = [i \in 1 .. len |-> IF i = 1 THEN s[i] ELSE g[i - 1] \o s[i]]
      BY <3>1, <3>2
    <3> QED BY <3>3
  <2> DEFINE flat == CHOOSE h : Made(h)
  <2>7. Made(flat)
    <3> HIDE DEF Made, g
    <3> QED BY <2>6
  <2>8. FlattenSeq(s) = flat[len]
    BY <1>1, <1>3 DEF FlattenSeq
  <2> HIDE DEF flat
  <2>9. \A k \in 1 .. len : flat[k] = IF k = 1 THEN s[k] ELSE flat[k - 1] \o s[k]
    BY <2>7
  <2> DEFINE Reached == {k \in 0 .. len : k = 0 \/ flat[k] \in Seq(T)}
  <2>10. ASSUME NEW k \in 1 .. len, k - 1 \in Reached PROVE k \in Reached
    <3>1. k # 1 => flat[k - 1] \in Seq(T)
      BY <2>10
    <3>2. s[k] \in Seq(T)
      OBVIOUS
    <3>3. k # 1 => flat[k - 1] \o s[k] \in Seq(T)
      BY <3>1, <3>2, ConcatProperties
    <3>4. flat[k] \in Seq(T)
      BY <2>9, <3>2, <3>3
    <3> QED BY <3>4
  <2>11. 0 \in Reached
    OBVIOUS
  <2>12. 0 .. len \subseteq Reached
    <3> HIDE DEF Reached
    <3> QED BY <2>10, <2>11, UpTo
  <2>13. len \in Reached
    BY <2>12
  <2> QED BY <1>3, <2>8, <2>13
<1> QED BY <1>2, <1>3

LEMMA TwoIn ==
  ASSUME NEW num \in Nat, NEW s \in Quantity, NEW t \in Quantity
  PROVE  /\ Two(s, t, num) \in Seq(MeasureSet)
         /\ <<Measure(s, num)>> \in Seq(MeasureSet)
         /\ <<>> \in Seq(MeasureSet)
<1>1. Measure(s, num) \in MeasureSet /\ Measure(t, num) \in MeasureSet
  BY DEF Measure, MeasureSet
<1>2. \A S : \A a, b \in S : <<a, b>> \in Seq(S) /\ <<a>> \in Seq(S) /\ <<>> \in Seq(S)
  OBVIOUS
<1> QED BY <1>1, <1>2 DEF Two

LEMMA PolarIn ==
  ASSUME NEW is, NEW top, is.number \in Seq(1 .. top), top \in Nat
  PROVE  FormMeas4PF_polar(is).filled \in Seq(MeasureSet)
<1> DEFINE Pair(b) ==
             LET t == is.type[b] num == is.number[b]
             IN  CASE t \in {0, 1} -> Two("P", "Q", num)
                   [] t = 2 -> Two("P", "voltage", num)
                   [] t = 3 -> Two("voltage", "angle", num)
                   [] OTHER -> <<>>
           s == [b \in DOMAIN is.number |-> Pair(b)]
<1>1. DOMAIN is.number = 1 .. Len(is.number) /\ Len(is.number) \in Nat
  BY LenProperties
<1>2. \A b \in DOMAIN is.number : is.number[b] \in Nat
  OBVIOUS
<1>3. ASSUME NEW b \in DOMAIN is.number PROVE Pair(b) \in Seq(MeasureSet)
  <2>1. is.number[b] \in Nat
    BY <1>2
  <2>3. Two("P", "Q", is.number[b]) \in Seq(MeasureSet)
    BY <2>1, TwoIn DEF Quantity
  <2>4. Two("P", "voltage", is.number[b]) \in Seq(MeasureSet)
    BY <2>1, TwoIn DEF Quantity
  <2>5. Two("voltage", "angle", is.number[b]) \in Seq(MeasureSet)
    BY <2>1, TwoIn DEF Quantity
  <2>6. <<>> \in Seq(MeasureSet)
    OBVIOUS
  <2> QED BY <2>3, <2>4, <2>5, <2>6
<1>4. s \in [1 .. Len(is.number) -> Seq(MeasureSet)]
  <2> HIDE DEF Pair
  <2> QED BY <1>1, <1>3
<1>5. FormMeas4PF_polar(is).filled = FlattenSeq(s)
  BY DEF FormMeas4PF_polar, ForEachBus
<1> HIDE DEF s
<1> QED BY <1>1, <1>4, <1>5, FlattenIn

LEMMA RectIn ==
  ASSUME NEW is, NEW top \in Nat, is.number \in Seq(1 .. top)
  PROVE  FormMeas4PF_rect(is).filled \in Seq(MeasureSet)
<1> DEFINE Pair(b) ==
             LET t == is.type[b] num == is.number[b]
             IN  CASE t \in {0, 1} -> Two("P", "Q", num)
                   [] t = 2 -> Two("P", "voltage", num)
                   [] t = 3 -> Two("E", "F", num)
                   [] OTHER -> <<>>
           s == [b \in DOMAIN is.number |-> Pair(b)]
<1>1. DOMAIN is.number = 1 .. Len(is.number) /\ Len(is.number) \in Nat
  BY LenProperties
<1>2. ASSUME NEW b \in DOMAIN is.number PROVE Pair(b) \in Seq(MeasureSet)
  <2>1. is.number[b] \in Nat
    OBVIOUS
  <2>2. Two("P", "Q", is.number[b]) \in Seq(MeasureSet)
    BY <2>1, TwoIn DEF Quantity
  <2>3. Two("P", "voltage", is.number[b]) \in Seq(MeasureSet)
    BY <2>1, TwoIn DEF Quantity
  <2>4. Two("E", "F", is.number[b]) \in Seq(MeasureSet)
    BY <2>1, TwoIn DEF Quantity
  <2> QED BY <2>2, <2>3, <2>4
<1>3. s \in [1 .. Len(is.number) -> Seq(MeasureSet)]
  <2> HIDE DEF Pair
  <2> QED BY <1>1, <1>2
<1>4. FormMeas4PF_rect(is).filled = FlattenSeq(s)
  BY DEF FormMeas4PF_rect, ForEachBus
<1> HIDE DEF s
<1> QED BY <1>1, <1>3, <1>4, FlattenIn

LEMMA OPFIn ==
  ASSUME NEW is, NEW top \in Nat, is.number \in Seq(1 .. top),
         NEW freeP, NEW freeQ, NEW freeV
  PROVE  FormMeas4OPF(is, freeP, freeQ, freeV, TRUE).filled \in Seq(MeasureSet)
<1> DEFINE Unless(free, type, num) == IF num \in free THEN <<>> ELSE <<Measure(type, num)>>
           Kept(b) ==
             LET t == is.type[b] num == is.number[b]
             IN  CASE t \in {0, 1} -> Unless(freeP, "P", num) \o Unless(freeQ, "Q", num)
                   [] t = 2 -> Unless(freeP, "P", num) \o Unless(freeV, "voltage", num)
                   [] t = 3 -> (IF TRUE THEN Unless(freeV, "voltage", num) ELSE <<>>)
                                 \o <<Measure("angle", num)>>
                   [] OTHER -> <<>>
           s == [b \in DOMAIN is.number |-> Kept(b)]
<1>1. DOMAIN is.number = 1 .. Len(is.number) /\ Len(is.number) \in Nat
  BY LenProperties
<1>2. ASSUME NEW num \in Nat, NEW free, NEW type \in Quantity
      PROVE  /\ Unless(free, type, num) \in Seq(MeasureSet)
             /\ <<Measure(type, num)>> \in Seq(MeasureSet)
  BY TwoIn
<1>3. ASSUME NEW b \in DOMAIN is.number PROVE Kept(b) \in Seq(MeasureSet)
  <2> DEFINE num == is.number[b]
             p == Unless(freeP, "P", num)
             q == Unless(freeQ, "Q", num)
             v == Unless(freeV, "voltage", num)
             a == <<Measure("angle", num)>>
  <2>1. num \in Nat
    OBVIOUS
  <2>2. {"P", "Q", "voltage", "angle"} \subseteq Quantity
    BY DEF Quantity
  <2> HIDE DEF Unless, num
  <2>3. /\ p \in Seq(MeasureSet) /\ q \in Seq(MeasureSet)
        /\ v \in Seq(MeasureSet) /\ a \in Seq(MeasureSet)
    BY <1>2, <2>1, <2>2
  <2> HIDE DEF p, q, v, a
  <2>4. p \o q \in Seq(MeasureSet) /\ p \o v \in Seq(MeasureSet) /\ v \o a \in Seq(MeasureSet)
    BY <2>3, ConcatProperties
  <2>5. Kept(b) = CASE is.type[b] \in {0, 1} -> p \o q
                    [] is.type[b] = 2 -> p \o v
                    [] is.type[b] = 3 -> v \o a
                    [] OTHER -> <<>>
    BY DEF p, q, v, a, num
  <2> HIDE DEF Kept
  <2> QED BY <2>4, <2>5
<1>4. s \in [1 .. Len(is.number) -> Seq(MeasureSet)]
  <2> HIDE DEF Kept
  <2> QED BY <1>1, <1>3
<1>5. FormMeas4OPF(is, freeP, freeQ, freeV, TRUE).filled = FlattenSeq(s)
  BY DEF FormMeas4OPF, ForEachBus
<1> HIDE DEF s
<1> QED BY <1>1, <1>4, <1>5, FlattenIn

LEMMA CIIn ==
  ASSUME NEW is, NEW top \in Nat, is.number \in Seq(1 .. top)
  PROVE  FormMeas4PF_CI(is).filled \in Seq(MeasureSet)
<1> DEFINE Net(b) == Two("net real", "net image", is.number[b])
           Pair(b) ==
             LET t == is.type[b] num == is.number[b]
             IN  CASE t \in {0, 1} -> Two("P", "Q", num)
                   [] t = 2 -> Two("P", "voltage", num)
                   [] t = 3 -> Two("E", "F", num)
                   [] t = 4 -> Two("Ix", "Iy", num)
                   [] OTHER -> <<>>
           r == [b \in DOMAIN is.number |-> Net(b)]
           s == [b \in DOMAIN is.number |-> Pair(b)]
<1>1. DOMAIN is.number = 1 .. Len(is.number) /\ Len(is.number) \in Nat
  BY LenProperties
<1>2. ASSUME NEW b \in DOMAIN is.number
      PROVE  Net(b) \in Seq(MeasureSet) /\ Pair(b) \in Seq(MeasureSet)
  <2>1. is.number[b] \in Nat
    OBVIOUS
  <2>2. Two("P", "Q", is.number[b]) \in Seq(MeasureSet)
    BY <2>1, TwoIn DEF Quantity
  <2>3. Two("P", "voltage", is.number[b]) \in Seq(MeasureSet)
    BY <2>1, TwoIn DEF Quantity
  <2>4. Two("E", "F", is.number[b]) \in Seq(MeasureSet)
    BY <2>1, TwoIn DEF Quantity
  <2>5. Two("Ix", "Iy", is.number[b]) \in Seq(MeasureSet)
    BY <2>1, TwoIn DEF Quantity
  <2>6. Two("net real", "net image", is.number[b]) \in Seq(MeasureSet)
    BY <2>1, TwoIn DEF Quantity
  <2>7. Pair(b) \in Seq(MeasureSet)
    BY <2>2, <2>3, <2>4, <2>5
  <2> HIDE DEF Pair
  <2> QED BY <2>6, <2>7
<1>3. /\ r \in [1 .. Len(is.number) -> Seq(MeasureSet)]
      /\ s \in [1 .. Len(is.number) -> Seq(MeasureSet)]
  <2> HIDE DEF Net, Pair
  <2> QED BY <1>1, <1>2
<1>4. FormMeas4PF_CI(is).filled = FlattenSeq(r) \o FlattenSeq(s)
  BY DEF FormMeas4PF_CI, ForEachBus
<1> HIDE DEF r, s
<1>5. FlattenSeq(r) \in Seq(MeasureSet) /\ FlattenSeq(s) \in Seq(MeasureSet)
  BY <1>1, <1>3, FlattenIn
<1> QED BY <1>4, <1>5, ConcatProperties

\* A matrix keeps what it is written with.
LEMMA WrittenIn ==
  ASSUME NEW S, NEW matrix, \A p \in DOMAIN matrix : matrix[p] \subseteq S,
         NEW rows, NEW a \in S
  PROVE  \A p \in DOMAIN J!Written(matrix, rows, a) : J!Written(matrix, rows, a)[p] \subseteq S
BY DEF J!Written

LEMMA NothingWritten == \A S : \A p \in DOMAIN J!NoCells : J!NoCells[p] \subseteq S
BY DEF J!NoCells

(* The inductive invariant of a program: TypeOK, and besides that the      *)
(* numbers of the buses go up to their count, and a program that has not   *)
(* begun has what it was called with.                                      *)
FlowInv ==
  /\ TypeOK
  /\ problem.island.number \in Seq(1 .. N)
  /\ pc = "start" =>
       /\ problem \in Problems
       /\ vTheta = {}
       /\ jac = J!NoCells

LEMMA ProblemIs ==
  ASSUME problem \in Problems
  PROVE  /\ {"driver", "island", "measures"} \subseteq DOMAIN problem
         /\ {"number", "type"} \subseteq DOMAIN problem.island
         /\ problem.driver \in {"newton", "ipopt", "opf", "se", "ci"}
         /\ problem.island.number \in Seq(1 .. N)
         /\ problem.measures \in Seq(MeasureSet)
BY PowerAssumption DEF Parameters, N, MeasureSet

LEMMA FlowInitInv == Init => FlowInv
<1> SUFFICES ASSUME Init PROVE FlowInv
  OBVIOUS
<1>1. problem \in Problems /\ pc = "start" /\ vTheta = {} /\ jac = J!NoCells /\ round = 0
  BY DEF Init
<1>2. meas.filled = <<>> /\ x.filled = {}
  BY DEF Init
<1>3. MaxRound \in Nat
  BY PowerAssumption DEF Parameters
<1>4. meas.filled \in Seq([type : Quantity, num : Nat])
  BY <1>2
<1>5. \A p \in DOMAIN jac : jac[p] \subseteq 0 .. MaxRound
  BY <1>1, NothingWritten
<1>6. TypeOK
  BY <1>1, <1>2, <1>3, <1>4, <1>5, ProblemIs DEF TypeOK
<1> QED BY <1>1, <1>6, ProblemIs DEF FlowInv

\* The numbers of the buses, part after part.
LEMMA PartsIn ==
  ASSUME FlowInv
  PROVE  /\ N \in Nat
         /\ ByNumber({0, 1}) \subseteq 0 .. 2 * N - 1
         /\ ByNumber({2, 3}) \subseteq 0 .. 4 * N - 1
         /\ ByNumber(0 .. 3) \subseteq 0 .. 4 * N - 1
<1>1. N \in Nat /\ \A num \in Numbers : num \in 1 .. N
  <2>1. problem.island.number \in Seq(1 .. N)
    BY DEF FlowInv
  <2>2. N \in Nat
    BY <2>1, LenProperties DEF N
  <2> QED BY <2>1, <2>2 DEF Numbers
<1>2. ASSUME NEW num \in Numbers
      PROVE  /\ num - 1 + 0 * N \in 0 .. 2 * N - 1
             /\ num - 1 + 1 * N \in 0 .. 2 * N - 1
             /\ num - 1 + 2 * N \in 0 .. 4 * N - 1
             /\ num - 1 + 3 * N \in 0 .. 4 * N - 1
  BY <1>1
<1>3. 0 .. 2 * N - 1 \subseteq 0 .. 4 * N - 1
  BY <1>1
<1>4. 0 .. 3 = {0, 1, 2, 3}
  OBVIOUS
<1> HIDE DEF N, Numbers
<1>5. ASSUME NEW num \in Numbers, NEW k \in {0, 1} PROVE num - 1 + k * N \in 0 .. 2 * N - 1
  BY <1>2
<1>6. ASSUME NEW num \in Numbers, NEW k \in {2, 3} PROVE num - 1 + k * N \in 0 .. 4 * N - 1
  BY <1>2
<1>7. ASSUME NEW num \in Numbers, NEW k \in 0 .. 3 PROVE num - 1 + k * N \in 0 .. 4 * N - 1
  <2>1. CASE k \in {0, 1}
    BY <1>3, <1>5, <2>1
  <2>2. CASE k \in {2, 3}
    BY <1>6, <2>2
  <2> QED BY <1>4, <2>1, <2>2
<1> QED BY <1>1, <1>5, <1>6, <1>7 DEF ByNumber

\* The steps after the model has been laid down change neither the problem
\* nor its measures.
LEMMA FlowLater ==
  ASSUME FlowInv, UNCHANGED <<problem, meas, x>>,
         pc' \in {"initial", "solving", "iterating", "converged", "failed", "solved"},
         \A p \in DOMAIN jac' : jac'[p] \subseteq 0 .. MaxRound,
         round' \in 0 .. MaxRound,
         vTheta' \in {vTheta, 0 .. 2 * N - 1}
  PROVE  FlowInv'
<1>1. N' = N
  BY DEF N
<1>2. vTheta' \in {{}, 0 .. 2 * N' - 1}
  BY <1>1 DEF FlowInv, TypeOK
<1>3. TypeOK'
  BY <1>2 DEF FlowInv, TypeOK
<1>4. (problem.island.number \in Seq(1 .. N))'
  BY <1>1 DEF FlowInv
<1> QED BY <1>3, <1>4 DEF FlowInv

\* The step that lays the model down.
LEMMA FlowBegins ==
  ASSUME FlowInv, NEW newX, Initialised(newX),
         problem'.driver = problem.driver,
         problem'.island.number = problem.island.number,
         meas'.filled \in Seq(MeasureSet),
         newX.filled \subseteq 0 .. newX.length - 1
  PROVE  FlowInv'
<1>1. /\ pc = "start" /\ pc' = "initial" /\ x' = newX
      /\ jac' = jac /\ round' = round /\ vTheta' = vTheta
  BY DEF Initialised
<1>2. N' = N
  BY DEF N
<1>3. vTheta' = {}
  BY <1>1 DEF FlowInv
<1>4. TypeOK'
  BY <1>1, <1>3 DEF FlowInv, TypeOK, MeasureSet
<1>5. (problem.island.number \in Seq(1 .. N))'
  BY <1>2 DEF FlowInv
<1> QED BY <1>1, <1>4, <1>5 DEF FlowInv

LEMMA PFInitialInv == ASSUME FlowInv, PFInitialModel PROVE FlowInv'
<1> DEFINE newX == [length |-> 2 * N, filled |-> ByNumber({0, 1})]
<1>1. Initialised(newX) /\ problem' = problem
  BY DEF PFInitialModel
<1>2. meas' = FormMeas4PF_polar(problem.island) \/ meas' = FormMeas4PF_rect(problem.island)
  BY DEF PFInitialModel
<1>3. N \in Nat /\ problem.island.number \in Seq(1 .. N)
  BY PartsIn DEF FlowInv
<1>4. meas'.filled \in Seq(MeasureSet)
  BY <1>2, <1>3, PolarIn, RectIn
<1>5. newX.filled \subseteq 0 .. newX.length - 1
  BY PartsIn
<1> HIDE DEF newX
<1> QED BY <1>1, <1>4, <1>5, FlowBegins

LEMMA OPFInitialInv == ASSUME FlowInv, OPFInitialModel PROVE FlowInv'
<1> DEFINE newX == [length |-> 4 * N, filled |-> ByNumber(0 .. 3)]
<1>1. /\ Initialised(newX) /\ problem' = problem
      /\ meas' = FormMeas4OPF(problem.island, problem.freeP, problem.freeQ, problem.freeV, TRUE)
  BY DEF OPFInitialModel
<1>2. N \in Nat /\ problem.island.number \in Seq(1 .. N)
  BY PartsIn DEF FlowInv
<1>3. meas'.filled \in Seq(MeasureSet)
  BY <1>1, <1>2, OPFIn
<1>4. newX.filled \subseteq 0 .. newX.length - 1
  BY PartsIn
<1> HIDE DEF newX
<1> QED BY <1>1, <1>3, <1>4, FlowBegins

LEMMA SEInitialInv == ASSUME FlowInv, SEInitialModel PROVE FlowInv'
<1> DEFINE count == Len(problem.measures)
           state == IF problem.given THEN 0 .. States - 1
                    ELSE (0 .. 2 * N - 1) \cup (IF Full THEN ByNumber({2, 3}) ELSE {})
           residuals == States .. States + count - 1
           newX == [length |-> States + count, filled |-> state \cup residuals]
<1>1. /\ Initialised(newX) /\ problem' = problem
      /\ meas' = [measNum |-> count, filled |-> problem.measures]
  BY DEF SEInitialModel
<1>2. problem.measures \in Seq(MeasureSet)
  BY <1>1, ProblemIs DEF Initialised, FlowInv
<1>3. meas'.filled \in Seq(MeasureSet)
  BY <1>1, <1>2
<1>4. N \in Nat /\ count \in Nat
  BY <1>2, PartsIn, LenProperties
<1>5. /\ States \in {2 * N, 4 * N}
      /\ Full => States = 4 * N
  BY DEF States
<1> HIDE DEF count
<1>6. state \subseteq 0 .. States - 1
  <2>1. 0 .. 2 * N - 1 \subseteq 0 .. States - 1
    BY <1>4, <1>5
  <2>2. Full => ByNumber({2, 3}) \subseteq 0 .. States - 1
    BY <1>5, PartsIn
  <2> QED BY <2>1, <2>2
<1>7. 0 .. States - 1 \subseteq 0 .. States + count - 1 /\ residuals \subseteq 0 .. States + count - 1
  BY <1>4, <1>5
<1> HIDE DEF state, residuals
<1>8. newX.filled = state \cup residuals /\ newX.length = States + count
  OBVIOUS
<1> HIDE DEF newX
<1>9. state \cup residuals \subseteq 0 .. States + count - 1
  BY <1>6, <1>7
<1>10. newX.filled \subseteq 0 .. newX.length - 1
  BY <1>4, <1>5, <1>8, <1>9
<1> QED BY <1>1, <1>3, <1>10, FlowBegins

LEMMA CIInitialInv == ASSUME FlowInv, CIInitial PROVE FlowInv'
<1> DEFINE newX == [length |-> 4 * N, filled |-> ByNumber(0 .. 3)]
           is == FindCNNode(problem.island, problem.idle)
<1>1. /\ Initialised(newX) /\ problem' = [problem EXCEPT !.island = is]
      /\ meas' = FormMeas4PF_CI(is)
  BY DEF CIInitial
<1>2. /\ {"driver", "island", "measures"} \subseteq DOMAIN problem
      /\ {"number", "type"} \subseteq DOMAIN problem.island
  BY <1>1, ProblemIs DEF Initialised, FlowInv
<1>3. is.number = problem.island.number
  BY <1>2 DEF FindCNNode
<1> HIDE DEF is
<1>4. problem'.driver = problem.driver /\ problem'.island = is
  BY <1>1, <1>2
<1>5. N \in Nat /\ is.number \in Seq(1 .. N)
  BY <1>3, PartsIn DEF FlowInv
<1>6. meas'.filled \in Seq(MeasureSet)
  BY <1>1, <1>5, CIIn
<1>7. newX.filled \subseteq 0 .. newX.length - 1
  BY PartsIn
<1> HIDE DEF newX
<1> QED BY <1>1, <1>3, <1>4, <1>6, <1>7, FlowBegins

\* The evaluations at any point leave what is expected of a matrix.
LEMMA RoundsAre ==
  ASSUME FlowInv
  PROVE  /\ MaxRound \in Nat /\ 0 \in 0 .. MaxRound
         /\ \A p \in DOMAIN jac : jac[p] \subseteq 0 .. MaxRound
         /\ AtSomePoint => round' \in 0 .. MaxRound
         /\ \A rows, a : a \in 0 .. MaxRound =>
              \A p \in DOMAIN J!Written(jac, rows, a) : J!Written(jac, rows, a)[p] \subseteq 0 .. MaxRound
         /\ \A rows : \A p \in DOMAIN J!Written(J!NoCells, rows, 0) :
              J!Written(J!NoCells, rows, 0)[p] \subseteq 0 .. MaxRound
<1>1. MaxRound \in Nat /\ 0 \in 0 .. MaxRound
  BY PowerAssumption DEF Parameters
<1>2. \A p \in DOMAIN jac : jac[p] \subseteq 0 .. MaxRound
  BY DEF FlowInv, TypeOK
<1>3. AtSomePoint => round' \in 0 .. MaxRound
  BY <1>1 DEF AtSomePoint
<1>4. \A rows, a : a \in 0 .. MaxRound =>
        \A p \in DOMAIN J!Written(jac, rows, a) : J!Written(jac, rows, a)[p] \subseteq 0 .. MaxRound
  BY <1>2, WrittenIn
<1>5. \A p \in DOMAIN J!NoCells : J!NoCells[p] \subseteq 0 .. MaxRound
  BY NothingWritten
<1>6. \A rows : \A p \in DOMAIN J!Written(J!NoCells, rows, 0) :
        J!Written(J!NoCells, rows, 0)[p] \subseteq 0 .. MaxRound
  BY <1>1, <1>5, WrittenIn
<1> QED BY <1>1, <1>2, <1>3, <1>4, <1>6

LEMMA ToldInv ==
  ASSUME FlowInv, NEW a, NEW b, NEW c, Told(a, b, c)
  PROVE  FlowInv'
<1>1. /\ UNCHANGED <<problem, meas, x, round, vTheta>> /\ pc' = "solving"
      /\ jac' = J!Written(J!NoCells, JacobianRows(TRUE), 0)
  BY DEF Told
<1>2. \A p \in DOMAIN jac' : jac'[p] \subseteq 0 .. MaxRound
  BY <1>1, RoundsAre
<1>3. round' \in 0 .. MaxRound
  BY <1>1 DEF FlowInv, TypeOK
<1> QED BY <1>1, <1>2, <1>3, FlowLater

\* A solver asks.
LEMMA AskedInv ==
  ASSUME FlowInv, Solving, Unasked,
         jac' = jac \/ \E rows : jac' = J!Written(jac, rows, round'),
         round' = round \/ AtSomePoint
  PROVE  FlowInv'
<1>1. UNCHANGED <<problem, meas, x, vTheta>> /\ pc' = "solving"
  BY DEF Unasked, Solving
<1>2. round' \in 0 .. MaxRound
  BY RoundsAre DEF FlowInv, TypeOK
<1>3. \A p \in DOMAIN jac' : jac'[p] \subseteq 0 .. MaxRound
  <2>1. CASE jac' = jac
    BY <2>1, RoundsAre
  <2>2. CASE \E rows : jac' = J!Written(jac, rows, round')
    BY <1>2, <2>2, RoundsAre
  <2> QED BY <2>1, <2>2
<1> QED BY <1>1, <1>2, <1>3, FlowLater

LEMMA IteratesInv ==
  ASSUME FlowInv, NEW rows, Iterates(rows)
  PROVE  FlowInv'
<1>1. /\ UNCHANGED <<problem, meas, x, vTheta>>
      /\ jac' = J!Written(jac, rows, round')
      /\ round < MaxRound /\ round' = round + 1
      /\ pc' \in {"iterating", "converged", "failed"}
  BY DEF Iterates
<1>2. round' \in 0 .. MaxRound
  BY <1>1, RoundsAre DEF FlowInv, TypeOK
<1>3. \A p \in DOMAIN jac' : jac'[p] \subseteq 0 .. MaxRound
  BY <1>1, <1>2, RoundsAre
<1> QED BY <1>1, <1>2, <1>3, FlowLater

LEMMA FlowNextInv == FlowInv /\ [Next]_vars => FlowInv'
<1> SUFFICES ASSUME FlowInv, [Next]_vars PROVE FlowInv'
  OBVIOUS
<1>1. CASE PFInitialModel \/ OPFInitialModel \/ SEInitialModel \/ CIInitial
  BY <1>1, PFInitialInv, OPFInitialInv, SEInitialInv, CIInitialInv
<1>2. CASE PFGetInfo \/ OPFGetInfo \/ SEGetInfo
  BY <1>2, ToldInv DEF PFGetInfo, OPFGetInfo, SEGetInfo
<1>3. CASE GetStartingPoint
  BY <1>3, AskedInv DEF GetStartingPoint
<1>4. CASE EvalG
  BY <1>4, AskedInv DEF EvalG
<1>5. CASE EvalJacStructure
  BY <1>5, AskedInv DEF EvalJacStructure
<1>6. CASE EvalJacValues
  BY <1>6, AskedInv DEF EvalJacValues
<1>7. CASE EvalHStructure
  BY <1>7, AskedInv DEF EvalHStructure
<1>8. CASE EvalHValues
  BY <1>8, AskedInv DEF EvalHValues
<1>9. CASE FinalizeSolution
  <2>1. /\ UNCHANGED <<problem, meas, x, jac, round>> /\ pc' = "solved"
        /\ vTheta' = 0 .. 2 * N - 1
    BY <1>9 DEF FinalizeSolution
  <2> QED BY <2>1, RoundsAre, FlowLater DEF FlowInv, TypeOK
<1>10. CASE NewtonStart
  <2>1. UNCHANGED <<problem, meas, x, jac, round, vTheta>> /\ pc' = "iterating"
    BY <1>10 DEF NewtonStart
  <2> QED BY <2>1, RoundsAre, FlowLater DEF FlowInv, TypeOK
<1>11. CASE Newton2Start
  <2>1. /\ UNCHANGED <<problem, meas, x, round, vTheta>> /\ pc' = "iterating"
        /\ jac' = J!Written(J!NoCells, JacobianRows(FALSE), 0)
    BY <1>11 DEF Newton2Start
  <2>2. \A p \in DOMAIN jac' : jac'[p] \subseteq 0 .. MaxRound
    BY <2>1, RoundsAre
  <2> QED BY <2>1, <2>2, FlowLater DEF FlowInv, TypeOK
<1>12. CASE CIConst
  <2>1. /\ UNCHANGED <<problem, meas, x, round, vTheta>> /\ pc' = "iterating"
        /\ jac' = J!Written(J!NoCells, J!FormJacobian_CIHM_rect_const(y, meas.filled), 0)
    BY <1>12 DEF CIConst
  <2>2. \A p \in DOMAIN jac' : jac'[p] \subseteq 0 .. MaxRound
    BY <2>1, RoundsAre
  <2> QED BY <2>1, <2>2, FlowLater DEF FlowInv, TypeOK
<1>13. CASE NewtonIterate \/ CIIterate
  BY <1>13, IteratesInv DEF NewtonIterate, CIIterate
<1>14. CASE TakeResult
  <2>1. /\ UNCHANGED <<problem, meas, x, jac, round>> /\ pc' = "solved"
        /\ vTheta' = 0 .. 2 * N - 1
    BY <1>14 DEF TakeResult
  <2> QED BY <2>1, RoundsAre, FlowLater DEF FlowInv, TypeOK
<1>15. CASE UNCHANGED vars
  BY <1>15 DEF vars, FlowInv, TypeOK, N
<1> QED BY <1>1, <1>2, <1>3, <1>4, <1>5, <1>6, <1>7, <1>8, <1>9, <1>10, <1>11, <1>12, <1>13,
           <1>14, <1>15 DEF Next

-----------------------------------------------------------------------------
(* The invariant of all the parts. *)
PowerInv ==
  /\ kind \in Kinds
  /\ MatrixInv
  /\ kind = "numbering" => BusInv
  /\ kind = "flow" => FlowInv

LEMMA PowerInitInv == PowerInit => PowerInv
<1> SUFFICES ASSUME PowerInit PROVE PowerInv
  OBVIOUS
<1>1. kind = "numbering" => BusInv
  BY BusInitInv DEF PowerInit
<1>2. kind = "flow" => FlowInv
  BY FlowInitInv DEF PowerInit
<1> QED BY <1>1, <1>2, MatrixInitInv DEF PowerInit, PowerInv

LEMMA PowerStep ==
  ASSUME [PowerNext]_allVars
  PROVE  /\ kind = "numbering" => [Bus!Next]_(Bus!vars)
         /\ kind = "flow" => [Next]_vars
<1>1. CASE PowerNext
  BY <1>1 DEF PowerNext
<1>2. CASE UNCHANGED allVars
  BY <1>2 DEF allVars, numberVars, Bus!vars
<1> QED BY <1>1, <1>2

LEMMA PowerNextInv == PowerInv /\ [PowerNext]_allVars => PowerInv'
<1> SUFFICES ASSUME PowerInv, [PowerNext]_allVars PROVE PowerInv'
  OBVIOUS
<1>1. kind' = kind
  BY MatrixStep
<1>2. MatrixInv'
  BY MatrixNextInv DEF PowerInv
<1>3. kind = "numbering" => BusInv'
  BY PowerStep, BusNextInv DEF PowerInv
<1>4. kind = "flow" => FlowInv'
  BY PowerStep, FlowNextInv DEF PowerInv
<1> QED BY <1>1, <1>2, <1>3, <1>4 DEF PowerInv

\* The invariant of each part contains what is said of it.
LEMMA PowerInvIs ==
  ASSUME PowerInv
  PROVE  PowerWellFormed /\ (kind = "numbering" => Bus!Recovered)
<1>1. kind \in {"sparse", "map", "numbering", "flow"}
  BY PowerAssumption DEF PowerInv
<1>2. kind = "flow" => TypeOK
  BY DEF PowerInv, FlowInv
<1>3. kind = "numbering" => Bus!TypeOK /\ Bus!OrderedByDegree /\ Bus!SameIsland /\ Bus!Recovered
  BY BusInvIs DEF PowerInv
<1>4. kind = "sparse" => SM!TypeOK /\ SM!WellLinked
  BY SMInvIsType, SMInvIsLinked DEF PowerInv, MatrixInv
<1>5. kind = "map" => Map!TypeOK /\ Map!Counted
  BY Map!InvIsType, Map!InvIsCounted DEF PowerInv, MatrixInv
<1> QED BY <1>1, <1>2, <1>3, <1>4, <1>5 DEF PowerWellFormed

(* Whatever the island, the matrix or the program, and in any order of the *)
(* calls: each part keeps its shape.                                       *)
THEOREM PowersAreWellFormed == PowerSpec => []PowerWellFormed
<1>1. PowerInv => PowerWellFormed
  BY PowerInvIs
<1> QED BY <1>1, PowerInitInv, PowerNextInv, PTL DEF PowerSpec

(* A caller that calls recover as often as trans, and tinney1 at any time, *)
(* finds the numbers that were read.                                       *)
THEOREM NumbersAreRecovered == PowerSpec => [](kind = "numbering" => Bus!Recovered)
<1>1. PowerInv => (kind = "numbering" => Bus!Recovered)
  BY PowerInvIs
<1> QED BY <1>1, PowerInitInv, PowerNextInv, PTL DEF PowerSpec
=============================================================================
