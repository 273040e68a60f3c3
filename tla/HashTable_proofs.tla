-------------------------- MODULE HashTable_proofs --------------------------
(***************************************************************************)
(* Proofs about the hash table, for every set of keys, hash function and   *)
(* list of primes.                                                         *)
(***************************************************************************)
EXTENDS HashTable, SequenceTheorems, FiniteSetTheorems, WellFoundedInduction,
        TLAPS

-----------------------------------------------------------------------------
(* Sequences: a new head, and a removed position. *)

LEMMA ConsElements ==
  ASSUME NEW S, NEW s \in Seq(S), NEW e \in S
  PROVE  /\ <<e>> \o s \in Seq(S)
         /\ Len(<<e>> \o s) = Len(s) + 1
         /\ \A q \in 1 .. Len(s) + 1 :
              (<<e>> \o s)[q] = IF q = 1 THEN e ELSE s[q - 1]
<1>1. <<e>> \in Seq(S) /\ Len(<<e>>) = 1 /\ <<e>>[1] = e
  OBVIOUS
<1>2. Len(s) \in Nat
  OBVIOUS
<1> QED
  BY <1>1, <1>2, ConcatProperties

LEMMA RemoveAtElements ==
  ASSUME NEW S, NEW s \in Seq(S), NEW p \in 1 .. Len(s)
  PROVE  /\ RemoveAt(s, p) \in Seq(S)
         /\ Len(RemoveAt(s, p)) = Len(s) - 1
         /\ \A q \in 1 .. Len(s) - 1 :
              RemoveAt(s, p)[q] = IF q < p THEN s[q] ELSE s[q + 1]
<1> DEFINE front == SubSeq(s, 1, p - 1)
           back == SubSeq(s, p + 1, Len(s))
<1>1. Len(s) \in Nat /\ \A q \in 1 .. Len(s) : s[q] \in S
  BY ElementOfSeq
<1>2. /\ front \in Seq(S)
      /\ Len(front) = p - 1
      /\ \A q \in 1 .. p - 1 : front[q] = s[q]
  BY <1>1, SubSeqProperties
<1>3. /\ back \in Seq(S)
      /\ Len(back) = Len(s) - p
      /\ \A q \in 1 .. Len(s) - p : back[q] = s[p + q]
  BY <1>1, SubSeqProperties
<1>4. RemoveAt(s, p) = front \o back
  BY DEF RemoveAt
<1> HIDE DEF front, back
<1>5. /\ front \o back \in Seq(S)
      /\ Len(front \o back) = (p - 1) + (Len(s) - p)
      /\ \A q \in 1 .. (p - 1) + (Len(s) - p) :
           (front \o back)[q] = IF q <= p - 1 THEN front[q]
                                ELSE back[q - (p - 1)]
  <2>1. front \in Seq(S) /\ back \in Seq(S)
    BY <1>2, <1>3
  <2>2. /\ front \o back \in Seq(S)
        /\ Len(front \o back) = Len(front) + Len(back)
        /\ \A q \in 1 .. Len(front) + Len(back) :
             (front \o back)[q] = IF q <= Len(front) THEN front[q]
                                  ELSE back[q - Len(front)]
    BY <2>1, ConcatProperties
  <2>3. Len(front) = p - 1 /\ Len(back) = Len(s) - p
    BY <1>2, <1>3
  <2> QED
    BY <2>2, <2>3
<1>6. ASSUME NEW q \in 1 .. Len(s) - 1
      PROVE  RemoveAt(s, p)[q] = IF q < p THEN s[q] ELSE s[q + 1]
  <2>1. CASE q < p
    BY <2>1, <1>1, <1>2, <1>4, <1>5
  <2>2. CASE q >= p
    <3>0. q \in 1 .. (p - 1) + (Len(s) - p) /\ ~(q <= p - 1)
      BY <2>2, <1>1
    <3>1. (front \o back)[q] = back[q - (p - 1)]
      BY <3>0, <1>5
    <3>2. q - (p - 1) \in 1 .. Len(s) - p
      BY <2>2, <1>1
    <3>3. back[q - (p - 1)] = s[p + (q - (p - 1))]
      BY <3>2, <1>3
    <3>4. p + (q - (p - 1)) = q + 1
      BY <1>1
    <3>5. RemoveAt(s, p)[q] = s[q + 1]
      BY <3>1, <3>3, <3>4, <1>4
    <3> QED
      BY <2>2, <3>5, <1>1
  <2> QED
    BY <2>1, <2>2, <1>1
<1> QED
  BY <1>1, <1>4, <1>5, <1>6

-----------------------------------------------------------------------------
(* Tables: the keys of a table, and what each change of a chain does to    *)
(* them.                                                                   *)

Table(n) == [0 .. n - 1 -> Seq(Entry)]
KeysOf(t) == {Class(e) : e \in StoredIn(t)}
WithChain(t, c, s) == [t EXCEPT ![c] = s]
WithEntry(t, c, p, e) == [t EXCEPT ![c][p] = e]

(* s is a chain without its position p. *)
IsCut(s, chain, p) ==
  /\ s \in Seq(Entry)
  /\ Len(s) = Len(chain) - 1
  /\ \A q \in 1 .. Len(chain) - 1 :
       s[q] = IF q < p THEN chain[q] ELSE chain[q + 1]

LEMMA KeyOfEntry ==
  ASSUME NEW e \in Entry
  PROVE  Class(e) \in Key
BY KeyAssumption DEF Entry, Class

LEMMA IndexInTable ==
  ASSUME NEW k \in Key, NEW n \in Nat, n > 0
  PROVE  Index(k, n) \in 0 .. n - 1
BY KeyAssumption DEF Index

LEMMA KeysOfMembers ==
  ASSUME NEW n \in Nat, NEW t \in Table(n), NEW k
  PROVE  k \in KeysOf(t) <=>
           \E c \in 0 .. n - 1 : \E p \in 1 .. Len(t[c]) : Class(t[c][p]) = k
<1>1. DOMAIN t = 0 .. n - 1 /\ \A c \in 0 .. n - 1 : t[c] \in Seq(Entry)
  BY DEF Table
<1>2. \A c \in 0 .. n - 1 : DOMAIN t[c] = 1 .. Len(t[c])
  BY <1>1, LenProperties
<1>3. \A c \in 0 .. n - 1 : ToSet(t[c]) = {t[c][p] : p \in 1 .. Len(t[c])}
  BY <1>2 DEF ToSet
<1>4. \A e : e \in StoredIn(t) <=>
               \E c \in 0 .. n - 1 : \E p \in 1 .. Len(t[c]) : e = t[c][p]
  BY <1>1, <1>3 DEF StoredIn
<1> QED
  BY <1>4 DEF KeysOf

LEMMA KeysAreKeys ==
  ASSUME NEW n \in Nat, NEW t \in Table(n)
  PROVE  KeysOf(t) \subseteq Key
<1> SUFFICES ASSUME NEW k \in KeysOf(t)
             PROVE  k \in Key
  OBVIOUS
<1>0. PICK c \in 0 .. n - 1 : \E p \in 1 .. Len(t[c]) : Class(t[c][p]) = k
  BY KeysOfMembers
<1>1. PICK p \in 1 .. Len(t[c]) : Class(t[c][p]) = k
  BY <1>0
<1>2. t[c] \in Seq(Entry)
  BY DEF Table
<1>3. t[c][p] \in Entry
  BY <1>2, ElementOfSeq
<1> QED
  BY <1>1, <1>3, KeyOfEntry

(* A new head in one chain adds its key. *)
LEMMA PushKey ==
  ASSUME NEW n \in Nat, NEW t \in Table(n), NEW c \in 0 .. n - 1,
         NEW e \in Entry, Class(e) \notin KeysOf(t), DistinctIn(t),
         PlacedIn(t, n), Index(Class(e), n) = c,
         NEW u, u = WithChain(t, c, <<e>> \o t[c])
  PROVE  /\ u \in Table(n)
         /\ DistinctIn(u)
         /\ PlacedIn(u, n)
         /\ KeysOf(u) = KeysOf(t) \cup {Class(e)}
<1>1. \A d \in 0 .. n - 1 : t[d] \in Seq(Entry) /\ DOMAIN t[d] = 1 .. Len(t[d])
                            /\ Len(t[d]) \in Nat
  BY LenProperties DEF Table
<1>2. /\ <<e>> \o t[c] \in Seq(Entry)
      /\ Len(<<e>> \o t[c]) = Len(t[c]) + 1
      /\ \A q \in 1 .. Len(t[c]) + 1 :
           (<<e>> \o t[c])[q] = IF q = 1 THEN e ELSE t[c][q - 1]
  BY <1>1, ConsElements
<1>3. u \in Table(n) /\ DOMAIN u = 0 .. n - 1 /\ DOMAIN t = 0 .. n - 1
  BY <1>2 DEF Table, WithChain
<1>4. /\ \A d \in 0 .. n - 1 : d # c => u[d] = t[d]
      /\ u[c] = <<e>> \o t[c]
  BY DEF Table, WithChain
<1>5. /\ DOMAIN u[c] = 1 .. Len(t[c]) + 1
      /\ Len(u[c]) = Len(t[c]) + 1
      /\ u[c][1] = e
      /\ \A q \in 2 .. Len(t[c]) + 1 : u[c][q] = t[c][q - 1]
  BY <1>1, <1>2, <1>4, LenProperties
<1>6. \A d \in 0 .. n - 1 : \A p \in 1 .. Len(t[d]) : Class(t[d][p]) # Class(e)
  BY KeysOfMembers
<1>7. \A d \in 0 .. n - 1 : \A p \in DOMAIN u[d] :
        /\ p \in Int
        /\ \/ d = c /\ p = 1 /\ u[d][p] = e
           \/ d = c /\ p - 1 \in DOMAIN t[d] /\ u[d][p] = t[d][p - 1]
           \/ d # c /\ p \in DOMAIN t[d] /\ u[d][p] = t[d][p]
  <2> TAKE d \in 0 .. n - 1
  <2> TAKE p \in DOMAIN u[d]
  <2>1. CASE d # c
    BY <2>1, <1>1, <1>4
  <2>2. CASE d = c /\ p = 1
    BY <2>2, <1>5
  <2>3. CASE d = c /\ p # 1
    <3>1. p \in 2 .. Len(t[c]) + 1
      BY <2>3, <1>1, <1>5
    <3> QED
      BY <3>1, <2>3, <1>1, <1>5, SMTT(20)
  <2> QED
    BY <2>1, <2>2, <2>3
<1>8. DistinctIn(u)
  <2> SUFFICES ASSUME NEW d1 \in 0 .. n - 1, NEW d2 \in 0 .. n - 1,
                      NEW p1 \in DOMAIN u[d1], NEW p2 \in DOMAIN u[d2],
                      Class(u[d1][p1]) = Class(u[d2][p2])
               PROVE  d1 = d2 /\ p1 = p2
    BY <1>3 DEF DistinctIn
  <2>1. \A a, b \in 0 .. n - 1 : \A p \in DOMAIN t[a], q \in DOMAIN t[b] :
          Class(t[a][p]) = Class(t[b][q]) => a = b /\ p = q
    BY <1>3 DEF DistinctIn
  <2>2. \A d \in 0 .. n - 1 : \A p \in DOMAIN t[d] : Class(t[d][p]) # Class(e)
    BY <1>1, <1>6
  <2>3. \/ d1 = c /\ p1 = 1 /\ u[d1][p1] = e
        \/ d1 = c /\ p1 - 1 \in DOMAIN t[d1] /\ u[d1][p1] = t[d1][p1 - 1]
        \/ d1 # c /\ p1 \in DOMAIN t[d1] /\ u[d1][p1] = t[d1][p1]
    BY <1>7
  <2>4. \/ d2 = c /\ p2 = 1 /\ u[d2][p2] = e
        \/ d2 = c /\ p2 - 1 \in DOMAIN t[d2] /\ u[d2][p2] = t[d2][p2 - 1]
        \/ d2 # c /\ p2 \in DOMAIN t[d2] /\ u[d2][p2] = t[d2][p2]
    BY <1>7
  <2>5. p1 \in Int /\ p2 \in Int
    BY <1>7
  <2> QED
    BY <2>1, <2>2, <2>3, <2>4, <2>5
<1>9. PlacedIn(u, n)
  BY <1>3, <1>7 DEF PlacedIn
<1>10. KeysOf(u) = KeysOf(t) \cup {Class(e)}
  <2>0. \A k : k \in KeysOf(u) <=>
          \E d \in 0 .. n - 1 : \E p \in 1 .. Len(u[d]) : Class(u[d][p]) = k
    BY <1>3, KeysOfMembers
  <2>1. ASSUME NEW k \in KeysOf(u)
        PROVE  k \in KeysOf(t) \cup {Class(e)}
    <3>1. PICK d \in 0 .. n - 1 : \E p \in 1 .. Len(u[d]) : Class(u[d][p]) = k
      BY <2>0
    <3>2. PICK p \in 1 .. Len(u[d]) : Class(u[d][p]) = k
      BY <3>1
    <3>3. p \in DOMAIN u[d]
      BY <1>1, <1>4, <1>5
    <3>4. CASE u[d][p] = e
      BY <3>2, <3>4
    <3>5. CASE u[d][p] # e
      <4>1. PICK q \in DOMAIN t[d] : u[d][p] = t[d][q]
        BY <3>3, <3>5, <1>7
      <4>2. q \in 1 .. Len(t[d])
        BY <1>1
      <4> QED
        BY <4>1, <4>2, <3>2, KeysOfMembers
    <3> QED
      BY <3>4, <3>5
  <2>2. Class(e) \in KeysOf(u)
    <3>1. 1 \in 1 .. Len(u[c]) /\ Class(u[c][1]) = Class(e)
      BY <1>1, <1>5
    <3> QED
      BY <2>0, <3>1
  <2>3. ASSUME NEW k \in KeysOf(t)
        PROVE  k \in KeysOf(u)
    <3>1. PICK d \in 0 .. n - 1 : \E p \in 1 .. Len(t[d]) : Class(t[d][p]) = k
      BY KeysOfMembers
    <3>2. PICK p \in 1 .. Len(t[d]) : Class(t[d][p]) = k
      BY <3>1
    <3>3. CASE d = c
      <4>1. p + 1 \in 1 .. Len(u[c]) /\ u[c][p + 1] = t[c][p]
        BY <1>1, <1>5, <3>3
      <4> QED
        BY <4>1, <3>2, <3>3, <2>0
    <3>4. CASE d # c
      BY <3>2, <3>4, <1>4, <2>0
    <3> QED
      BY <3>3, <3>4
  <2> QED
    BY <2>1, <2>2, <2>3
<1> QED
  BY <1>3, <1>8, <1>9, <1>10

(* Cutting one entry out of a chain, the head or another, removes its key. *)
LEMMA CutKey ==
  ASSUME NEW n \in Nat, NEW t \in Table(n), NEW c \in 0 .. n - 1,
         NEW p \in 1 .. Len(t[c]), DistinctIn(t), NEW s, IsCut(s, t[c], p),
         NEW u, u = WithChain(t, c, s)
  PROVE  /\ u \in Table(n)
         /\ DistinctIn(u)
         /\ PlacedIn(t, n) => PlacedIn(u, n)
         /\ KeysOf(u) = KeysOf(t) \ {Class(t[c][p])}
         /\ Class(t[c][p]) \in KeysOf(t)
<1> DEFINE From(d, q) == IF d = c /\ q >= p THEN q + 1 ELSE q
<1>1. \A d \in 0 .. n - 1 : t[d] \in Seq(Entry) /\ DOMAIN t[d] = 1 .. Len(t[d])
                            /\ Len(t[d]) \in Nat
  BY LenProperties DEF Table
<1>2. u \in Table(n) /\ DOMAIN u = 0 .. n - 1 /\ DOMAIN t = 0 .. n - 1
  BY DEF Table, WithChain, IsCut
<1>3. /\ \A d \in 0 .. n - 1 : d # c => u[d] = t[d]
      /\ u[c] = s
      /\ DOMAIN s = 1 .. Len(t[c]) - 1
      /\ Len(s) = Len(t[c]) - 1
      /\ \A q \in 1 .. Len(t[c]) - 1 : s[q] = IF q < p THEN t[c][q]
                                              ELSE t[c][q + 1]
  BY LenProperties DEF Table, WithChain, IsCut
<1>4. \A d \in 0 .. n - 1 : \A q \in DOMAIN u[d] :
        /\ q \in Int
        /\ From(d, q) \in DOMAIN t[d]
        /\ u[d][q] = t[d][From(d, q)]
        /\ ~ (d = c /\ From(d, q) = p)
  <2> TAKE d \in 0 .. n - 1
  <2> TAKE q \in DOMAIN u[d]
  <2>1. CASE d # c
    BY <2>1, <1>1, <1>3
  <2>2. CASE d = c
    <3>1. q \in 1 .. Len(t[c]) - 1
      BY <2>2, <1>3
    <3> QED
      BY <3>1, <2>2, <1>1, <1>3
  <2> QED
    BY <2>1, <2>2
<1>5. \A d \in 0 .. n - 1 : \A q1, q2 \in Int :
        From(d, q1) = From(d, q2) => q1 = q2
  OBVIOUS
<1>6. \A a, b \in 0 .. n - 1 : \A q1 \in DOMAIN t[a], q2 \in DOMAIN t[b] :
        Class(t[a][q1]) = Class(t[b][q2]) => a = b /\ q1 = q2
  BY <1>2 DEF DistinctIn
<1> HIDE DEF From
<1>7. DistinctIn(u)
  <2> SUFFICES ASSUME NEW d1 \in 0 .. n - 1, NEW d2 \in 0 .. n - 1,
                      NEW q1 \in DOMAIN u[d1], NEW q2 \in DOMAIN u[d2],
                      Class(u[d1][q1]) = Class(u[d2][q2])
               PROVE  d1 = d2 /\ q1 = q2
    BY <1>2 DEF DistinctIn
  <2>1. d1 = d2 /\ From(d1, q1) = From(d2, q2)
    BY <1>4, <1>6
  <2> QED
    BY <2>1, <1>4, <1>5
<1>8. PlacedIn(t, n) => PlacedIn(u, n)
  BY <1>2, <1>4 DEF PlacedIn
<1>9. Class(t[c][p]) \in KeysOf(t)
  BY KeysOfMembers
<1>0. \A k : k \in KeysOf(u) <=>
        \E d \in 0 .. n - 1 : \E q \in 1 .. Len(u[d]) : Class(u[d][q]) = k
  BY <1>2, KeysOfMembers
<1>10. ASSUME NEW k \in KeysOf(u)
       PROVE  k \in KeysOf(t) \ {Class(t[c][p])}
  <2>1. PICK d \in 0 .. n - 1 : \E q \in 1 .. Len(u[d]) : Class(u[d][q]) = k
    BY <1>0
  <2>2. PICK q \in 1 .. Len(u[d]) : Class(u[d][q]) = k
    BY <2>1
  <2>3. q \in DOMAIN u[d]
    BY <1>2, LenProperties DEF Table
  <2>4. /\ From(d, q) \in 1 .. Len(t[d])
        /\ Class(t[d][From(d, q)]) = k
        /\ ~ (d = c /\ From(d, q) = p)
    BY <2>2, <2>3, <1>1, <1>4
  <2>5. k # Class(t[c][p])
    BY <2>4, <1>1, <1>6
  <2> QED
    BY <2>4, <2>5, KeysOfMembers
<1>11. ASSUME NEW k \in KeysOf(t), k # Class(t[c][p])
       PROVE  k \in KeysOf(u)
  <2>1. PICK d \in 0 .. n - 1 : \E q \in 1 .. Len(t[d]) : Class(t[d][q]) = k
    BY KeysOfMembers
  <2>2. PICK q \in 1 .. Len(t[d]) : Class(t[d][q]) = k
    BY <2>1
  <2>3. CASE d # c
    BY <2>2, <2>3, <1>0, <1>3
  <2>4. CASE d = c /\ q < p
    <3>1. q \in 1 .. Len(u[c]) /\ u[c][q] = t[c][q]
      BY <2>4, <1>1, <1>3
    <3> QED
      BY <3>1, <2>2, <2>4, <1>0
  <2>5. CASE d = c /\ q > p
    <3>1. q - 1 \in 1 .. Len(u[c]) /\ u[c][q - 1] = t[c][q]
      BY <2>5, <1>1, <1>3
    <3> QED
      BY <3>1, <2>2, <2>5, <1>0
  <2> QED
    BY <2>2, <2>3, <2>4, <2>5, <1>11, <1>1
<1> QED
  BY <1>2, <1>7, <1>8, <1>9, <1>10, <1>11

(* Replacing an entry by an equal one changes no key. *)
LEMMA ReplaceKey ==
  ASSUME NEW n \in Nat, NEW t \in Table(n), NEW c \in 0 .. n - 1,
         NEW p \in 1 .. Len(t[c]), NEW e \in Entry, Class(e) = Class(t[c][p]),
         DistinctIn(t), PlacedIn(t, n), NEW u, u = WithEntry(t, c, p, e)
  PROVE  /\ u \in Table(n)
         /\ DistinctIn(u)
         /\ PlacedIn(u, n)
         /\ KeysOf(u) = KeysOf(t)
<1>1. \A d \in 0 .. n - 1 : t[d] \in Seq(Entry) /\ DOMAIN t[d] = 1 .. Len(t[d])
  BY LenProperties DEF Table
<1>2. /\ [t[c] EXCEPT ![p] = e] \in Seq(Entry)
      /\ Len([t[c] EXCEPT ![p] = e]) = Len(t[c])
  BY <1>1, ExceptSeq
<1>3. u \in Table(n) /\ DOMAIN u = 0 .. n - 1 /\ DOMAIN t = 0 .. n - 1
  BY <1>2 DEF Table, WithEntry
<1>4. \A d \in 0 .. n - 1 :
        /\ DOMAIN u[d] = DOMAIN t[d]
        /\ Len(u[d]) = Len(t[d])
        /\ \A q \in DOMAIN t[d] :
             u[d][q] = IF d = c /\ q = p THEN e ELSE t[d][q]
  BY <1>1, <1>2, <1>3 DEF Table, WithEntry
<1>5. \A d \in 0 .. n - 1 : \A q \in DOMAIN t[d] :
        Class(u[d][q]) = Class(t[d][q])
  BY <1>4
<1>6. DistinctIn(u)
  BY <1>3, <1>4, <1>5 DEF DistinctIn
<1>7. PlacedIn(u, n)
  BY <1>3, <1>4, <1>5 DEF PlacedIn
<1>8. \A k : k \in KeysOf(u) <=> k \in KeysOf(t)
  <2> TAKE k
  <2>1. \A d \in 0 .. n - 1 : \A q \in 1 .. Len(t[d]) :
          Class(u[d][q]) = Class(t[d][q])
    BY <1>1, <1>5
  <2>2. \A d \in 0 .. n - 1 : 1 .. Len(u[d]) = 1 .. Len(t[d])
    BY <1>4
  <2>3. (\E d \in 0 .. n - 1 : \E q \in 1 .. Len(u[d]) : Class(u[d][q]) = k)
        <=> \E d \in 0 .. n - 1 : \E q \in 1 .. Len(t[d]) : Class(t[d][q]) = k
    BY <2>1, <2>2, ZenonT(40)
  <2>4. k \in KeysOf(u) <=>
          \E d \in 0 .. n - 1 : \E q \in 1 .. Len(u[d]) : Class(u[d][q]) = k
    BY <1>3, KeysOfMembers
  <2>5. k \in KeysOf(t) <=>
          \E d \in 0 .. n - 1 : \E q \in 1 .. Len(t[d]) : Class(t[d][q]) = k
    BY KeysOfMembers
  <2> QED
    BY <2>3, <2>4, <2>5
<1> QED
  BY <1>3, <1>6, <1>7, <1>8

(* The walk of the chain a key hashes to decides whether it is stored. *)
LEMMA FindDecides ==
  ASSUME NEW n \in Nat, n > 0, NEW t \in Table(n), PlacedIn(t, n),
         NEW k \in Key, NEW c, c = Index(k, n)
  PROVE  /\ c \in 0 .. n - 1
         /\ t[c] \in Seq(Entry)
         /\ Find(t[c], k) = 0 => k \notin KeysOf(t)
         /\ Find(t[c], k) # 0 => /\ Find(t[c], k) \in 1 .. Len(t[c])
                                 /\ Class(t[c][Find(t[c], k)]) = k
                                 /\ k \in KeysOf(t)
<1>1. c \in 0 .. n - 1
  BY IndexInTable
<1>2. \A d \in 0 .. n - 1 : t[d] \in Seq(Entry) /\ DOMAIN t[d] = 1 .. Len(t[d])
                            /\ Len(t[d]) \in Nat
  BY LenProperties DEF Table
<1>3. ASSUME Find(t[c], k) = 0, k \in KeysOf(t)
      PROVE  FALSE
  <2>1. Matches(t[c], k) = {}
    <3> SUFFICES ASSUME Matches(t[c], k) # {}
                 PROVE  FALSE
      OBVIOUS
    <3>1. Find(t[c], k) \in Matches(t[c], k)
      BY DEF Find
    <3> QED
      BY <3>1, <1>1, <1>2, <1>3 DEF Matches
  <2>2. PICK d \in 0 .. n - 1 : \E p \in 1 .. Len(t[d]) : Class(t[d][p]) = k
    BY <1>3, KeysOfMembers
  <2>3. PICK p \in 1 .. Len(t[d]) : Class(t[d][p]) = k
    BY <2>2
  <2>4. d = c
    BY <2>3, <1>2 DEF PlacedIn, Table
  <2> QED
    BY <2>1, <2>3, <2>4, <1>2 DEF Matches
<1>4. ASSUME Find(t[c], k) # 0
      PROVE  /\ Find(t[c], k) \in 1 .. Len(t[c])
             /\ Class(t[c][Find(t[c], k)]) = k
             /\ k \in KeysOf(t)
  <2>1. Find(t[c], k) \in Matches(t[c], k)
    BY <1>4 DEF Find
  <2>2. /\ Find(t[c], k) \in 1 .. Len(t[c])
        /\ Class(t[c][Find(t[c], k)]) = k
    BY <2>1, <1>1, <1>2 DEF Matches
  <2> QED
    BY <2>2, <1>1, KeysOfMembers
<1> QED
  BY <1>1, <1>2, <1>3, <1>4

LEMMA EmptyTableKeys ==
  ASSUME NEW n \in Nat
  PROVE  /\ EmptyTable(n) \in Table(n)
         /\ DistinctIn(EmptyTable(n))
         /\ PlacedIn(EmptyTable(n), n)
         /\ KeysOf(EmptyTable(n)) = {}
<1>1. EmptyTable(n) \in Table(n)
  BY EmptySeq DEF EmptyTable, Table
<1>2. DOMAIN EmptyTable(n) = 0 .. n - 1
  BY DEF EmptyTable
<1>3. \A c \in 0 .. n - 1 : /\ DOMAIN EmptyTable(n)[c] = {}
                            /\ 1 .. Len(EmptyTable(n)[c]) = {}
  BY DEF EmptyTable
<1>4. \A k : k \notin KeysOf(EmptyTable(n))
  BY <1>1, <1>3, KeysOfMembers
<1> QED
  BY <1>1, <1>2, <1>3, <1>4 DEF DistinctIn, PlacedIn

LEMMA NoTableKeys ==
  /\ NoTable = EmptyTable(0)
  /\ NoTable \in Table(0)
  /\ DistinctIn(NoTable)
  /\ PlacedIn(NoTable, 0)
  /\ KeysOf(NoTable) = {}
<1>1. NoTable = EmptyTable(0)
  BY DEF NoTable, EmptyTable
<1> QED
  BY <1>1, EmptyTableKeys

-----------------------------------------------------------------------------
(* The inductive invariant.  Between the calls the old table is empty;     *)
(* while entries move, the two tables hold distinct keys, so that the      *)
(* number of keys stored, which entries counts, does not change.           *)

Control ==
  /\ pc = "none" => table_size = 0 /\ entries = 0
  /\ pc # "none" => table_size > 0
  /\ pc # "rehash" => old_size = 0
  /\ pc \in {"rehash", "place"} => arg \in Entry
  /\ \A c \in 0 .. old_size - 1 : c < i => old_table[c] = <<>>
  /\ iter.next_entry # NULL => pc = "idle" /\ iter.next_chain < table_size

TwoTables ==
  /\ DistinctIn(table)
  /\ DistinctIn(old_table)
  /\ PlacedIn(table, table_size)
  /\ KeysOf(table) \cap KeysOf(old_table) = {}
  /\ entries = Cardinality(KeysOf(table) \cup KeysOf(old_table))

IInv == TypeOK /\ Control /\ TwoTables

LEMMA StoredKeysAreTwo ==
  StoredKeys = KeysOf(table) \cup KeysOf(old_table)
BY DEF StoredKeys, Stored, KeysOf

LEMMA TypeTables ==
  ASSUME TypeOK
  PROVE  /\ table \in Table(table_size) /\ table_size \in Nat
         /\ old_table \in Table(old_size) /\ old_size \in Nat
BY DEF TypeOK, Table

LEMMA FiniteKeys ==
  ASSUME TypeOK
  PROVE  /\ IsFiniteSet(KeysOf(table) \cup KeysOf(old_table))
         /\ KeysOf(table) \cup KeysOf(old_table) \subseteq Key
<1>1. KeysOf(table) \cup KeysOf(old_table) \subseteq Key
  BY TypeTables, KeysAreKeys
<1> QED
  BY <1>1, KeyAssumption, FS_Subset

LEMMA NewSizePositive ==
  ASSUME NEW index \in Nat, entries \in Nat, index < Len(Primes) \/ entries > 0
  PROVE  NewTableSize(index) \in Nat /\ NewTableSize(index) > 0
<1>1. Len(Primes) \in Nat
  BY PrimesAssumption
<1>2. CASE index < Len(Primes)
  <2>1. index + 1 \in 1 .. Len(Primes)
    BY <1>1, <1>2
  <2>2. Primes[index + 1] \in Nat \ {0}
    BY <2>1, PrimesAssumption, ElementOfSeq
  <2> QED
    BY <2>2, <1>2 DEF NewTableSize
<1>3. CASE ~ (index < Len(Primes))
  BY <1>3 DEF NewTableSize
<1> QED
  BY <1>2, <1>3

LEMMA InitInv == Init => IInv
<1> SUFFICES ASSUME Init
             PROVE  IInv
  OBVIOUS
<1> USE DEF Init
<1>1. TypeOK
  <2>1. table \in [0 .. table_size - 1 -> Seq(Entry)]
    BY NoTableKeys DEF Table
  <2>2. old_table \in [0 .. old_size - 1 -> Seq(Entry)]
    BY NoTableKeys DEF Table
  <2> QED
    BY <2>1, <2>2 DEF TypeOK, NoIterator
<1>2. Control
  BY DEF Control, NoIterator
<1>3. TwoTables
  BY NoTableKeys, FS_EmptySet DEF TwoTables
<1> QED
  BY <1>1, <1>2, <1>3 DEF IInv

LEMMA NewInv == ASSUME IInv, New PROVE IInv'
<1> USE DEF New
<1>1. NewTableSize(0) \in Nat /\ NewTableSize(0) > 0
  BY NewSizePositive, PrimesAssumption DEF IInv, TypeOK
<1>2. /\ table' \in Table(table_size')
      /\ DistinctIn(table') /\ PlacedIn(table', table_size')
      /\ KeysOf(table') = {}
  BY <1>1, EmptyTableKeys
<1>3. old_table' \in Table(old_size') /\ KeysOf(old_table') = {}
  <2>1. old_table = NoTable
    BY DEF IInv, TypeOK, Control, NoTable
  <2> QED
    BY <2>1, NoTableKeys DEF loop, IInv, TypeOK, Table
<1>4. TypeOK'
  BY <1>1, <1>2, <1>3 DEF IInv, TypeOK, Table, loop
<1>5. Control'
  BY <1>1 DEF IInv, TypeOK, Control, loop
<1>6. TwoTables'
  BY <1>2, <1>3, FS_EmptySet DEF IInv, TwoTables, loop
<1> QED
  BY <1>4, <1>5, <1>6 DEF IInv

LEMMA RegisterInv == ASSUME IInv, RegisterFreeFunctions PROVE IInv'
<1> USE DEF RegisterFreeFunctions, contents, loop
<1>1. TypeOK'
  BY DEF IInv, TypeOK
<1>2. Control'
  BY DEF IInv, Control
<1>3. TwoTables'
  BY DEF IInv, TwoTables
<1> QED
  BY <1>1, <1>2, <1>3 DEF IInv

LEMMA StoredObjectsType ==
  ASSUME TypeOK
  PROVE  StoredObjects \in SUBSET (KeyObj \cup ValObj)
<1> SUFFICES ASSUME NEW e \in Stored
             PROVE  e \in Entry
  BY DEF StoredObjects, Entry
<1>1. \A n \in Nat : \A t \in Table(n) : \A f \in StoredIn(t) : f \in Entry
  BY ElementOfSeq, LenProperties DEF StoredIn, Table, ToSet
<1> QED
  BY <1>1, TypeTables DEF Stored

LEMMA FreeInv == ASSUME IInv, Free PROVE IInv'
<1> USE DEF Free, loop
<1>1. /\ table' \in Table(table_size')
      /\ DistinctIn(table') /\ PlacedIn(table', table_size')
      /\ KeysOf(table') = {}
  BY NoTableKeys
<1>2. KeysOf(old_table') = {}
  <2>1. old_table = NoTable
    BY DEF IInv, TypeOK, Control, NoTable
  <2> QED
    BY <2>1, NoTableKeys
<1>3. live' \in SUBSET (KeyObj \cup ValObj)
  BY DEF IInv, TypeOK, Release
<1>4. TypeOK'
  BY <1>1, <1>3 DEF IInv, TypeOK, Table, NoIterator
<1>5. Control'
  BY DEF IInv, Control, NoIterator
<1>6. TwoTables'
  BY <1>1, <1>2, FS_EmptySet DEF IInv, TwoTables
<1> QED
  BY <1>4, <1>5, <1>6 DEF IInv

LEMMA TooFullHasEntries ==
  ASSUME entries \in Nat, table_size \in Nat, table_size > 0, TooFull
  PROVE  entries > 0
BY DEF TooFull

LEMMA InsertInv ==
  ASSUME IInv, NEW k \in KeyObj, NEW v \in ValObj, Insert(k, v)
  PROVE  IInv'
<1> USE DEF Insert, loop
<1>1. [key |-> k, value |-> v] \in Entry
  BY DEF Entry
<1>2. CASE TooFull /\ Enlarge /\ arg' = [key |-> k, value |-> v]
  <2> USE <1>2 DEF Enlarge
  <2>1. table_size' \in Nat /\ table_size' > 0
    BY TooFullHasEntries, NewSizePositive DEF IInv, TypeOK, Control
  <2>2. /\ table' \in Table(table_size')
        /\ DistinctIn(table') /\ PlacedIn(table', table_size')
        /\ KeysOf(table') = {}
    BY <2>1, EmptyTableKeys
  <2>3. old_table' \in Table(old_size') /\ old_size' \in Nat
    BY TypeTables DEF IInv
  <2>4. TypeOK'
    BY <1>1, <2>1, <2>2, <2>3 DEF IInv, TypeOK, Table, NoIterator
  <2>5. Control'
    BY <1>1, <2>1 DEF IInv, Control, NoIterator
  <2>6. KeysOf(old_table) = {}
    <3>1. old_table = NoTable
      BY DEF IInv, TypeOK, Control, NoTable
    <3> QED
      BY <3>1, NoTableKeys
  <2>7. TwoTables'
    BY <2>2, <2>6 DEF IInv, TwoTables
  <2> QED
    BY <2>4, <2>5, <2>7 DEF IInv
<1>3. CASE TooFull /\ EnlargeFails /\ arg' = NoArg
  <2> USE <1>3 DEF EnlargeFails, PutBack
  <2>1. TypeOK'
    BY DEF IInv, TypeOK, NoIterator
  <2>2. Control'
    BY DEF IInv, Control, NoIterator
  <2>3. TwoTables'
    BY DEF IInv, TwoTables
  <2> QED
    BY <2>1, <2>2, <2>3 DEF IInv
<1>4. CASE /\ ~TooFull
           /\ pc' = "place"
           /\ arg' = [key |-> k, value |-> v]
           /\ UNCHANGED <<table, table_size, prime_index, loop, result>>
  <2> USE <1>4
  <2>1. TypeOK'
    BY <1>1 DEF IInv, TypeOK, NoIterator
  <2>2. Control'
    BY <1>1 DEF IInv, Control, NoIterator
  <2>3. TwoTables'
    BY DEF IInv, TwoTables
  <2> QED
    BY <2>1, <2>2, <2>3 DEF IInv
<1> QED
  BY <1>2, <1>3, <1>4

LEMMA MoveEntryInv == ASSUME IInv, MoveEntry PROVE IInv'
<1> DEFINE rover == Head(old_table[i])
           k == Class(rover)
           index == Index(k, table_size)
<1>1. /\ table \in Table(table_size) /\ table_size \in Nat /\ table_size > 0
      /\ old_table \in Table(old_size) /\ old_size \in Nat
      /\ i \in 0 .. old_size - 1 /\ old_table[i] # <<>>
  BY TypeTables DEF IInv, TypeOK, Control, MoveEntry
<1>2. old_table[i] \in Seq(Entry)
  BY <1>1 DEF Table
<1>3. /\ rover \in Entry
      /\ rover = old_table[i][1]
      /\ 1 \in 1 .. Len(old_table[i])
      /\ IsCut(Tail(old_table[i]), old_table[i], 1)
  BY <1>1, <1>2, HeadTailProperties DEF IsCut
<1>4. k \in Key /\ index \in 0 .. table_size - 1
  BY <1>1, <1>3, KeyOfEntry, IndexInTable
<1>5. /\ old_table' = [old_table EXCEPT ![i] = Tail(old_table[i])]
      /\ table' = [table EXCEPT ![index] = <<rover>> \o table[index]]
  BY <1>1 DEF MoveEntry, Rest, NewIndex, Table
<1> HIDE DEF rover, index
<1>6. /\ old_table' \in Table(old_size)
      /\ DistinctIn(old_table')
      /\ KeysOf(old_table') = KeysOf(old_table) \ {k}
      /\ k \in KeysOf(old_table)
  <2>1. old_table' = WithChain(old_table, i, Tail(old_table[i]))
    BY <1>5 DEF WithChain
  <2>2. DistinctIn(old_table)
    BY DEF IInv, TwoTables
  <2>3. /\ old_table' \in Table(old_size)
        /\ DistinctIn(old_table')
        /\ KeysOf(old_table') = KeysOf(old_table) \ {Class(old_table[i][1])}
        /\ Class(old_table[i][1]) \in KeysOf(old_table)
    BY <1>1, <1>3, <2>1, <2>2, CutKey
  <2> QED
    BY <1>3, <2>3
<1>7. k \notin KeysOf(table)
  BY <1>6 DEF IInv, TwoTables
<1>8. Index(Class(rover), table_size) = index
  BY DEF index
<1>9. /\ table' \in Table(table_size)
      /\ DistinctIn(table')
      /\ PlacedIn(table', table_size)
      /\ KeysOf(table') = KeysOf(table) \cup {k}
  <2>1. DistinctIn(table) /\ PlacedIn(table, table_size)
    BY DEF IInv, TwoTables
  <2>2. table' = WithChain(table, index, <<rover>> \o table[index])
    BY <1>5 DEF WithChain
  <2> QED
    BY <1>1, <1>3, <1>4, <1>7, <1>8, <2>1, <2>2, PushKey
<1> HIDE DEF k
<1>10. TypeOK'
  BY <1>6, <1>9 DEF IInv, TypeOK, MoveEntry, Table
<1>11. Control'
  <2>1. \A c \in 0 .. old_size - 1 : c < i => old_table'[c] = old_table[c]
    BY <1>1, <1>5 DEF Table
  <2> QED
    BY <2>1 DEF IInv, Control, MoveEntry
<1>12. TwoTables'
  <2>1. KeysOf(table') \cup KeysOf(old_table')
        = KeysOf(table) \cup KeysOf(old_table)
    BY <1>6, <1>9
  <2> QED
    BY <2>1, <1>6, <1>7, <1>9 DEF IInv, TwoTables, MoveEntry
<1> QED
  BY <1>10, <1>11, <1>12 DEF IInv

LEMMA NextOldChainInv == ASSUME IInv, NextOldChain PROVE IInv'
<1> USE DEF NextOldChain, contents
<1>1. TypeOK'
  BY DEF IInv, TypeOK, Advance
<1>2. Control'
  <2>1. \A c \in 0 .. old_size - 1 : c < i + 1 => c < i \/ c = i
    BY DEF IInv, TypeOK
  <2> QED
    BY <2>1 DEF IInv, Control, Advance
<1>3. TwoTables'
  BY DEF IInv, TwoTables
<1> QED
  BY <1>1, <1>2, <1>3 DEF IInv

LEMMA EndRehashInv == ASSUME IInv, EndRehash PROVE IInv'
<1> USE DEF EndRehash, contents
<1>1. old_table' \in Table(old_size') /\ DistinctIn(old_table')
      /\ KeysOf(old_table') = {}
  BY NoTableKeys
<1>2. KeysOf(old_table) = {}
  <2>1. \A c \in 0 .. old_size - 1 : 1 .. Len(old_table[c]) = {}
    BY DEF IInv, TypeOK, Control
  <2> QED
    BY <2>1, TypeTables, KeysOfMembers DEF IInv
<1>3. TypeOK'
  BY <1>1 DEF IInv, TypeOK, Table
<1>4. Control'
  BY DEF IInv, Control
<1>5. TwoTables'
  BY <1>1, <1>2 DEF IInv, TwoTables
<1> QED
  BY <1>3, <1>4, <1>5 DEF IInv

LEMMA CountAdd ==
  ASSUME NEW S, IsFiniteSet(S), NEW x, x \notin S
  PROVE  Cardinality(S \cup {x}) = Cardinality(S) + 1
BY FS_AddElement

LEMMA CountRemove ==
  ASSUME NEW S, IsFiniteSet(S), NEW x, x \in S
  PROVE  /\ Cardinality(S \ {x}) = Cardinality(S) - 1
         /\ Cardinality(S) - 1 \in Nat
<1>1. /\ IsFiniteSet(S \ {x})
      /\ Cardinality(S \ {x}) = Cardinality(S) - 1
  BY FS_RemoveElement
<1> QED
  BY <1>1, FS_CardinalityType

LEMMA PlaceInv == ASSUME IInv, Place PROVE IInv'
<1> DEFINE k == ClassOf[arg.key]
           index == Index(k, table_size)
           p == Find(table[index], k)
<1>1. /\ table \in Table(table_size) /\ table_size \in Nat /\ table_size > 0
      /\ DistinctIn(table) /\ PlacedIn(table, table_size)
      /\ arg \in Entry /\ k = Class(arg) /\ entries \in Nat
  BY TypeTables DEF IInv, TypeOK, Control, TwoTables, Place, Class
<1>2. k \in Key
  BY <1>1, KeyOfEntry
<1> HIDE DEF k
<1>3. /\ index \in 0 .. table_size - 1
      /\ table[index] \in Seq(Entry)
      /\ p = 0 => k \notin KeysOf(table)
      /\ p # 0 => p \in 1 .. Len(table[index]) /\ Class(table[index][p]) = k
  BY <1>1, <1>2, FindDecides
<1>4. KeysOf(old_table) = {}
  <2>1. old_table = NoTable
    BY DEF IInv, TypeOK, Control, NoTable, Place
  <2> QED
    BY <2>1, NoTableKeys
<1>5. \/ p # 0 /\ Overwrite(index, p)
      \/ p = 0 /\ AddEntry(index)
      \/ p = 0 /\ AddEntryFails
  BY DEF Place, k
<1>6. /\ pc' = "idle" /\ arg' = NoArg
      /\ UNCHANGED <<table_size, prime_index, loop, free_funcs, iter>>
  BY DEF Place
<1>7. entries' \in Nat /\ result' \in {0, 1}
  BY <1>1, <1>5 DEF Overwrite, AddEntry, AddEntryFails
<1>8. live' \in SUBSET (KeyObj \cup ValObj)
  <2>1. arg.key \in KeyObj /\ arg.value \in ValObj
    BY <1>1 DEF Entry
  <2> QED
    BY <1>5, <2>1 DEF IInv, TypeOK, Overwrite, AddEntry, AddEntryFails, Acquire,
                      Release
<1> HIDE DEF index, p
<1>9. /\ table' \in Table(table_size)
      /\ DistinctIn(table') /\ PlacedIn(table', table_size)
      /\ entries' = Cardinality(KeysOf(table'))
  <2>1. CASE p # 0 /\ Overwrite(index, p)
    <3>1. table' = WithEntry(table, index, p, arg)
      BY <2>1 DEF Overwrite, Overwritten, WithEntry
    <3>2. /\ table' \in Table(table_size)
          /\ DistinctIn(table') /\ PlacedIn(table', table_size)
          /\ KeysOf(table') = KeysOf(table)
      BY <1>1, <1>3, <2>1, <3>1, ReplaceKey
    <3> QED
      BY <2>1, <3>2, <1>4 DEF Overwrite, IInv, TwoTables
  <2>2. CASE p = 0 /\ AddEntry(index)
    <3>1. table' = WithChain(table, index, <<arg>> \o table[index])
      BY <2>2 DEF AddEntry, WithChain
    <3>2. Index(Class(arg), table_size) = index /\ Class(arg) \notin KeysOf(table)
      BY <1>1, <1>3, <2>2 DEF index
    <3>3. /\ table' \in Table(table_size)
          /\ DistinctIn(table') /\ PlacedIn(table', table_size)
          /\ KeysOf(table') = KeysOf(table) \cup {Class(arg)}
      BY <1>1, <1>3, <3>1, <3>2, PushKey
    <3>4. entries = Cardinality(KeysOf(table)) /\ IsFiniteSet(KeysOf(table))
      BY <1>4, FiniteKeys DEF IInv, TwoTables
    <3>5. Cardinality(KeysOf(table')) = Cardinality(KeysOf(table)) + 1
      BY <3>2, <3>3, <3>4, CountAdd
    <3> QED
      BY <2>2, <3>3, <3>4, <3>5 DEF AddEntry
  <2>3. CASE p = 0 /\ AddEntryFails
    BY <2>3, <1>1, <1>4 DEF AddEntryFails, IInv, TwoTables
  <2> QED
    BY <1>5, <2>1, <2>2, <2>3
<1>10. TypeOK'
  BY <1>6, <1>7, <1>8, <1>9 DEF IInv, TypeOK, Table, loop
<1>11. Control'
  BY <1>6 DEF IInv, Control, Place, loop
<1>12. TwoTables'
  BY <1>4, <1>6, <1>9 DEF IInv, TwoTables, loop
<1> QED
  BY <1>10, <1>11, <1>12 DEF IInv

LEMMA RemoveKeyInv == ASSUME IInv, NEW k \in Key, RemoveKey(k) PROVE IInv'
<1> DEFINE index == Index(k, table_size)
           p == Find(table[index], k)
<1>1. /\ table \in Table(table_size) /\ table_size \in Nat /\ table_size > 0
      /\ DistinctIn(table) /\ PlacedIn(table, table_size) /\ entries \in Nat
  BY TypeTables DEF IInv, TypeOK, Control, TwoTables, RemoveKey
<1>2. /\ index \in 0 .. table_size - 1
      /\ table[index] \in Seq(Entry)
      /\ p # 0 => p \in 1 .. Len(table[index]) /\ Class(table[index][p]) = k
  BY <1>1, FindDecides
<1>3. KeysOf(old_table) = {}
  <2>1. old_table = NoTable
    BY DEF IInv, TypeOK, Control, NoTable, RemoveKey
  <2> QED
    BY <2>1, NoTableKeys
<1>4. /\ entries' = CountAfterRemove(p)
      /\ \/ /\ p # 0
            /\ live' = Release({table[index][p].key, table[index][p].value})
            /\ table' = [table EXCEPT ![index] = RemoveAt(@, p)]
            /\ result' = 1
         \/ /\ p = 0
            /\ result' = 0
            /\ UNCHANGED <<live, table>>
  BY DEF RemoveKey
<1>5. /\ pc = "idle"
      /\ UNCHANGED <<pc, table_size, prime_index, loop, arg, free_funcs, iter>>
  BY DEF RemoveKey
<1>6. live' \in SUBSET (KeyObj \cup ValObj) /\ result' \in {0, 1}
  BY <1>4 DEF IInv, TypeOK, Release
<1> HIDE DEF index, p
<1>7. /\ table' \in Table(table_size)
      /\ DistinctIn(table') /\ PlacedIn(table', table_size)
      /\ entries' = Cardinality(KeysOf(table')) /\ entries' \in Nat
  <2>1. entries = Cardinality(KeysOf(table)) /\ IsFiniteSet(KeysOf(table))
    BY <1>3, FiniteKeys DEF IInv, TwoTables
  <2>2. CASE p # 0
    <3>1. table' = WithChain(table, index, RemoveAt(table[index], p))
      BY <2>2, <1>4 DEF WithChain
    <3>2. IsCut(RemoveAt(table[index], p), table[index], p)
      BY <1>2, <2>2, RemoveAtElements DEF IsCut
    <3>3. /\ table' \in Table(table_size)
          /\ DistinctIn(table')
          /\ PlacedIn(table', table_size)
          /\ KeysOf(table') = KeysOf(table) \ {k}
          /\ k \in KeysOf(table)
      BY <1>1, <1>2, <2>2, <3>1, <3>2, CutKey
    <3>4. /\ Cardinality(KeysOf(table')) = Cardinality(KeysOf(table)) - 1
          /\ Cardinality(KeysOf(table)) - 1 \in Nat
      BY <2>1, <3>3, CountRemove
    <3> QED
      BY <1>4, <2>1, <2>2, <3>3, <3>4 DEF CountAfterRemove
  <2>3. CASE p = 0
    BY <1>1, <1>4, <2>1, <2>3 DEF CountAfterRemove
  <2> QED
    BY <2>2, <2>3
<1>8. TypeOK'
  BY <1>5, <1>6, <1>7 DEF IInv, TypeOK, Table, loop
<1>9. Control'
  BY <1>5 DEF IInv, Control, loop
<1>10. TwoTables'
  BY <1>3, <1>5, <1>7 DEF IInv, TwoTables, loop
<1> QED
  BY <1>8, <1>9, <1>10 DEF IInv

LEMMA LeastExists ==
  ASSUME NEW S \in SUBSET Nat, S # {}
  PROVE  \E m \in S : \A n \in S : m <= n
<1>1. PICK m \in S : \A n \in S : ~ (<<n, m>> \in OpToRel(<, Nat))
  BY NatLessThanWellFounded, WFMin
<1>2. \A n \in S : ~ (n < m)
  BY <1>1 DEF OpToRel
<1> QED
  BY <1>2

(* Where the iterator goes: a non-empty chain, or the end of the table. *)
LEMMA NextChainInTable ==
  ASSUME TypeOK, NEW c \in Nat
  PROVE  /\ NextChain(c) \in Nat
         /\ FirstOf(NextChain(c)) \in KeyObj \cup {NULL}
         /\ FirstOf(NextChain(c)) # NULL => NextChain(c) < table_size
<1> DEFINE rest == {d \in c .. table_size - 1 : table[d] # <<>>}
<1>1. table_size \in Nat
  BY DEF TypeOK
<1>2. CASE rest = {}
  <2>1. NextChain(c) = table_size
    BY <1>2 DEF NextChain
  <2> QED
    BY <2>1, <1>1 DEF FirstOf
<1>3. CASE rest # {}
  <2> HIDE DEF rest
  <2>0. rest \in SUBSET Nat
    BY <1>1 DEF rest
  <2>1. \E d \in rest : \A e \in rest : d <= e
    BY <1>3, <2>0, LeastExists
  <2>2. NextChain(c) \in rest
    BY <1>3, <2>1 DEF NextChain, rest
  <2>3. /\ NextChain(c) \in 0 .. table_size - 1
        /\ table[NextChain(c)] \in Seq(Entry) /\ table[NextChain(c)] # <<>>
    BY <1>1, <2>2 DEF TypeOK, rest
  <2>4. table[NextChain(c)][1] \in Entry
    BY <2>3, ElementOfSeq, EmptySeq
  <2> QED
    BY <1>1, <2>3, <2>4 DEF FirstOf, Entry
<1> QED
  BY <1>2, <1>3

LEMMA IterateInv == ASSUME IInv, Iterate PROVE IInv'
<1> USE DEF Iterate, contents, loop
<1>1. /\ iter' \in [active : BOOLEAN, next_entry : KeyObj \cup {NULL},
                    next_chain : Nat, returned : SUBSET Key]
      /\ iter'.next_entry # NULL => iter'.next_chain < table_size
  BY NextChainInTable DEF IInv, TypeOK, Control
<1>2. TypeOK'
  BY <1>1 DEF IInv, TypeOK
<1>3. Control'
  BY <1>1 DEF IInv, Control
<1>4. TwoTables'
  BY DEF IInv, TwoTables
<1> QED
  BY <1>2, <1>3, <1>4 DEF IInv

LEMMA IterNextInv == ASSUME IInv, IterNext PROVE IInv'
<1> DEFINE chain == table[iter.next_chain]
           k == ClassOf[iter.next_entry]
           p == Find(chain, k)
           more == p < Len(chain)
           c == NextChain(iter.next_chain + 1)
<1>1. /\ iter.next_chain \in 0 .. table_size - 1
      /\ chain \in Seq(Entry)
      /\ k \in Key
      /\ iter.next_chain + 1 \in Nat
  BY KeyAssumption DEF IInv, TypeOK, Control, IterNext
<1>2. /\ c \in Nat
      /\ FirstOf(c) \in KeyObj \cup {NULL}
      /\ FirstOf(c) # NULL => c < table_size
  BY <1>1, NextChainInTable DEF IInv
<1>3. /\ pc = "idle"
      /\ iter' = [iter EXCEPT
                    !.returned = @ \cup {k},
                    !.next_entry = IF more THEN chain[p + 1].key
                                   ELSE FirstOf(c),
                    !.next_chain = ChainOfNext(more, c)]
      /\ UNCHANGED <<pc, contents, loop, arg, result, free_funcs, live>>
  BY DEF IterNext
<1>4. p \in Nat
  BY <1>1, LenProperties DEF Find, Matches
<1>5. more => chain[p + 1] \in Entry
  BY <1>1, <1>4, ElementOfSeq, LenProperties
<1> HIDE DEF c, p, k, chain
<1>6. /\ iter' \in [active : BOOLEAN, next_entry : KeyObj \cup {NULL},
                    next_chain : Nat, returned : SUBSET Key]
      /\ iter'.next_entry # NULL => iter'.next_chain < table_size
  <2>1. iter \in [active : BOOLEAN, next_entry : KeyObj \cup {NULL},
                  next_chain : Nat, returned : SUBSET Key]
        /\ iter.next_chain < table_size
    BY DEF IInv, TypeOK, Control, IterNext
  <2>2. CASE more
    BY <1>1, <1>3, <1>5, <2>1, <2>2 DEF ChainOfNext, Entry
  <2>3. CASE ~more
    BY <1>1, <1>2, <1>3, <2>1, <2>3 DEF ChainOfNext
  <2> QED
    BY <2>2, <2>3
<1>7. TypeOK'
  BY <1>3, <1>6 DEF IInv, TypeOK, contents, loop
<1>8. Control'
  BY <1>3, <1>6 DEF IInv, Control, contents, loop
<1>9. TwoTables'
  BY <1>3 DEF IInv, TwoTables, contents, loop
<1> QED
  BY <1>7, <1>8, <1>9 DEF IInv

LEMMA NextInv == IInv /\ [Next]_vars => IInv'
<1> SUFFICES ASSUME IInv, [Next]_vars
             PROVE  IInv'
  OBVIOUS
<1>1. CASE UNCHANGED vars
  <2> USE <1>1 DEF vars, contents, loop
  <2>1. TypeOK'
    BY DEF IInv, TypeOK
  <2>2. Control'
    BY DEF IInv, Control
  <2>3. TwoTables'
    BY DEF IInv, TwoTables
  <2> QED
    BY <2>1, <2>2, <2>3 DEF IInv
<1>2. CASE InsertSteps
  BY <1>2, MoveEntryInv, NextOldChainInv, EndRehashInv, PlaceInv DEF InsertSteps
<1>3. CASE Next /\ ~InsertSteps
  BY <1>3, NewInv, RegisterInv, FreeInv, InsertInv, RemoveKeyInv, IterateInv,
     IterNextInv DEF Next
<1> QED
  BY <1>1, <1>2, <1>3

(* The state keeps its shape. *)
THEOREM TypeCorrect == Spec => []TypeOK
<1>1. IInv => TypeOK
  BY DEF IInv
<1> QED
  BY InitInv, NextInv, <1>1, PTL DEF Spec

(* At every step, inside an enlargement too, every entry hangs in the      *)
(* chain its hash selects, no chain walk can meet two equal keys, and the  *)
(* count of entries is the number of keys stored.                          *)
THEOREM TableCorrect == Spec => []WellFormed
<1>1. IInv => WellFormed
  BY StoredKeysAreTwo
  DEF IInv, TwoTables, WellFormed, Placement, Distinct, EntriesIsCount
<1> QED
  BY InitInv, NextInv, <1>1, PTL DEF Spec

LEMMA IdleStored ==
  ASSUME IInv, pc = "idle"
  PROVE  Stored = StoredIn(table) /\ StoredKeys = KeysOf(table)
<1>1. old_table = NoTable
  BY DEF IInv, TypeOK, Control, NoTable
<1>2. StoredIn(old_table) = {}
  BY <1>1 DEF NoTable, StoredIn
<1> QED
  BY <1>2 DEF Stored, StoredKeys, KeysOf

LEMMA LookupCorrect == IInv => LookupFindsAll
<1> SUFFICES ASSUME IInv, pc = "idle"
             PROVE  /\ \A e \in Stored : Lookup(Class(e)) = e.value
                    /\ \A k \in Key \ StoredKeys : Lookup(k) = NULL
  BY DEF LookupFindsAll
<1>1. /\ table \in Table(table_size) /\ table_size \in Nat /\ table_size > 0
      /\ DistinctIn(table) /\ PlacedIn(table, table_size)
  BY TypeTables DEF IInv, Control, TwoTables
<1>2. DOMAIN table = 0 .. table_size - 1
  BY DEF IInv, TypeOK
<1>3. ASSUME NEW e \in Stored
      PROVE  Lookup(Class(e)) = e.value
  <2> DEFINE k == Class(e)
             index == Index(k, table_size)
  <2>1. PICK c \in DOMAIN table : e \in ToSet(table[c])
    BY IdleStored DEF StoredIn
  <2>2. PICK p \in DOMAIN table[c] : e = table[c][p]
    BY <2>1 DEF ToSet
  <2>3. k \in Key
    <3>1. table[c] \in Seq(Entry)
      BY <2>1 DEF IInv, TypeOK
    <3> QED
      BY <2>2, <3>1, ElementOfSeq, LenProperties, KeyOfEntry
  <2>4. c = index
    BY <1>1, <2>1, <2>2 DEF PlacedIn
  <2>5. Matches(table[index], k) # {}
    BY <2>2, <2>4 DEF Matches
  <2>6. Find(table[index], k) \in Matches(table[index], k)
    BY <2>5 DEF Find
  <2>7. Find(table[index], k) = p
    BY <1>1, <2>1, <2>2, <2>4, <2>6 DEF Matches, DistinctIn
  <2>8. p # 0
    <3>1. table[c] \in Seq(Entry)
      BY <2>1 DEF IInv, TypeOK
    <3> QED
      BY <2>2, <3>1, LenProperties
  <2> QED
    BY <2>2, <2>4, <2>7, <2>8 DEF Lookup
<1>4. ASSUME NEW k \in Key \ StoredKeys
      PROVE  Lookup(k) = NULL
  <2>1. Find(table[Index(k, table_size)], k) = 0
    BY <1>1, <1>4, FindDecides, IdleStored
  <2> QED
    BY <2>1 DEF Lookup
<1> QED
  BY <1>3, <1>4

(* A lookup finds every key stored, with the value it was last stored      *)
(* with, and no other: no sequence of insertions, enlargements, failed     *)
(* allocations and removals loses an entry in a chain nobody searches.     *)
THEOREM LookupTheorem == Spec => []LookupFindsAll
BY InitInv, NextInv, LookupCorrect, PTL DEF Spec

-----------------------------------------------------------------------------
(* The load factor.  While an insertion is under way the table has room    *)
(* for one more entry.                                                     *)
LoadInv ==
  /\ LoadBound
  /\ pc \in {"rehash", "place"} => entries * 3 < table_size
  /\ SizeMatchesPrime

LEMMA EnlargedIsLarger ==
  ASSUME IInv, LoadInv, pc = "idle", TooFull
  PROVE  /\ entries * 3 < NewTableSize(prime_index + 1)
         /\ prime_index + 1 < Len(Primes)
              => NewTableSize(prime_index + 1) = Primes[prime_index + 2]
<1>1. /\ entries \in Nat /\ entries > 0
      /\ table_size \in Nat
      /\ prime_index \in Nat
  BY TooFullHasEntries DEF IInv, TypeOK, Control
<1>2. (entries - 1) * 3 < table_size
  BY <1>1 DEF LoadInv, LoadBound
<1>3. Len(Primes) \in Nat
  BY PrimesAssumption
<1>4. CASE prime_index + 1 < Len(Primes)
  <2>1. prime_index + 1 \in 1 .. Len(Primes) - 1
    BY <1>1, <1>3, <1>4
  <2>2. Primes[(prime_index + 1) + 1] >= Primes[prime_index + 1] + 3
    BY <2>1, PrimesAssumption
  <2>3. table_size = Primes[prime_index + 1]
    BY <1>1, <1>3, <1>4 DEF LoadInv, SizeMatchesPrime
  <2>4. NewTableSize(prime_index + 1) = Primes[(prime_index + 1) + 1]
    BY <1>4 DEF NewTableSize
  <2>5. (prime_index + 1) + 1 = prime_index + 2
    BY <1>1
  <2>6. Primes[(prime_index + 1) + 1] \in Nat
    BY <2>1, <1>3, PrimesAssumption, ElementOfSeq
  <2>7. entries * 3 < table_size + 3
    BY <1>1, <1>2
  <2>8. entries * 3 < Primes[(prime_index + 1) + 1]
    BY <1>1, <2>2, <2>3, <2>6, <2>7
  <2> QED
    BY <2>4, <2>5, <2>8
<1>5. CASE ~ (prime_index + 1 < Len(Primes))
  BY <1>1, <1>5 DEF NewTableSize
<1> QED
  BY <1>4, <1>5

LEMMA LoadInductive == IInv /\ LoadInv /\ [Next]_vars => LoadInv'
<1> SUFFICES ASSUME IInv, LoadInv, [Next]_vars
             PROVE  LoadInv'
  OBVIOUS
<1> USE DEF contents, loop
<1>0. entries \in Nat /\ table_size \in Nat /\ prime_index \in Nat
  BY DEF IInv, TypeOK
<1>1. CASE UNCHANGED vars
  BY <1>1 DEF vars, LoadInv, LoadBound, SizeMatchesPrime
<1>2. CASE New
  <2>1. table_size' = Primes[1]
    BY <1>2, PrimesAssumption DEF New, NewTableSize
  <2> QED
    BY <1>2, <2>1 DEF New, LoadInv, LoadBound, SizeMatchesPrime
<1>3. CASE RegisterFreeFunctions
  BY <1>3 DEF RegisterFreeFunctions, LoadInv, LoadBound, SizeMatchesPrime
<1>4. CASE Free
  BY <1>4 DEF Free, LoadInv, LoadBound, SizeMatchesPrime
<1>5. ASSUME NEW k \in KeyObj, NEW v \in ValObj, Insert(k, v)
      PROVE  LoadInv'
  <2>1. CASE TooFull /\ Enlarge
    <3>1. /\ entries * 3 < table_size'
          /\ prime_index' < Len(Primes)
               => table_size' = Primes[prime_index' + 1]
      <4>1. (prime_index + 1) + 1 = prime_index + 2
        BY <1>0
      <4> QED
        BY <1>5, <2>1, <4>1, EnlargedIsLarger DEF Insert, Enlarge
    <3> QED
      BY <1>5, <2>1, <3>1 DEF Insert, Enlarge, LoadInv, LoadBound,
                              SizeMatchesPrime
  <2>2. CASE TooFull /\ EnlargeFails
    BY <1>5, <2>2 DEF Insert, EnlargeFails, PutBack, LoadInv, LoadBound,
                      SizeMatchesPrime
  <2>3. CASE ~TooFull /\ pc' = "place" /\ UNCHANGED contents
    <3>1. entries * 3 < table_size
      BY <1>0, <1>5, <2>3 DEF IInv, Control, Insert, TooFull
    <3> QED
      BY <1>5, <2>3, <3>1 DEF Insert, LoadInv, LoadBound, SizeMatchesPrime
  <2> QED
    BY <1>5, <2>1, <2>2, <2>3 DEF Insert
<1>6. CASE MoveEntry \/ NextOldChain \/ EndRehash
  BY <1>6 DEF MoveEntry, NextOldChain, EndRehash, LoadInv, LoadBound,
              SizeMatchesPrime
<1>7. CASE Place
  <2>1. entries' \in {entries, entries + 1}
    BY <1>7 DEF Place, Overwrite, AddEntry, AddEntryFails
  <2>2. entries * 3 < table_size /\ pc' = "idle"
        /\ UNCHANGED <<table_size, prime_index>> /\ pc # "none"
    BY <1>7 DEF Place, LoadInv
  <2>3. (entries' - 1) * 3 < table_size
    <3>1. (entries - 1) * 3 < table_size /\ ((entries + 1) - 1) * 3 < table_size
      BY <1>0, <2>2
    <3> QED
      BY <2>1, <3>1
  <2> QED
    BY <2>2, <2>3 DEF LoadInv, LoadBound, SizeMatchesPrime
<1>8. ASSUME NEW k \in Key, RemoveKey(k)
      PROVE  LoadInv'
  <2>1. entries' \in {entries, entries - 1}
    BY <1>8 DEF RemoveKey, CountAfterRemove
  <2> QED
    BY <1>0, <1>8, <2>1 DEF RemoveKey, LoadInv, LoadBound, SizeMatchesPrime
<1>9. CASE Iterate \/ IterNext
  BY <1>9 DEF Iterate, IterNext, LoadInv, LoadBound, SizeMatchesPrime
<1> QED
  BY <1>1, <1>2, <1>3, <1>4, <1>5, <1>6, <1>7, <1>8, <1>9 DEF Next, InsertSteps

(* The load stays below one entry in three, and the size is the prime the  *)
(* index names, whatever allocations fail on the way.                      *)
THEOREM LoadTheorem == Spec => []SizeAndLoad
<1>1. Init => LoadInv
  BY DEF Init, LoadInv, LoadBound, SizeMatchesPrime
<1>2. LoadInv => SizeAndLoad
  BY DEF LoadInv, SizeAndLoad
<1> QED
  BY InitInv, NextInv, <1>1, LoadInductive, <1>2, PTL DEF Spec

-----------------------------------------------------------------------------
(* The entries stored, as a set: no two have one key, so a call adds an    *)
(* entry in the place of the one with its key, takes one away, or leaves   *)
(* the set as it is, whichever chains and tables the entries are in.       *)

OneOfEachKey(S) == \A e, f \in S : Class(e) = Class(f) => e = f
Without(S, k) == {e \in S : Class(e) # k}

LEMMA Members ==
  ASSUME NEW n \in Nat, NEW t \in Table(n), NEW e
  PROVE  e \in StoredIn(t) <=>
           \E c \in 0 .. n - 1 : \E p \in 1 .. Len(t[c]) : t[c][p] = e
<1>1. DOMAIN t = 0 .. n - 1 /\ \A c \in 0 .. n - 1 : t[c] \in Seq(Entry)
  BY DEF Table
<1>2. \A c \in 0 .. n - 1 : DOMAIN t[c] = 1 .. Len(t[c])
  BY <1>1, LenProperties
<1>3. \A c \in 0 .. n - 1 : e \in ToSet(t[c]) <=> \E p \in 1 .. Len(t[c]) : t[c][p] = e
  BY <1>2 DEF ToSet
<1> QED BY <1>1, <1>3 DEF StoredIn

LEMMA MembersAreEntries ==
  ASSUME NEW n \in Nat, NEW t \in Table(n)
  PROVE  StoredIn(t) \subseteq Entry
BY ElementOfSeq, LenProperties DEF StoredIn, Table, ToSet

LEMMA MembersDistinct ==
  ASSUME NEW n \in Nat, NEW t \in Table(n), DistinctIn(t)
  PROVE  OneOfEachKey(StoredIn(t))
<1> SUFFICES ASSUME NEW e \in StoredIn(t), NEW f \in StoredIn(t), Class(e) = Class(f)
             PROVE  e = f
  BY DEF OneOfEachKey
<1>1. DOMAIN t = 0 .. n - 1 /\ \A c \in 0 .. n - 1 : DOMAIN t[c] = 1 .. Len(t[c])
  BY LenProperties DEF Table
<1>2. PICK c \in 0 .. n - 1 : \E p \in 1 .. Len(t[c]) : t[c][p] = e
  BY Members
<1>3. PICK p \in 1 .. Len(t[c]) : t[c][p] = e
  BY <1>2
<1>4. PICK d \in 0 .. n - 1 : \E q \in 1 .. Len(t[d]) : t[d][q] = f
  BY Members
<1>5. PICK q \in 1 .. Len(t[d]) : t[d][q] = f
  BY <1>4
<1>6. \A a, b \in 0 .. n - 1 : \A x \in DOMAIN t[a], y \in DOMAIN t[b] :
        Class(t[a][x]) = Class(t[b][y]) => a = b /\ x = y
  BY <1>1 DEF DistinctIn
<1>7. p \in DOMAIN t[c] /\ q \in DOMAIN t[d] /\ Class(t[c][p]) = Class(t[d][q])
  BY <1>1, <1>3, <1>5
<1>8. c = d /\ p = q
  BY <1>6, <1>7
<1> QED BY <1>3, <1>5, <1>8

(* A new head adds one entry. *)
LEMMA PushMember ==
  ASSUME NEW n \in Nat, NEW t \in Table(n), NEW c \in 0 .. n - 1, NEW e \in Entry,
         NEW u, u = WithChain(t, c, <<e>> \o t[c])
  PROVE  StoredIn(u) = StoredIn(t) \cup {e}
<1>1. \A d \in 0 .. n - 1 : t[d] \in Seq(Entry) /\ Len(t[d]) \in Nat
  BY LenProperties DEF Table
<1>2. /\ <<e>> \o t[c] \in Seq(Entry)
      /\ Len(<<e>> \o t[c]) = Len(t[c]) + 1
      /\ \A q \in 1 .. Len(t[c]) + 1 :
           (<<e>> \o t[c])[q] = IF q = 1 THEN e ELSE t[c][q - 1]
  BY <1>1, ConsElements
<1>3. u \in Table(n)
  BY <1>2 DEF Table, WithChain
<1>4. /\ \A d \in 0 .. n - 1 : d # c => u[d] = t[d]
      /\ u[c] = <<e>> \o t[c]
  BY DEF Table, WithChain
<1>5. \A f : f \in StoredIn(u) <=> \E d \in 0 .. n - 1 : \E p \in 1 .. Len(u[d]) : u[d][p] = f
  BY <1>3, Members
<1>6. \A f : f \in StoredIn(t) <=> \E d \in 0 .. n - 1 : \E p \in 1 .. Len(t[d]) : t[d][p] = f
  BY Members
<1>7. ASSUME NEW f \in StoredIn(u) PROVE f \in StoredIn(t) \cup {e}
  <2>1. PICK d \in 0 .. n - 1 : \E p \in 1 .. Len(u[d]) : u[d][p] = f
    BY <1>5
  <2>2. PICK p \in 1 .. Len(u[d]) : u[d][p] = f
    BY <2>1
  <2>3. CASE d # c
    BY <2>2, <2>3, <1>4, <1>6
  <2>4. CASE d = c /\ p = 1
    BY <2>2, <2>4, <1>2, <1>4
  <2>5. CASE d = c /\ p # 1
    <3>1. p - 1 \in 1 .. Len(t[c]) /\ t[c][p - 1] = f
      BY <2>2, <2>5, <1>1, <1>2, <1>4
    <3> QED BY <3>1, <1>6
  <2> QED BY <2>3, <2>4, <2>5
<1>8. e \in StoredIn(u)
  <2>1. 1 \in 1 .. Len(u[c]) /\ u[c][1] = e
    BY <1>1, <1>2, <1>4
  <2> QED BY <2>1, <1>5
<1>9. ASSUME NEW f \in StoredIn(t) PROVE f \in StoredIn(u)
  <2>1. PICK d \in 0 .. n - 1 : \E p \in 1 .. Len(t[d]) : t[d][p] = f
    BY <1>6
  <2>2. PICK p \in 1 .. Len(t[d]) : t[d][p] = f
    BY <2>1
  <2>3. CASE d # c
    BY <2>2, <2>3, <1>4, <1>5
  <2>4. CASE d = c
    <3>1. p + 1 \in 1 .. Len(u[c]) /\ u[c][p + 1] = f
      BY <2>2, <2>4, <1>1, <1>2, <1>4
    <3> QED BY <3>1, <1>5
  <2> QED BY <2>3, <2>4
<1> QED BY <1>7, <1>8, <1>9

(* Cutting a chain takes away its entry at that position. *)
LEMMA CutMember ==
  ASSUME NEW n \in Nat, NEW t \in Table(n), NEW c \in 0 .. n - 1,
         NEW p \in 1 .. Len(t[c]), DistinctIn(t), NEW s, IsCut(s, t[c], p),
         NEW u, u = WithChain(t, c, s)
  PROVE  /\ StoredIn(u) = StoredIn(t) \ {t[c][p]}
         /\ t[c][p] \in StoredIn(t)
<1>1. /\ u \in Table(n)
      /\ KeysOf(u) = KeysOf(t) \ {Class(t[c][p])}
  BY CutKey
<1>2. \A d \in 0 .. n - 1 : t[d] \in Seq(Entry) /\ Len(t[d]) \in Nat
  BY LenProperties DEF Table
<1>3. /\ \A d \in 0 .. n - 1 : d # c => u[d] = t[d]
      /\ u[c] = s
      /\ Len(s) = Len(t[c]) - 1
      /\ \A q \in 1 .. Len(t[c]) - 1 : s[q] = IF q < p THEN t[c][q]
                                              ELSE t[c][q + 1]
  BY DEF Table, WithChain, IsCut
<1>5. \A f : f \in StoredIn(u) <=> \E d \in 0 .. n - 1 : \E q \in 1 .. Len(u[d]) : u[d][q] = f
  BY <1>1, Members
<1>6. \A f : f \in StoredIn(t) <=> \E d \in 0 .. n - 1 : \E q \in 1 .. Len(t[d]) : t[d][q] = f
  BY Members
<1>7. ASSUME NEW f \in StoredIn(u) PROVE f \in StoredIn(t) /\ f # t[c][p]
  <2>1. PICK d \in 0 .. n - 1 : \E q \in 1 .. Len(u[d]) : u[d][q] = f
    BY <1>5
  <2>2. PICK q \in 1 .. Len(u[d]) : u[d][q] = f
    BY <2>1
  <2>3. Class(f) \in KeysOf(u)
    BY DEF KeysOf
  <2>4. f # t[c][p]
    BY <2>3, <1>1
  <2>5. CASE d # c
    BY <2>2, <2>5, <1>3, <1>6, <2>4
  <2>6. CASE d = c /\ q < p
    <3>1. q \in 1 .. Len(t[c]) /\ t[c][q] = f
      BY <2>2, <2>6, <1>2, <1>3
    <3> QED BY <3>1, <1>6, <2>4
  <2>7. CASE d = c /\ q >= p
    <3>1. q + 1 \in 1 .. Len(t[c]) /\ t[c][q + 1] = f
      BY <2>2, <2>7, <1>2, <1>3
    <3> QED BY <3>1, <1>6, <2>4
  <2> QED BY <2>2, <2>5, <2>6, <2>7, <1>2, <1>3
<1>8. ASSUME NEW f \in StoredIn(t), f # t[c][p] PROVE f \in StoredIn(u)
  <2>1. PICK d \in 0 .. n - 1 : \E q \in 1 .. Len(t[d]) : t[d][q] = f
    BY <1>6
  <2>2. PICK q \in 1 .. Len(t[d]) : t[d][q] = f
    BY <2>1
  <2>3. CASE d # c
    BY <2>2, <2>3, <1>3, <1>5
  <2>4. CASE d = c /\ q < p
    <3>1. q \in 1 .. Len(u[c]) /\ u[c][q] = f
      BY <2>2, <2>4, <1>2, <1>3
    <3> QED BY <3>1, <1>5
  <2>5. CASE d = c /\ q > p
    <3>1. q - 1 \in 1 .. Len(u[c]) /\ u[c][q - 1] = f
      BY <2>2, <2>5, <1>2, <1>3
    <3> QED BY <3>1, <1>5
  <2> QED BY <2>2, <2>3, <2>4, <2>5, <1>8, <1>2
<1>9. t[c][p] \in StoredIn(t)
  BY <1>6
<1> QED BY <1>7, <1>8, <1>9

(* Replacing an entry by one with its key. *)
LEMMA ReplaceMember ==
  ASSUME NEW n \in Nat, NEW t \in Table(n), NEW c \in 0 .. n - 1,
         NEW p \in 1 .. Len(t[c]), NEW e \in Entry, Class(e) = Class(t[c][p]),
         DistinctIn(t), PlacedIn(t, n), NEW u, u = WithEntry(t, c, p, e)
  PROVE  /\ StoredIn(u) = (StoredIn(t) \ {t[c][p]}) \cup {e}
         /\ t[c][p] \in StoredIn(t)
<1>1. u \in Table(n) /\ DistinctIn(u)
  BY ReplaceKey
<1>2. \A d \in 0 .. n - 1 : t[d] \in Seq(Entry) /\ DOMAIN t[d] = 1 .. Len(t[d])
  BY LenProperties DEF Table
<1>3. /\ [t[c] EXCEPT ![p] = e] \in Seq(Entry)
      /\ Len([t[c] EXCEPT ![p] = e]) = Len(t[c])
  BY <1>2, ExceptSeq
<1>4. \A d \in 0 .. n - 1 :
        /\ Len(u[d]) = Len(t[d])
        /\ \A q \in 1 .. Len(t[d]) :
             u[d][q] = IF d = c /\ q = p THEN e ELSE t[d][q]
  BY <1>2, <1>3 DEF Table, WithEntry
<1>5. \A f : f \in StoredIn(u) <=> \E d \in 0 .. n - 1 : \E q \in 1 .. Len(u[d]) : u[d][q] = f
  BY <1>1, Members
<1>6. \A f : f \in StoredIn(t) <=> \E d \in 0 .. n - 1 : \E q \in 1 .. Len(t[d]) : t[d][q] = f
  BY Members
<1>7. \A a, b \in 0 .. n - 1 : \A q1 \in 1 .. Len(t[a]), q2 \in 1 .. Len(t[b]) :
        t[a][q1] = t[b][q2] => a = b /\ q1 = q2
  <2>1. DOMAIN t = 0 .. n - 1
    BY DEF Table
  <2>2. \A a, b \in 0 .. n - 1 : \A q1 \in DOMAIN t[a], q2 \in DOMAIN t[b] :
          Class(t[a][q1]) = Class(t[b][q2]) => a = b /\ q1 = q2
    BY <2>1 DEF DistinctIn
  <2> QED BY <1>2, <2>2
<1>8. ASSUME NEW f \in StoredIn(u) PROVE f \in (StoredIn(t) \ {t[c][p]}) \cup {e}
  <2>1. PICK d \in 0 .. n - 1 : \E q \in 1 .. Len(u[d]) : u[d][q] = f
    BY <1>5
  <2>2. PICK q \in 1 .. Len(u[d]) : u[d][q] = f
    BY <2>1
  <2>3. q \in 1 .. Len(t[d]) /\ f = IF d = c /\ q = p THEN e ELSE t[d][q]
    BY <2>2, <1>4
  <2>4. CASE d = c /\ q = p
    BY <2>3, <2>4
  <2>5. CASE ~(d = c /\ q = p)
    <3>1. f = t[d][q] /\ f # t[c][p]
      BY <2>3, <2>5, <1>7
    <3> QED BY <3>1, <2>3, <1>6
  <2> QED BY <2>4, <2>5
<1>9. e \in StoredIn(u)
  BY <1>4, <1>5
<1>10. ASSUME NEW f \in StoredIn(t), f # t[c][p] PROVE f \in StoredIn(u)
  <2>1. PICK d \in 0 .. n - 1 : \E q \in 1 .. Len(t[d]) : t[d][q] = f
    BY <1>6
  <2>2. PICK q \in 1 .. Len(t[d]) : t[d][q] = f
    BY <2>1
  <2>3. q \in 1 .. Len(u[d]) /\ u[d][q] = f
    BY <2>2, <1>4, <1>10
  <2> QED BY <2>3, <1>5
<1>11. t[c][p] \in StoredIn(t)
  BY <1>6
<1> QED BY <1>8, <1>9, <1>10, <1>11

LEMMA EmptyMembers ==
  ASSUME NEW n \in Nat
  PROVE  StoredIn(EmptyTable(n)) = {} /\ StoredIn(NoTable) = {}
BY DEF StoredIn, EmptyTable, NoTable, ToSet

(* In every reachable state no two entries have one key. *)
LEMMA StoredDistinct ==
  ASSUME IInv
  PROVE  OneOfEachKey(Stored) /\ Stored \subseteq Entry
<1>1. /\ OneOfEachKey(StoredIn(table)) /\ OneOfEachKey(StoredIn(old_table))
      /\ StoredIn(table) \subseteq Entry /\ StoredIn(old_table) \subseteq Entry
  BY TypeTables, MembersDistinct, MembersAreEntries DEF IInv, TwoTables
<1>2. \A e \in StoredIn(table), f \in StoredIn(old_table) : Class(e) # Class(f)
  BY DEF IInv, TwoTables, KeysOf
<1> QED BY <1>1, <1>2 DEF Stored, OneOfEachKey

-----------------------------------------------------------------------------
(* What each step does to the entries stored.                              *)

LEMMA OldTableEmpty ==
  ASSUME IInv, pc # "rehash"
  PROVE  old_table = NoTable /\ StoredIn(old_table) = {} /\ Stored = StoredIn(table)
<1>1. old_table = NoTable
  BY DEF IInv, TypeOK, Control, NoTable
<1>2. StoredIn(old_table) = {}
  BY <1>1, EmptyMembers
<1> QED BY <1>1, <1>2 DEF Stored

LEMMA NewStored == ASSUME IInv, New PROVE Stored = {} /\ Stored' = {}
<1>1. table = NoTable
  BY DEF New, IInv, TypeOK, Control, NoTable
<1>2. Stored = {}
  BY <1>1, OldTableEmpty, EmptyMembers DEF New
<1>3. StoredIn(table') = {}
  <2>1. table_size' \in Nat
    BY NewSizePositive, PrimesAssumption DEF IInv, TypeOK, New
  <2> QED BY <2>1, EmptyMembers DEF New
<1>4. StoredIn(old_table') = {}
  BY OldTableEmpty DEF New, loop
<1> QED BY <1>2, <1>3, <1>4 DEF Stored

LEMMA FreeStored == ASSUME IInv, Free PROVE Stored' = {}
<1>1. StoredIn(table') = {}
  BY EmptyMembers DEF Free
<1>2. StoredIn(old_table') = {}
  BY OldTableEmpty DEF Free, loop
<1> QED BY <1>1, <1>2 DEF Stored

LEMMA InsertStored ==
  ASSUME IInv, NEW k \in KeyObj, NEW v \in ValObj, Insert(k, v)
  PROVE  Stored' = Stored
<1>1. pc = "idle" /\ StoredIn(old_table) = {}
  BY OldTableEmpty DEF Insert
<1>2. CASE TooFull /\ Enlarge
  <2>1. table_size' \in Nat
    BY <1>1, <1>2, TooFullHasEntries, NewSizePositive DEF IInv, TypeOK, Control, Enlarge
  <2>2. StoredIn(table') = {} /\ StoredIn(old_table') = StoredIn(table)
    BY <1>2, <2>1, EmptyMembers DEF Enlarge
  <2> QED BY <2>2, <1>1 DEF Stored
<1>3. CASE UNCHANGED <<table, loop>>
  BY <1>3 DEF Stored, loop
<1> QED BY <1>2, <1>3 DEF Insert, EnlargeFails

LEMMA MoveEntryStored == ASSUME IInv, MoveEntry PROVE Stored' = Stored
<1> DEFINE rover == Head(old_table[i])
           index == Index(Class(rover), table_size)
<1>1. /\ table \in Table(table_size) /\ table_size \in Nat /\ table_size > 0
      /\ old_table \in Table(old_size) /\ old_size \in Nat
      /\ i \in 0 .. old_size - 1 /\ old_table[i] # <<>>
  BY TypeTables DEF IInv, TypeOK, Control, MoveEntry
<1>2. old_table[i] \in Seq(Entry)
  BY <1>1 DEF Table
<1>3. /\ rover \in Entry
      /\ rover = old_table[i][1]
      /\ 1 \in 1 .. Len(old_table[i])
      /\ IsCut(Tail(old_table[i]), old_table[i], 1)
  BY <1>1, <1>2, HeadTailProperties DEF IsCut
<1>4. index \in 0 .. table_size - 1
  BY <1>1, <1>3, KeyOfEntry, IndexInTable
<1>5. /\ old_table' = [old_table EXCEPT ![i] = Tail(old_table[i])]
      /\ table' = [table EXCEPT ![index] = <<rover>> \o table[index]]
  BY <1>1 DEF MoveEntry, Rest, NewIndex, Table
<1> HIDE DEF rover, index
<1>6. /\ StoredIn(old_table') = StoredIn(old_table) \ {rover}
      /\ rover \in StoredIn(old_table)
  <2>1. old_table' = WithChain(old_table, i, Tail(old_table[i]))
    BY <1>5 DEF WithChain
  <2>2. DistinctIn(old_table)
    BY DEF IInv, TwoTables
  <2>3. /\ StoredIn(old_table') = StoredIn(old_table) \ {old_table[i][1]}
        /\ old_table[i][1] \in StoredIn(old_table)
    BY <1>1, <1>3, <2>1, <2>2, CutMember
  <2> QED BY <1>3, <2>3
<1>7. StoredIn(table') = StoredIn(table) \cup {rover}
  <2>1. table' = WithChain(table, index, <<rover>> \o table[index])
    BY <1>5 DEF WithChain
  <2> QED BY <1>1, <1>3, <1>4, <2>1, PushMember
<1> QED BY <1>6, <1>7 DEF Stored

LEMMA EndRehashStored == ASSUME IInv, EndRehash PROVE Stored' = Stored
<1>1. StoredIn(old_table) = {}
  <2>1. \A c \in 0 .. old_size - 1 : 1 .. Len(old_table[c]) = {}
    BY DEF IInv, TypeOK, Control, EndRehash
  <2> QED BY <2>1, TypeTables, Members DEF IInv
<1>2. StoredIn(old_table') = {}
  BY EmptyMembers DEF EndRehash
<1>3. table' = table
  BY DEF EndRehash, contents
<1> QED BY <1>1, <1>2, <1>3 DEF Stored

(* The end of an insertion: the entry with the key, if there is one, gives *)
(* way to the new entry, or there is no memory.                            *)
LEMMA PlaceStored ==
  ASSUME IInv, Place
  PROVE  \/ \E old \in Stored :
              /\ Class(old) = Class(arg)
              /\ Stored' = (Stored \ {old}) \cup {arg}
              /\ live' = Acquire(Release({old.key, old.value}), {arg.key, arg.value})
              /\ result' = 1
         \/ /\ Class(arg) \notin StoredKeys
            /\ Stored' = Stored \cup {arg}
            /\ live' = Acquire(live, {arg.key, arg.value})
            /\ result' = 1
         \/ Stored' = Stored /\ live' = live /\ result' = 0
<1> DEFINE k == ClassOf[arg.key]
           index == Index(k, table_size)
           p == Find(table[index], k)
<1>1. /\ table \in Table(table_size) /\ table_size \in Nat /\ table_size > 0
      /\ DistinctIn(table) /\ PlacedIn(table, table_size)
      /\ arg \in Entry /\ k = Class(arg)
  BY TypeTables DEF IInv, Control, TwoTables, Place, Class
<1>2. k \in Key
  BY <1>1, KeyOfEntry
<1> HIDE DEF k
<1>3. /\ index \in 0 .. table_size - 1
      /\ p = 0 => k \notin KeysOf(table)
      /\ p # 0 => p \in 1 .. Len(table[index]) /\ Class(table[index][p]) = k
  BY <1>1, <1>2, FindDecides
<1>4. /\ StoredIn(old_table) = {} /\ Stored = StoredIn(table)
      /\ old_table' = old_table
  BY OldTableEmpty DEF Place, loop
<1>5. Stored' = StoredIn(table')
  BY <1>4 DEF Stored
<1>6. \/ p # 0 /\ Overwrite(index, p)
      \/ p = 0 /\ AddEntry(index)
      \/ p = 0 /\ AddEntryFails
  BY DEF Place, k
<1> HIDE DEF index, p
<1>7. CASE p # 0 /\ Overwrite(index, p)
  <2>1. table' = WithEntry(table, index, p, arg)
    BY <1>7 DEF Overwrite, Overwritten, WithEntry
  <2>2. /\ StoredIn(table') = (StoredIn(table) \ {table[index][p]}) \cup {arg}
        /\ table[index][p] \in StoredIn(table)
    BY <1>1, <1>3, <1>7, <2>1, ReplaceMember
  <2>3. Class(table[index][p]) = Class(arg)
    BY <1>1, <1>3, <1>7
  <2>4. /\ live' = Acquire(Release({table[index][p].key, table[index][p].value}),
                           {arg.key, arg.value})
        /\ result' = 1
    BY <1>7 DEF Overwrite
  <2> QED BY <1>4, <1>5, <2>2, <2>3, <2>4
<1>8. CASE p = 0 /\ AddEntry(index)
  <2>1. table' = WithChain(table, index, <<arg>> \o table[index])
    BY <1>8 DEF AddEntry, WithChain
  <2>2. StoredIn(table') = StoredIn(table) \cup {arg}
    BY <1>1, <1>3, <2>1, PushMember
  <2>3. Class(arg) \notin StoredKeys
    BY <1>1, <1>3, <1>4, <1>8 DEF StoredKeys, KeysOf
  <2> QED BY <1>4, <1>5, <1>8, <2>2, <2>3 DEF AddEntry
<1>9. CASE p = 0 /\ AddEntryFails
  BY <1>4, <1>5, <1>9 DEF AddEntryFails
<1> QED BY <1>6, <1>7, <1>8, <1>9

LEMMA RemoveStored ==
  ASSUME IInv, NEW k \in Key, RemoveKey(k)
  PROVE  \/ \E old \in Stored :
              /\ Class(old) = k
              /\ Stored' = Stored \ {old}
              /\ live' = Release({old.key, old.value})
              /\ result' = 1
         \/ /\ k \notin StoredKeys
            /\ Stored' = Stored /\ live' = live /\ result' = 0
<1> DEFINE index == Index(k, table_size)
           p == Find(table[index], k)
<1>1. /\ table \in Table(table_size) /\ table_size \in Nat /\ table_size > 0
      /\ DistinctIn(table) /\ PlacedIn(table, table_size)
  BY TypeTables DEF IInv, TypeOK, Control, TwoTables, RemoveKey
<1>2. /\ index \in 0 .. table_size - 1
      /\ table[index] \in Seq(Entry)
      /\ p = 0 => k \notin KeysOf(table)
      /\ p # 0 => p \in 1 .. Len(table[index]) /\ Class(table[index][p]) = k
  BY <1>1, FindDecides
<1>3. /\ StoredIn(old_table) = {} /\ Stored = StoredIn(table)
      /\ old_table' = old_table
  BY OldTableEmpty DEF RemoveKey, loop
<1>4. Stored' = StoredIn(table')
  BY <1>3 DEF Stored
<1>5. \/ /\ p # 0
         /\ live' = Release({table[index][p].key, table[index][p].value})
         /\ table' = [table EXCEPT ![index] = RemoveAt(@, p)]
         /\ result' = 1
      \/ /\ p = 0
         /\ result' = 0
         /\ UNCHANGED <<live, table>>
  BY DEF RemoveKey
<1> HIDE DEF index, p
<1>6. CASE p # 0
  <2>1. table' = WithChain(table, index, RemoveAt(table[index], p))
    BY <1>6, <1>5 DEF WithChain
  <2>2. IsCut(RemoveAt(table[index], p), table[index], p)
    BY <1>2, <1>6, RemoveAtElements DEF IsCut
  <2>3. /\ StoredIn(table') = StoredIn(table) \ {table[index][p]}
        /\ table[index][p] \in StoredIn(table)
    BY <1>1, <1>2, <1>6, <2>1, <2>2, CutMember
  <2> QED BY <1>2, <1>3, <1>4, <1>5, <1>6, <2>3
<1>7. CASE p = 0
  <2>1. k \notin StoredKeys
    BY <1>2, <1>3, <1>7 DEF StoredKeys, KeysOf
  <2> QED BY <2>1, <1>3, <1>4, <1>5, <1>7
<1> QED BY <1>6, <1>7

(* The other steps leave both tables as they are. *)
LEMMA QuietStored ==
  ASSUME \/ RegisterFreeFunctions \/ NextOldChain \/ Iterate \/ IterNext \/ UNCHANGED vars
  PROVE  Stored' = Stored
BY DEF RegisterFreeFunctions, NextOldChain, Iterate, IterNext, vars, contents, loop, Stored

-----------------------------------------------------------------------------
(* Ownership.  An entry is known by its key object and by its value        *)
(* object, because the caller hands over objects the table does not hold.  *)

Objects(S) == {e.key : e \in S} \cup {e.value : e \in S}
OneOfEachValue(S) == \A e, f \in S : e.value = f.value => e = f
ClassesOf(S) == {Class(e) : e \in S}

OwnInv ==
  /\ live = IF free_funcs THEN StoredObjects ELSE {}
  /\ OneOfEachValue(Stored)
  /\ pc \in {"rehash", "place"} => {arg.key, arg.value} \cap StoredObjects = {}

LEMMA StoredObjectsAre == StoredObjects = Objects(Stored) /\ StoredKeys = ClassesOf(Stored)
BY DEF StoredObjects, Objects, StoredKeys, ClassesOf

LEMMA EntryParts ==
  ASSUME NEW e \in Entry
  PROVE  e.key \in KeyObj /\ e.value \in ValObj /\ e.key # e.value
BY ObjectsAssumption DEF Entry

(* With an entry go its own two objects and no other's. *)
LEMMA ObjectsWithout ==
  ASSUME NEW S \in SUBSET Entry, OneOfEachKey(S), OneOfEachValue(S), NEW old \in S
  PROVE  Objects(S \ {old}) = Objects(S) \ {old.key, old.value}
<1>1. \A e \in S : e.key \in KeyObj /\ e.value \in ValObj
  BY EntryParts
<1>2. \A e \in S : e.key # old.value /\ e.value # old.key
  BY <1>1, ObjectsAssumption
<1>3. \A e \in S : e # old => e.key # old.key /\ e.value # old.value
  BY DEF OneOfEachKey, OneOfEachValue, Class
<1>4. ASSUME NEW x \in Objects(S \ {old}) PROVE x \in Objects(S) \ {old.key, old.value}
  <2>1. PICK e \in S \ {old} : x = e.key \/ x = e.value
    BY DEF Objects
  <2>2. x # old.key /\ x # old.value
    BY <2>1, <1>2, <1>3
  <2> QED BY <2>1, <2>2 DEF Objects
<1>5. ASSUME NEW x \in Objects(S) \ {old.key, old.value} PROVE x \in Objects(S \ {old})
  BY DEF Objects
<1> QED BY <1>4, <1>5

LEMMA ObjectsWith ==
  ASSUME NEW S, NEW e
  PROVE  Objects(S \cup {e}) = Objects(S) \cup {e.key, e.value}
BY DEF Objects

(* A set of entries that share nothing has as many key objects, and as     *)
(* many value objects, as keys.                                            *)
LEMMA KeyObjectsCounted ==
  ASSUME NEW S \in SUBSET Entry, OneOfEachKey(S), IsFiniteSet(ClassesOf(S))
  PROVE  /\ IsFiniteSet({e.key : e \in S})
         /\ Cardinality({e.key : e \in S}) = Cardinality(ClassesOf(S))
<1> DEFINE T == {e.key : e \in S}
           f == [k \in ClassesOf(S) |-> (CHOOSE e \in S : Class(e) = k).key]
<1>1. \A e \in S : f[Class(e)] = e.key
  <2> TAKE e \in S
  <2>1. Class(e) \in ClassesOf(S)
    BY DEF ClassesOf
  <2>2. (CHOOSE g \in S : Class(g) = Class(e)) = e
    BY DEF OneOfEachKey
  <2> QED BY <2>1, <2>2
<1> HIDE DEF f
<1>2. f \in [ClassesOf(S) -> T]
  <2>1. \A k \in ClassesOf(S) : f[k] \in T
    BY <1>1 DEF ClassesOf
  <2> QED BY <2>1 DEF f
<1>3. f \in Injection(ClassesOf(S), T)
  <2>1. \A a, b \in ClassesOf(S) : f[a] = f[b] => a = b
    <3> TAKE a, b \in ClassesOf(S)
    <3>1. PICK d \in S : a = Class(d)
      BY DEF ClassesOf
    <3>2. PICK e \in S : b = Class(e)
      BY DEF ClassesOf
    <3> QED BY <3>1, <3>2, <1>1 DEF Class
  <2> QED BY <2>1, <1>2 DEF Injection, IsInjective
<1>4. f \in Surjection(ClassesOf(S), T)
  <2>1. \A x \in T : \E k \in ClassesOf(S) : f[k] = x
    BY <1>1 DEF ClassesOf
  <2> QED BY <2>1, <1>2 DEF Surjection
<1>5. ExistsBijection(ClassesOf(S), T)
  BY <1>3, <1>4 DEF ExistsBijection, Bijection
<1> QED BY <1>5, FS_Bijection

LEMMA ValueObjectsCounted ==
  ASSUME NEW S \in SUBSET Entry, OneOfEachKey(S), OneOfEachValue(S),
         IsFiniteSet(ClassesOf(S))
  PROVE  /\ IsFiniteSet({e.value : e \in S})
         /\ Cardinality({e.value : e \in S}) = Cardinality(ClassesOf(S))
<1> DEFINE T == {e.value : e \in S}
           f == [k \in ClassesOf(S) |-> (CHOOSE e \in S : Class(e) = k).value]
<1>1. \A e \in S : f[Class(e)] = e.value
  <2> TAKE e \in S
  <2>1. Class(e) \in ClassesOf(S)
    BY DEF ClassesOf
  <2>2. (CHOOSE g \in S : Class(g) = Class(e)) = e
    BY DEF OneOfEachKey
  <2> QED BY <2>1, <2>2
<1> HIDE DEF f
<1>2. f \in [ClassesOf(S) -> T]
  <2>1. \A k \in ClassesOf(S) : f[k] \in T
    BY <1>1 DEF ClassesOf
  <2> QED BY <2>1 DEF f
<1>3. f \in Injection(ClassesOf(S), T)
  <2>1. \A a, b \in ClassesOf(S) : f[a] = f[b] => a = b
    <3> TAKE a, b \in ClassesOf(S)
    <3>1. PICK d \in S : a = Class(d)
      BY DEF ClassesOf
    <3>2. PICK e \in S : b = Class(e)
      BY DEF ClassesOf
    <3> QED BY <3>1, <3>2, <1>1 DEF OneOfEachValue
  <2> QED BY <2>1, <1>2 DEF Injection, IsInjective
<1>4. f \in Surjection(ClassesOf(S), T)
  <2>1. \A x \in T : \E k \in ClassesOf(S) : f[k] = x
    BY <1>1 DEF ClassesOf
  <2> QED BY <2>1, <1>2 DEF Surjection
<1>5. ExistsBijection(ClassesOf(S), T)
  BY <1>3, <1>4 DEF ExistsBijection, Bijection
<1> QED BY <1>5, FS_Bijection

LEMMA ObjectsCounted ==
  ASSUME NEW S \in SUBSET Entry, OneOfEachKey(S), OneOfEachValue(S),
         IsFiniteSet(ClassesOf(S))
  PROVE  Cardinality(Objects(S)) = 2 * Cardinality(ClassesOf(S))
<1> DEFINE A == {e.key : e \in S}
           B == {e.value : e \in S}
<1>1. /\ IsFiniteSet(A) /\ Cardinality(A) = Cardinality(ClassesOf(S))
      /\ IsFiniteSet(B) /\ Cardinality(B) = Cardinality(ClassesOf(S))
  BY KeyObjectsCounted, ValueObjectsCounted
<1>2. A \cap B = {}
  <2>1. A \subseteq KeyObj /\ B \subseteq ValObj
    BY EntryParts
  <2> QED BY <2>1, ObjectsAssumption
<1>3. Objects(S) = A \cup B
  BY DEF Objects
<1> HIDE DEF A, B
<1>4. Cardinality(A \cup B) = Cardinality(A) + Cardinality(B) - Cardinality(A \cap B)
  BY <1>1, FS_Union
<1>5. Cardinality(A \cap B) = 0
  BY <1>2, FS_EmptySet
<1>6. Cardinality(ClassesOf(S)) \in Nat
  BY FS_CardinalityType
<1> QED BY <1>1, <1>3, <1>4, <1>5, <1>6

LEMMA OwnHolds == IInv /\ OwnInv => Ownership
<1> SUFFICES ASSUME IInv, OwnInv, free_funcs
             PROVE  live = StoredObjects /\ Cardinality(live) = 2 * entries
  BY DEF Ownership
<1>1. live = StoredObjects
  BY DEF OwnInv
<1>2. /\ IsFiniteSet(StoredKeys) /\ entries = Cardinality(StoredKeys)
  BY FiniteKeys, StoredKeysAreTwo DEF IInv, TwoTables
<1>3. /\ Stored \in SUBSET Entry /\ OneOfEachKey(Stored) /\ OneOfEachValue(Stored)
  BY StoredDistinct DEF OwnInv
<1>4. Cardinality(Objects(Stored)) = 2 * Cardinality(ClassesOf(Stored))
  BY <1>2, <1>3, ObjectsCounted, StoredObjectsAre
<1> QED BY <1>1, <1>2, <1>4, StoredObjectsAre

LEMMA NothingStored ==
  ASSUME IInv, entries = 0
  PROVE  Stored = {}
<1>1. IsFiniteSet(StoredKeys) /\ Cardinality(StoredKeys) = 0
  BY FiniteKeys, StoredKeysAreTwo DEF IInv, TwoTables
<1>2. StoredKeys = {}
  BY <1>1, FS_EmptySet
<1> QED BY <1>2 DEF StoredKeys

(* A step that leaves the entries, and what is owned, as they are. *)
LEMMA OwnQuiet ==
  ASSUME OwnInv, Stored' = Stored, live' = live, free_funcs' = free_funcs,
         pc' \in {"rehash", "place"} => pc \in {"rehash", "place"} /\ arg' = arg
  PROVE  OwnInv'
<1>1. StoredObjects' = StoredObjects
  BY DEF StoredObjects
<1> QED BY <1>1 DEF OwnInv, OneOfEachValue

LEMMA OwnPlace == ASSUME IInv, OwnInv, Place PROVE OwnInv'
<1>1. /\ Stored \in SUBSET Entry /\ OneOfEachKey(Stored) /\ OneOfEachValue(Stored)
      /\ arg \in Entry
  BY StoredDistinct DEF OwnInv, IInv, Control, Place
<1>2. {arg.key, arg.value} \cap Objects(Stored) = {}
  BY StoredObjectsAre DEF OwnInv, Place
<1>3. pc' = "idle" /\ free_funcs' = free_funcs
  BY DEF Place
<1>4. StoredObjects' = Objects(Stored')
  BY DEF StoredObjects, Objects
<1>5. \A e \in Stored : e.value # arg.value
  BY <1>2 DEF Objects
<1>6. CASE \E old \in Stored :
             /\ Class(old) = Class(arg)
             /\ Stored' = (Stored \ {old}) \cup {arg}
             /\ live' = Acquire(Release({old.key, old.value}), {arg.key, arg.value})
             /\ result' = 1
  <2>1. PICK old \in Stored :
             /\ Stored' = (Stored \ {old}) \cup {arg}
             /\ live' = Acquire(Release({old.key, old.value}), {arg.key, arg.value})
    BY <1>6
  <2>2. Objects(Stored') = (Objects(Stored) \ {old.key, old.value}) \cup {arg.key, arg.value}
    BY <2>1, <1>1, ObjectsWithout, ObjectsWith, ZenonT(40)
  <2>3. live' = IF free_funcs THEN StoredObjects' ELSE {}
    <3>1. live = IF free_funcs THEN Objects(Stored) ELSE {}
      BY StoredObjectsAre DEF OwnInv
    <3> QED BY <3>1, <2>1, <2>2, <1>4 DEF Acquire, Release
  <2>4. OneOfEachValue(Stored')
    BY <2>1, <1>1, <1>5 DEF OneOfEachValue
  <2> QED BY <2>3, <2>4, <1>3 DEF OwnInv, OneOfEachValue
<1>7. CASE /\ Class(arg) \notin StoredKeys
           /\ Stored' = Stored \cup {arg}
           /\ live' = Acquire(live, {arg.key, arg.value})
           /\ result' = 1
  <2>1. Objects(Stored') = Objects(Stored) \cup {arg.key, arg.value}
    BY <1>7, ObjectsWith
  <2>2. live' = IF free_funcs THEN StoredObjects' ELSE {}
    <3>1. live = IF free_funcs THEN Objects(Stored) ELSE {}
      BY StoredObjectsAre DEF OwnInv
    <3> QED BY <3>1, <2>1, <1>7, <1>4 DEF Acquire
  <2>3. OneOfEachValue(Stored')
    BY <1>7, <1>1, <1>5 DEF OneOfEachValue
  <2> QED BY <2>2, <2>3, <1>3 DEF OwnInv, OneOfEachValue
<1>8. CASE Stored' = Stored /\ live' = live /\ result' = 0
  BY <1>8, <1>3, OwnQuiet
<1> QED BY <1>6, <1>7, <1>8, PlaceStored

LEMMA OwnRemove == ASSUME IInv, OwnInv, NEW k \in Key, RemoveKey(k) PROVE OwnInv'
<1>1. /\ Stored \in SUBSET Entry /\ OneOfEachKey(Stored) /\ OneOfEachValue(Stored)
  BY StoredDistinct DEF OwnInv
<1>2. pc' = "idle" /\ free_funcs' = free_funcs
  BY DEF RemoveKey
<1>3. StoredObjects' = Objects(Stored')
  BY DEF StoredObjects, Objects
<1>4. CASE \E old \in Stored :
             /\ Class(old) = k
             /\ Stored' = Stored \ {old}
             /\ live' = Release({old.key, old.value})
             /\ result' = 1
  <2>1. PICK old \in Stored :
             /\ Stored' = Stored \ {old}
             /\ live' = Release({old.key, old.value})
    BY <1>4
  <2>2. Objects(Stored') = Objects(Stored) \ {old.key, old.value}
    BY <2>1, <1>1, ObjectsWithout
  <2>3. live' = IF free_funcs THEN StoredObjects' ELSE {}
    <3>1. live = IF free_funcs THEN Objects(Stored) ELSE {}
      BY StoredObjectsAre DEF OwnInv
    <3> QED BY <3>1, <2>1, <2>2, <1>3 DEF Release
  <2>4. OneOfEachValue(Stored')
    BY <2>1, <1>1 DEF OneOfEachValue
  <2> QED BY <2>3, <2>4, <1>2 DEF OwnInv, OneOfEachValue
<1>5. CASE Stored' = Stored /\ live' = live
  BY <1>5, <1>2, OwnQuiet
<1> QED BY <1>4, <1>5, RemoveStored

LEMMA OwnNext == IInv /\ OwnInv /\ [Next]_vars => OwnInv'
<1> SUFFICES ASSUME IInv, OwnInv, [Next]_vars
             PROVE  OwnInv'
  OBVIOUS
<1>1. CASE New
  <2>1. Stored = {} /\ Stored' = {} /\ StoredObjects = {} /\ StoredObjects' = {}
    BY <1>1, NewStored DEF StoredObjects
  <2>2. live' = {} /\ pc' = "idle" /\ free_funcs' = FALSE
    BY <1>1, <2>1 DEF New, OwnInv
  <2> QED BY <2>1, <2>2 DEF OwnInv, OneOfEachValue
<1>2. CASE RegisterFreeFunctions
  <2>1. Stored = {} /\ Stored' = {}
    BY <1>2, NothingStored, QuietStored DEF RegisterFreeFunctions
  <2>2. StoredObjects = {} /\ StoredObjects' = {}
    BY <2>1 DEF StoredObjects
  <2>3. live' = {} /\ pc' = "idle"
    BY <1>2, <2>2 DEF RegisterFreeFunctions, OwnInv
  <2> QED BY <2>1, <2>2, <2>3 DEF OwnInv, OneOfEachValue
<1>3. CASE Free
  <2>1. Stored' = {} /\ StoredObjects' = {}
    BY <1>3, FreeStored DEF StoredObjects
  <2>2. live' = {} /\ pc' = "none"
    BY <1>3 DEF Free, OwnInv, Release
  <2> QED BY <2>1, <2>2 DEF OwnInv, OneOfEachValue
<1>4. ASSUME NEW k \in KeyObj, NEW v \in ValObj, Insert(k, v)
      PROVE  OwnInv'
  <2>1. Stored' = Stored /\ live' = live /\ free_funcs' = free_funcs
    BY <1>4, InsertStored DEF Insert
  <2>2. StoredObjects' = StoredObjects
    BY <2>1 DEF StoredObjects
  <2>3. pc' = "idle" \/ arg' = [key |-> k, value |-> v]
    BY <1>4 DEF Insert, EnlargeFails
  <2>4. {k, v} \cap StoredObjects = {}
    BY <1>4 DEF Insert
  <2> QED BY <2>1, <2>2, <2>3, <2>4 DEF OwnInv, OneOfEachValue
<1>5. CASE MoveEntry
  BY <1>5, MoveEntryStored, OwnQuiet DEF MoveEntry
<1>6. CASE NextOldChain
  BY <1>6, QuietStored, OwnQuiet DEF NextOldChain
<1>7. CASE EndRehash
  BY <1>7, EndRehashStored, OwnQuiet DEF EndRehash
<1>8. CASE Place
  BY <1>8, OwnPlace
<1>9. ASSUME NEW k \in Key, RemoveKey(k) PROVE OwnInv'
  BY <1>9, OwnRemove
<1>10. CASE Iterate \/ IterNext
  BY <1>10, QuietStored, OwnQuiet DEF Iterate, IterNext
<1>11. CASE UNCHANGED vars
  BY <1>11, QuietStored, OwnQuiet DEF vars
<1> QED
  BY <1>1, <1>2, <1>3, <1>4, <1>5, <1>6, <1>7, <1>8, <1>9, <1>10, <1>11 DEF Next, InsertSteps

(* With free functions registered, the table owns exactly the objects its  *)
(* entries point at, each once: no history of overwrites, refusals,        *)
(* enlargements and removals leaks an object, frees one that is stored, or *)
(* frees one twice.                                                        *)
THEOREM OwnershipTheorem == Spec => []Ownership
<1>1. Init => OwnInv
  <2> SUFFICES ASSUME Init PROVE OwnInv
    OBVIOUS
  <2>1. Stored = {}
    BY EmptyMembers DEF Init, Stored
  <2> QED BY <2>1 DEF Init, OwnInv, OneOfEachValue, StoredObjects
<1> QED
  BY InitInv, NextInv, <1>1, OwnNext, OwnHolds, PTL DEF Spec

-----------------------------------------------------------------------------
(* The map.  A set of entries of which no two have one key is a function   *)
(* from keys to values; the steps that change it are the map's operations. *)

BindingsOf(S) == [k \in ClassesOf(S) |-> (CHOOSE e \in S : Class(e) = k).value]

LEMMA BindingAt ==
  ASSUME NEW S, OneOfEachKey(S), NEW e \in S
  PROVE  Class(e) \in ClassesOf(S) /\ BindingsOf(S)[Class(e)] = e.value
<1>1. Class(e) \in ClassesOf(S)
  BY DEF ClassesOf
<1>2. (CHOOSE f \in S : Class(f) = Class(e)) = e
  BY DEF OneOfEachKey
<1> QED BY <1>1, <1>2 DEF BindingsOf

(* An entry in the place of the one with its key, if there is one. *)
LEMMA BindingsPut ==
  ASSUME NEW S, OneOfEachKey(S), NEW e
  PROVE  BindingsOf(Without(S, Class(e)) \cup {e})
         = [x \in DOMAIN BindingsOf(S) \cup {Class(e)} |->
              IF x = Class(e) THEN e.value ELSE BindingsOf(S)[x]]
<1> DEFINE T == Without(S, Class(e)) \cup {e}
           D == DOMAIN BindingsOf(S) \cup {Class(e)}
           g == [x \in D |-> IF x = Class(e) THEN e.value ELSE BindingsOf(S)[x]]
<1>1. OneOfEachKey(T)
  BY DEF OneOfEachKey, Without
<1>2. DOMAIN BindingsOf(T) = ClassesOf(T) /\ DOMAIN BindingsOf(S) = ClassesOf(S)
  BY DEF BindingsOf
<1>3. ClassesOf(T) = D
  BY <1>2 DEF ClassesOf, Without
<1>4. ASSUME NEW x \in D PROVE BindingsOf(T)[x] = g[x]
  <2>1. CASE x = Class(e)
    <3>1. e \in T
      OBVIOUS
    <3> HIDE DEF T
    <3>2. BindingsOf(T)[Class(e)] = e.value
      BY <1>1, <3>1, BindingAt
    <3> QED BY <3>2, <2>1
  <2>2. CASE x # Class(e)
    <3>1. PICK f \in S : Class(f) = x
      BY <1>2, <2>2 DEF ClassesOf
    <3>2. f \in T
      BY <3>1, <2>2 DEF Without
    <3> HIDE DEF T
    <3>3. BindingsOf(T)[x] = f.value /\ BindingsOf(S)[x] = f.value
      BY <1>1, <3>1, <3>2, BindingAt
    <3> QED BY <3>3, <2>2
  <2> QED BY <2>1, <2>2
<1>5. BindingsOf(T) = [x \in D |-> BindingsOf(T)[x]]
  BY <1>3 DEF BindingsOf
<1> QED BY <1>4, <1>5

LEMMA BindingsRemove ==
  ASSUME NEW S, OneOfEachKey(S), NEW k
  PROVE  BindingsOf(Without(S, k)) = [x \in DOMAIN BindingsOf(S) \ {k} |-> BindingsOf(S)[x]]
<1> DEFINE T == Without(S, k)
           D == DOMAIN BindingsOf(S) \ {k}
<1>1. OneOfEachKey(T)
  BY DEF OneOfEachKey, Without
<1>2. DOMAIN BindingsOf(T) = ClassesOf(T) /\ DOMAIN BindingsOf(S) = ClassesOf(S)
  BY DEF BindingsOf
<1>3. ClassesOf(T) = D
  BY <1>2 DEF ClassesOf, Without
<1>4. ASSUME NEW x \in D PROVE BindingsOf(T)[x] = BindingsOf(S)[x]
  <2>1. PICK f \in S : Class(f) = x
    BY <1>2 DEF ClassesOf
  <2>2. f \in T
    BY <2>1 DEF Without
  <2> HIDE DEF T
  <2> QED BY <1>1, <2>1, <2>2, BindingAt
<1>5. BindingsOf(T) = [x \in D |-> BindingsOf(T)[x]]
  BY <1>3 DEF BindingsOf
<1> QED BY <1>4, <1>5

LEMMA BindingsNone == BindingsOf({}) = [k \in {} |-> 0]
<1>1. ClassesOf({}) = {}
  BY DEF ClassesOf
<1> QED BY <1>1 DEF BindingsOf

LEMMA MapIs == Bindings = BindingsOf(Stored)
BY StoredObjectsAre DEF Bindings, BindingsOf

LEMMA MapIsAfter == Bindings' = BindingsOf(Stored')
BY DEF Bindings, BindingsOf, StoredKeys, ClassesOf

LEMMA MapPlace == ASSUME IInv, Place PROVE Abstract!Next
<1>1. OneOfEachKey(Stored) /\ arg \in Entry
  BY StoredDistinct DEF IInv, Control, Place
<1>2. Class(arg) \in Key /\ arg.value \in ValObj
  BY <1>1, KeyOfEntry, EntryParts
<1>3. CASE Stored' = Without(Stored, Class(arg)) \cup {arg} /\ result' = 1
  <2>1. BindingsOf(Stored') = [x \in DOMAIN BindingsOf(Stored) \cup {Class(arg)} |->
                               IF x = Class(arg) THEN arg.value ELSE BindingsOf(Stored)[x]]
    BY <1>1, <1>3, BindingsPut
  <2>2. Bindings' = BindingsOf(Stored')
    BY MapIsAfter
  <2>3. Bindings' = [x \in DOMAIN Bindings \cup {Class(arg)} |->
                       IF x = Class(arg) THEN arg.value ELSE Bindings[x]]
    BY <2>1, <2>2, MapIs
  <2>4. PICK k \in Key, v \in ValObj : k = Class(arg) /\ v = arg.value
    BY <1>2
  <2>5. Abstract!Put(k, v)
    BY <2>3, <2>4, <1>3 DEF Abstract!Put
  <2> QED BY <2>5 DEF Abstract!Next
<1>4. CASE \E old \in Stored : /\ Class(old) = Class(arg)
                               /\ Stored' = (Stored \ {old}) \cup {arg}
                               /\ result' = 1
  <2>1. PICK old \in Stored : Class(old) = Class(arg) /\ Stored' = (Stored \ {old}) \cup {arg}
    BY <1>4
  <2>2. Stored \ {old} = Without(Stored, Class(arg))
    BY <2>1, <1>1 DEF OneOfEachKey, Without
  <2> QED BY <2>1, <2>2, <1>4, <1>3
<1>5. CASE Class(arg) \notin StoredKeys /\ Stored' = Stored \cup {arg} /\ result' = 1
  <2>1. Stored = Without(Stored, Class(arg))
    BY <1>5 DEF StoredKeys, Without
  <2> QED BY <2>1, <1>5, <1>3
<1>6. CASE Stored' = Stored /\ result' = 0
  <2>1. Bindings' = Bindings
    BY <1>6 DEF Bindings, StoredKeys
  <2> QED BY <2>1, <1>6 DEF Abstract!Next, Abstract!PutRefused
<1> QED BY <1>4, <1>5, <1>6, PlaceStored

LEMMA MapRemove == ASSUME IInv, NEW k \in Key, RemoveKey(k) PROVE Abstract!Next
<1>1. OneOfEachKey(Stored)
  BY StoredDistinct
<1>2. PICK r \in {0, 1} : /\ Stored' = Without(Stored, k)
                          /\ result' = r
                          /\ r = IF k \in StoredKeys THEN 1 ELSE 0
  <2>1. CASE \E old \in Stored :
               Class(old) = k /\ Stored' = Stored \ {old} /\ result' = 1
    <3>1. PICK old \in Stored : Class(old) = k /\ Stored' = Stored \ {old}
      BY <2>1
    <3>2. Stored \ {old} = Without(Stored, k)
      BY <3>1, <1>1 DEF OneOfEachKey, Without
    <3>3. k \in StoredKeys
      BY <3>1 DEF StoredKeys
    <3> QED BY <3>1, <3>2, <3>3, <2>1
  <2>2. CASE k \notin StoredKeys /\ Stored' = Stored /\ result' = 0
    <3>1. Stored = Without(Stored, k)
      BY <2>2 DEF StoredKeys, Without
    <3> QED BY <3>1, <2>2
  <2> QED BY <2>1, <2>2, RemoveStored
<1>3. BindingsOf(Stored') = [x \in DOMAIN BindingsOf(Stored) \ {k} |-> BindingsOf(Stored)[x]]
  BY <1>1, <1>2, BindingsRemove
<1>4. Bindings' = BindingsOf(Stored')
  BY MapIsAfter
<1>5. Bindings' = [x \in DOMAIN Bindings \ {k} |-> Bindings[x]] /\ DOMAIN Bindings = StoredKeys
  BY <1>3, <1>4, MapIs DEF Bindings
<1>6. Abstract!Remove(k)
  BY <1>2, <1>5 DEF Abstract!Remove
<1> QED BY <1>6 DEF Abstract!Next

LEMMA MapNext == IInv /\ [Next]_vars => [Abstract!Next]_(Abstract!vars)
<1> SUFFICES ASSUME IInv, [Next]_vars
             PROVE  [Abstract!Next]_(Abstract!vars)
  OBVIOUS
<1>1. ASSUME Stored' = Stored PROVE Bindings' = Bindings
  BY <1>1 DEF Bindings, StoredKeys
<1>2. ASSUME Stored' = Stored, result' = result PROVE UNCHANGED Abstract!vars
  BY <1>1, <1>2 DEF Abstract!vars
<1>3. CASE New
  BY <1>3, <1>2, NewStored DEF New
<1>4. CASE RegisterFreeFunctions
  BY <1>4, <1>2, QuietStored DEF RegisterFreeFunctions
<1>5. CASE Free
  <2>1. Stored' = {}
    BY <1>5, FreeStored
  <2>2. Bindings' = [k \in {} |-> 0]
    BY <2>1, MapIsAfter, BindingsNone
  <2>3. Abstract!Destroy
    BY <2>2, <1>5 DEF Free, Abstract!Destroy, Abstract!Empty
  <2> QED BY <2>3 DEF Abstract!Next
<1>6. ASSUME NEW k \in KeyObj, NEW v \in ValObj, Insert(k, v)
      PROVE  [Abstract!Next]_(Abstract!vars)
  <2>1. Stored' = Stored
    BY <1>6, InsertStored
  <2>2. result' = result \/ result' = 0
    BY <1>6 DEF Insert, Enlarge, EnlargeFails
  <2>3. CASE result' = result
    BY <2>1, <2>3, <1>2
  <2>4. CASE result' = 0
    BY <2>1, <2>4, <1>1 DEF Abstract!Next, Abstract!PutRefused
  <2> QED BY <2>2, <2>3, <2>4
<1>7. CASE MoveEntry
  BY <1>7, <1>2, MoveEntryStored DEF MoveEntry
<1>8. CASE NextOldChain
  BY <1>8, <1>2, QuietStored DEF NextOldChain
<1>9. CASE EndRehash
  BY <1>9, <1>2, EndRehashStored DEF EndRehash
<1>10. CASE Place
  BY <1>10, MapPlace
<1>11. ASSUME NEW k \in Key, RemoveKey(k) PROVE Abstract!Next
  BY <1>11, MapRemove
<1>12. CASE Iterate \/ IterNext
  BY <1>12, <1>2, QuietStored DEF Iterate, IterNext
<1>13. CASE UNCHANGED vars
  BY <1>13, <1>2, QuietStored DEF vars
<1> QED
  BY <1>3, <1>4, <1>5, <1>6, <1>7, <1>8, <1>9, <1>10, <1>11, <1>12, <1>13
  DEF Next, InsertSteps

(* The table is a map: every insertion, over all the steps of its          *)
(* enlargement, is one put or one refusal, and every other call one        *)
(* operation or none, for any hash function and any failing allocations.   *)
THEOREM HashTableRefinesMap == Spec => ImplementsMap
<1>1. Init => Abstract!Init
  <2> SUFFICES ASSUME Init PROVE Abstract!Init
    OBVIOUS
  <2>1. Stored = {}
    BY EmptyMembers DEF Init, Stored
  <2>2. Bindings = [k \in {} |-> 0]
    BY <2>1, MapIs, BindingsNone
  <2> QED BY <2>2 DEF Init, Abstract!Init, Abstract!Empty
<1> QED
  BY InitInv, NextInv, <1>1, MapNext, PTL DEF Spec, ImplementsMap, Abstract!Spec

-----------------------------------------------------------------------------
(* The iterator.  The keys it has returned are those of the entries before *)
(* the one it points at, chain by chain; the caller may remove any other   *)
(* entry, and the positions after it in its chain move up.                 *)

NextAt(t, n, it, p) ==
  /\ it.next_chain \in 0 .. n - 1
  /\ p \in 1 .. Len(t[it.next_chain])
  /\ t[it.next_chain][p].key = it.next_entry
  /\ \A c \in 0 .. n - 1 : \A q \in 1 .. Len(t[c]) :
       Class(t[c][q]) \in it.returned <=> c < it.next_chain \/ (c = it.next_chain /\ q < p)

IterInv ==
  iter.active =>
    /\ pc = "idle"
    /\ iter.next_entry = NULL => StoredKeys \subseteq iter.returned
    /\ iter.next_entry # NULL => \E p \in Nat : NextAt(table, table_size, iter, p)

LEMMA IterHolds == IInv /\ IterInv => IterationExact
<1> SUFFICES ASSUME IInv, IterInv, iter.active, iter.next_entry # NULL
             PROVE  /\ ClassOf[iter.next_entry] \notin iter.returned
                    /\ iter.next_chain \in DOMAIN table
                    /\ \E e \in ToSet(table[iter.next_chain]) : e.key = iter.next_entry
  BY DEF IterationExact, IterInv
<1>1. PICK p \in Nat : NextAt(table, table_size, iter, p)
  BY DEF IterInv
<1> DEFINE c == iter.next_chain
<1>2. /\ c \in 0 .. table_size - 1 /\ p \in 1 .. Len(table[c])
      /\ table[c][p].key = iter.next_entry
      /\ Class(table[c][p]) \in iter.returned <=> c < c \/ (c = c /\ p < p)
  BY <1>1 DEF NextAt
<1>3. DOMAIN table = 0 .. table_size - 1 /\ table[c] \in Seq(Entry)
  BY <1>2 DEF IInv, TypeOK
<1>4. p \in DOMAIN table[c]
  BY <1>2, <1>3, LenProperties
<1>5. Class(table[c][p]) \notin iter.returned
  BY <1>2
<1>6. table[c][p] \in ToSet(table[c])
  BY <1>4 DEF ToSet
<1> QED BY <1>2, <1>3, <1>5, <1>6 DEF Class

(* Cutting another entry out leaves the iterator where it was. *)
LEMMA CutNext ==
  ASSUME NEW n \in Nat, NEW t \in Table(n), NEW c \in 0 .. n - 1,
         NEW x \in 1 .. Len(t[c]), NEW s, IsCut(s, t[c], x),
         NEW u, u = WithChain(t, c, s), NEW it, NEW p \in Nat, NextAt(t, n, it, p),
         ~(c = it.next_chain /\ x = p)
  PROVE  \E r \in Nat : NextAt(u, n, it, r)
<1> DEFINE nc == it.next_chain
           r == IF c = nc /\ x < p THEN p - 1 ELSE p
<1>1. \A d \in 0 .. n - 1 : Len(t[d]) \in Nat
  BY LenProperties DEF Table
<1>2. /\ \A d \in 0 .. n - 1 : d # c => u[d] = t[d]
      /\ u[c] = s
      /\ Len(s) = Len(t[c]) - 1
      /\ \A q \in 1 .. Len(t[c]) - 1 : s[q] = IF q < x THEN t[c][q] ELSE t[c][q + 1]
  BY DEF Table, WithChain, IsCut
<1>3. /\ nc \in 0 .. n - 1
      /\ p \in 1 .. Len(t[nc])
      /\ t[nc][p].key = it.next_entry
      /\ \A d \in 0 .. n - 1 : \A q \in 1 .. Len(t[d]) :
           Class(t[d][q]) \in it.returned <=> d < nc \/ (d = nc /\ q < p)
  BY DEF NextAt
<1>4. ~(c = nc /\ x = p)
  OBVIOUS
<1> HIDE DEF nc
<1>5. r \in Nat /\ r \in 1 .. Len(u[nc]) /\ u[nc][r].key = it.next_entry
  <2>1. CASE c # nc
    BY <2>1, <1>2, <1>3
  <2>2. CASE c = nc /\ x < p
    <3>1. /\ p - 1 \in 1 .. Len(t[c]) - 1 /\ ~(p - 1 < x)
      BY <2>2, <1>1, <1>3
    <3>2. u[c][p - 1] = t[c][(p - 1) + 1]
      BY <3>1, <1>2
    <3>3. (p - 1) + 1 = p /\ r = p - 1
      BY <2>2, <1>3
    <3> QED BY <2>2, <3>1, <3>2, <3>3, <1>1, <1>2, <1>3
  <2>3. CASE c = nc /\ x > p
    <3>1. p \in 1 .. Len(t[c]) - 1 /\ p < x
      BY <2>3, <1>1, <1>3
    <3>2. u[c][p] = t[c][p] /\ r = p
      BY <3>1, <1>2
    <3> QED BY <2>3, <3>1, <3>2, <1>1, <1>2, <1>3
  <2> QED BY <2>1, <2>2, <2>3, <1>4, <1>3
<1>6. ASSUME NEW d \in 0 .. n - 1, NEW q \in 1 .. Len(u[d])
      PROVE  Class(u[d][q]) \in it.returned <=> d < nc \/ (d = nc /\ q < r)
  <2>1. CASE d # c
    <3>1. u[d] = t[d] /\ (d = nc => r = p)
      BY <2>1, <1>2
    <3> QED BY <3>1, <1>3
  <2>2. CASE d = c /\ q < x
    <3>1. q \in 1 .. Len(t[c]) /\ u[d][q] = t[c][q]
      BY <2>2, <1>1, <1>2
    <3>2. Class(u[d][q]) \in it.returned <=> d < nc \/ (d = nc /\ q < p)
      BY <3>1, <2>2, <1>3
    <3>3. d = nc => (q < p <=> q < r)
      BY <2>2, <1>3, <1>4
    <3> QED BY <3>2, <3>3
  <2>3. CASE d = c /\ ~(q < x)
    <3>1. q + 1 \in 1 .. Len(t[c]) /\ u[d][q] = t[c][q + 1]
      BY <2>3, <1>1, <1>2
    <3>2. Class(u[d][q]) \in it.returned <=> d < nc \/ (d = nc /\ q + 1 < p)
      BY <3>1, <2>3, <1>3
    <3>3. d = nc => (q + 1 < p <=> q < r)
      BY <2>3, <1>3, <1>4
    <3> QED BY <3>2, <3>3
  <2> QED BY <2>1, <2>2, <2>3
<1>7. NextAt(u, n, it, r)
  BY <1>3, <1>5, <1>6 DEF NextAt, nc
<1> QED BY <1>5, <1>7

(* The chains the iterator passes over are empty. *)
LEMMA NextChainFirst ==
  ASSUME TypeOK, NEW c \in Nat, NEW d, d = NextChain(c)
  PROVE  \/ /\ d = table_size
            /\ \A e \in 0 .. table_size - 1 : e >= c => table[e] = <<>>
         \/ /\ d \in 0 .. table_size - 1 /\ d >= c
            /\ Len(table[d]) >= 1
            /\ table[d][1] \in Entry
            /\ \A e \in 0 .. table_size - 1 : e >= c /\ e < d => table[e] = <<>>
<1> DEFINE rest == {x \in c .. table_size - 1 : table[x] # <<>>}
<1>1. table_size \in Nat
  BY DEF TypeOK
<1>2. CASE rest = {}
  BY <1>1, <1>2 DEF NextChain
<1>3. CASE rest # {}
  <2> HIDE DEF rest
  <2>0. rest \in SUBSET Nat
    BY <1>1 DEF rest
  <2>1. \E x \in rest : \A e \in rest : x <= e
    BY <1>3, <2>0, LeastExists
  <2>2. d \in rest /\ \A e \in rest : d <= e
    BY <1>3, <2>1 DEF NextChain, rest
  <2>3. d \in 0 .. table_size - 1 /\ d >= c /\ table[d] # <<>> /\ table[d] \in Seq(Entry)
    BY <1>1, <2>2 DEF TypeOK, rest
  <2>4. Len(table[d]) >= 1 /\ table[d][1] \in Entry
    BY <2>3, ElementOfSeq, EmptySeq, LenProperties
  <2>5. ASSUME NEW e \in 0 .. table_size - 1, e >= c, e < d PROVE table[e] = <<>>
    <3>1. e \notin rest
      BY <2>2, <2>3, <2>5
    <3> QED BY <3>1, <2>5, <1>1 DEF rest
  <2> QED BY <2>3, <2>4, <2>5
<1> QED BY <1>2, <1>3

LEMMA IdleKeys ==
  ASSUME IInv, pc = "idle", NEW k
  PROVE  k \in StoredKeys <=>
           \E c \in 0 .. table_size - 1 : \E q \in 1 .. Len(table[c]) : Class(table[c][q]) = k
BY IdleStored, TypeTables, KeysOfMembers DEF IInv

LEMMA IterateIter == ASSUME IInv, Iterate PROVE IterInv'
<1> DEFINE c == NextChain(0)
<1>1. /\ pc = "idle" /\ pc' = "idle" /\ table' = table /\ table_size' = table_size
      /\ StoredKeys' = StoredKeys
  BY DEF Iterate, contents, loop, StoredKeys, Stored
<1>2. iter' = [active |-> TRUE, next_entry |-> FirstOf(c),
               next_chain |-> IF c < table_size THEN c ELSE 0, returned |-> {}]
  BY DEF Iterate
<1> HIDE DEF c
<1>3. table_size \in Nat
  BY DEF IInv, TypeOK
<1>4. CASE /\ c = table_size
           /\ \A e \in 0 .. table_size - 1 : e >= 0 => table[e] = <<>>
  <2>1. iter'.next_entry = NULL
    BY <1>2, <1>3, <1>4 DEF FirstOf
  <2>2. \A e \in 0 .. table_size - 1 : 1 .. Len(table[e]) = {}
    BY <1>4
  <2>3. StoredKeys = {}
    BY <2>2, <1>1, IdleKeys
  <2> QED BY <2>1, <2>3, <1>1 DEF IterInv
<1>5. CASE /\ c \in 0 .. table_size - 1 /\ c >= 0
           /\ Len(table[c]) >= 1
           /\ table[c][1] \in Entry
           /\ \A e \in 0 .. table_size - 1 : e >= 0 /\ e < c => table[e] = <<>>
  <2>1. /\ iter'.next_entry = table[c][1].key /\ iter'.next_chain = c
        /\ iter'.returned = {}
    BY <1>2, <1>3, <1>5 DEF FirstOf
  <2>2. iter'.next_entry # NULL
    BY <2>1, <1>5, KeyAssumption DEF Entry
  <2>3. \A e \in 0 .. table_size - 1 : \A q \in 1 .. Len(table[e]) :
          ~(e < c) /\ ~(e = c /\ q < 1)
    BY <1>3, <1>5
  <2>4. 1 \in 1 .. Len(table[c])
    <3>1. Len(table[c]) \in Nat
      BY <1>5, LenProperties DEF IInv, TypeOK
    <3> QED BY <3>1, <1>5
  <2>5. NextAt(table, table_size, iter', 1)
    BY <1>5, <2>1, <2>3, <2>4 DEF NextAt
  <2> QED BY <2>2, <2>5, <1>1 DEF IterInv
<1>6. 0 \in Nat /\ TypeOK
  BY DEF IInv
<1> QED BY <1>4, <1>5, <1>6, NextChainFirst DEF c

LEMMA IterNextIter == ASSUME IInv, IterInv, IterNext PROVE IterInv'
<1> DEFINE nc == iter.next_chain
           k == ClassOf[iter.next_entry]
           f == Find(table[nc], k)
           more == f < Len(table[nc])
           c == NextChain(nc + 1)
<1>1. /\ pc = "idle" /\ pc' = "idle" /\ table' = table /\ table_size' = table_size
      /\ StoredKeys' = StoredKeys
  BY DEF IterNext, contents, loop, StoredKeys, Stored
<1>2. iter' = [iter EXCEPT
                 !.returned = @ \cup {k},
                 !.next_entry = IF more THEN table[nc][f + 1].key ELSE FirstOf(c),
                 !.next_chain = ChainOfNext(more, c)]
  BY DEF IterNext
<1>3. iter \in [active : BOOLEAN, next_entry : KeyObj \cup {NULL},
                next_chain : Nat, returned : SUBSET Key]
  BY DEF IInv, TypeOK
<1>4. iter.next_entry # NULL
  BY DEF IterNext
<1>5. CASE ~iter.active
  BY <1>2, <1>3, <1>5 DEF IterInv
<1>6. CASE iter.active
  <2>1. PICK p \in Nat : NextAt(table, table_size, iter, p)
    BY <1>4, <1>6 DEF IterInv
  <2>2. /\ nc \in 0 .. table_size - 1 /\ p \in 1 .. Len(table[nc])
        /\ table[nc][p].key = iter.next_entry
        /\ \A d \in 0 .. table_size - 1 : \A q \in 1 .. Len(table[d]) :
             Class(table[d][q]) \in iter.returned <=> d < nc \/ (d = nc /\ q < p)
    BY <2>1 DEF NextAt
  <2>3. k = Class(table[nc][p])
    BY <2>2 DEF Class
  <2>4. /\ DOMAIN table = 0 .. table_size - 1 /\ table_size \in Nat
        /\ \A d \in 0 .. table_size - 1 :
             table[d] \in Seq(Entry) /\ DOMAIN table[d] = 1 .. Len(table[d]) /\ Len(table[d]) \in Nat
    BY LenProperties DEF IInv, TypeOK
  <2>5. \A a, b \in 0 .. table_size - 1 : \A x \in 1 .. Len(table[a]), y \in 1 .. Len(table[b]) :
          Class(table[a][x]) = Class(table[b][y]) => a = b /\ x = y
    <3>1. \A a, b \in 0 .. table_size - 1 : \A x \in DOMAIN table[a], y \in DOMAIN table[b] :
            Class(table[a][x]) = Class(table[b][y]) => a = b /\ x = y
      BY <2>4 DEF IInv, TwoTables, DistinctIn
    <3> QED BY <3>1, <2>4
  <2>6. f = p
    <3>1. p \in Matches(table[nc], k)
      BY <2>2, <2>3, <2>4 DEF Matches
    <3>2. f \in Matches(table[nc], k)
      BY <3>1 DEF Find
    <3>3. f \in 1 .. Len(table[nc]) /\ Class(table[nc][f]) = k
      BY <3>2, <2>2, <2>4 DEF Matches
    <3> QED BY <3>3, <2>2, <2>3, <2>5
  <2> HIDE DEF f, c, k, nc
  <2>7. \A d \in 0 .. table_size - 1 : \A q \in 1 .. Len(table[d]) :
          Class(table[d][q]) \in iter.returned \cup {k}
            <=> d < nc \/ (d = nc /\ q < p) \/ (d = nc /\ q = p)
    BY <2>2, <2>3, <2>5
  <2>8. iter'.returned = iter.returned \cup {k}
    BY <1>2, <1>3
  <2>9. CASE more
    <3>1. /\ iter'.next_entry = table[nc][p + 1].key
          /\ iter'.next_chain = nc
      BY <1>2, <1>3, <2>6, <2>9 DEF ChainOfNext, nc
    <3>2. p + 1 \in 1 .. Len(table[nc])
      BY <2>2, <2>4, <2>6, <2>9
    <3>3. iter'.next_entry # NULL
      <4>1. table[nc][p + 1] \in Entry
        BY <2>2, <2>4, <3>2, ElementOfSeq
      <4> QED BY <3>1, <4>1, KeyAssumption DEF Entry
    <3>4. \A d \in 0 .. table_size - 1 : \A q \in 1 .. Len(table[d]) :
            Class(table[d][q]) \in iter'.returned <=> d < nc \/ (d = nc /\ q < p + 1)
      <4>1. \A q \in Int : q < p + 1 <=> q < p \/ q = p
        OBVIOUS
      <4>2. \A d \in 0 .. table_size - 1 : \A q \in 1 .. Len(table[d]) : q \in Int
        OBVIOUS
      <4> QED BY <4>1, <4>2, <2>7, <2>8
    <3>5. NextAt(table, table_size, iter', p + 1)
      BY <3>1, <3>2, <3>4, <2>2 DEF NextAt
    <3> QED BY <3>3, <3>5, <1>1 DEF IterInv
  <2>10. CASE ~more
    <3>1. iter'.next_entry = FirstOf(c) /\ iter'.next_chain = c
      BY <1>2, <1>3, <2>10 DEF ChainOfNext
    <3>2. p = Len(table[nc])
      BY <2>2, <2>4, <2>6, <2>10
    <3>3. \A d \in 0 .. table_size - 1 : \A q \in 1 .. Len(table[d]) :
            Class(table[d][q]) \in iter'.returned <=> d < nc + 1
      <4>1. \A d \in 0 .. table_size - 1 : \A q \in 1 .. Len(table[d]) :
              d = nc => q < p \/ q = p
        BY <2>2, <2>4, <3>2
      <4>2. \A d \in 0 .. table_size - 1 : d < nc + 1 <=> d < nc \/ d = nc
        BY <2>2
      <4> QED BY <4>1, <4>2, <2>7, <2>8
    <3>4. nc + 1 \in Nat /\ TypeOK
      BY <2>2 DEF IInv
    <3>5. CASE /\ c = table_size
               /\ \A e \in 0 .. table_size - 1 : e >= nc + 1 => table[e] = <<>>
      <4>1. iter'.next_entry = NULL
        BY <3>1, <3>5, <2>4 DEF FirstOf
      <4>2. \A d \in 0 .. table_size - 1 : \A q \in 1 .. Len(table[d]) :
              Class(table[d][q]) \in iter'.returned
        <5> TAKE d \in 0 .. table_size - 1
        <5> TAKE q \in 1 .. Len(table[d])
        <5>1. table[d] # <<>>
          OBVIOUS
        <5>2. d < nc + 1
          BY <5>1, <3>5, <2>2
        <5> QED BY <5>2, <3>3
      <4>3. StoredKeys \subseteq iter'.returned
        BY <4>2, <1>1, IdleKeys
      <4> QED BY <4>1, <4>3, <1>1 DEF IterInv
    <3>6. CASE /\ c \in 0 .. table_size - 1 /\ c >= nc + 1
               /\ Len(table[c]) >= 1
               /\ table[c][1] \in Entry
               /\ \A e \in 0 .. table_size - 1 : e >= nc + 1 /\ e < c => table[e] = <<>>
      <4>1. iter'.next_entry = table[c][1].key
        BY <3>1, <3>6, <2>4 DEF FirstOf
      <4>2. iter'.next_entry # NULL
        BY <4>1, <3>6, KeyAssumption DEF Entry
      <4>3. ASSUME NEW d \in 0 .. table_size - 1, NEW q \in 1 .. Len(table[d])
            PROVE  Class(table[d][q]) \in iter'.returned <=> d < c \/ (d = c /\ q < 1)
        <5>1. table[d] # <<>>
          BY <4>3
        <5>2. d < nc + 1 <=> d < c
          BY <5>1, <3>6, <2>2
        <5> QED BY <5>2, <3>3
      <4>4. 1 \in 1 .. Len(table[c])
        BY <3>6, <2>4
      <4>5. NextAt(table, table_size, iter', 1)
        BY <3>1, <3>6, <4>1, <4>3, <4>4 DEF NextAt
      <4> QED BY <4>2, <4>5, <1>1 DEF IterInv
    <3> QED BY <3>4, <3>5, <3>6, NextChainFirst DEF c
  <2> QED BY <2>9, <2>10
<1> QED BY <1>5, <1>6

LEMMA RemoveIter == ASSUME IInv, IterInv, NEW k \in Key, RemoveKey(k) PROVE IterInv'
<1> DEFINE index == Index(k, table_size)
           x == Find(table[index], k)
<1>1. pc = "idle" /\ pc' = "idle" /\ table_size' = table_size /\ iter' = iter
  BY DEF RemoveKey
<1>2. /\ table \in Table(table_size) /\ table_size \in Nat /\ table_size > 0
      /\ PlacedIn(table, table_size)
  BY TypeTables DEF IInv, TypeOK, Control, TwoTables, RemoveKey
<1>3. /\ index \in 0 .. table_size - 1
      /\ table[index] \in Seq(Entry)
      /\ x # 0 => x \in 1 .. Len(table[index]) /\ Class(table[index][x]) = k
  BY <1>2, FindDecides
<1>4. \/ x # 0 /\ table' = [table EXCEPT ![index] = RemoveAt(@, x)]
      \/ x = 0 /\ table' = table
  BY DEF RemoveKey
<1>5. Stored' \subseteq Stored
  BY RemoveStored
<1>6. StoredKeys' \subseteq StoredKeys
  BY <1>5 DEF StoredKeys
<1>7. iter.next_entry # NULL => ClassOf[iter.next_entry] # k
  BY DEF RemoveKey
<1> HIDE DEF index, x
<1>8. ASSUME iter.active, iter.next_entry # NULL
      PROVE  \E p \in Nat : NextAt(table', table_size, iter, p)
  <2>1. PICK p \in Nat : NextAt(table, table_size, iter, p)
    BY <1>8 DEF IterInv
  <2>2. CASE x = 0
    BY <2>1, <2>2, <1>4
  <2>3. CASE x # 0
    <3>1. table' = WithChain(table, index, RemoveAt(table[index], x))
      BY <2>3, <1>4 DEF WithChain
    <3>2. IsCut(RemoveAt(table[index], x), table[index], x)
      BY <1>3, <2>3, RemoveAtElements DEF IsCut
    <3>3. ~(index = iter.next_chain /\ x = p)
      BY <2>1, <2>3, <1>3, <1>7, <1>8 DEF NextAt, Class
    <3> QED BY <1>2, <1>3, <2>1, <2>3, <3>1, <3>2, <3>3, CutNext
  <2> QED BY <2>2, <2>3
<1> QED BY <1>1, <1>6, <1>8 DEF IterInv

LEMMA IterInductive == IInv /\ IterInv /\ [Next]_vars => IterInv'
<1> SUFFICES ASSUME IInv, IterInv, [Next]_vars
             PROVE  IterInv'
  OBVIOUS
<1>1. ASSUME pc # "idle", iter' = iter PROVE IterInv'
  BY <1>1 DEF IterInv
<1>2. CASE New \/ MoveEntry \/ NextOldChain \/ EndRehash
  BY <1>2, <1>1 DEF New, MoveEntry, NextOldChain, EndRehash
<1>3. CASE Place
  BY <1>3, <1>1 DEF Place
<1>4. CASE RegisterFreeFunctions \/ UNCHANGED vars
  <2>1. /\ table' = table /\ table_size' = table_size /\ pc' = pc /\ iter' = iter
        /\ StoredKeys' = StoredKeys
    BY <1>4 DEF RegisterFreeFunctions, vars, contents, loop, StoredKeys, Stored
  <2> QED BY <2>1 DEF IterInv
<1>5. CASE Free
  BY <1>5 DEF Free, IterInv, NoIterator
<1>6. ASSUME NEW k \in KeyObj, NEW v \in ValObj, Insert(k, v) PROVE IterInv'
  BY <1>6 DEF Insert, IterInv, NoIterator
<1>7. ASSUME NEW k \in Key, RemoveKey(k) PROVE IterInv'
  BY <1>7, RemoveIter
<1>8. CASE Iterate
  BY <1>8, IterateIter
<1>9. CASE IterNext
  BY <1>9, IterNextIter
<1> QED BY <1>2, <1>3, <1>4, <1>5, <1>6, <1>7, <1>8, <1>9 DEF Next, InsertSteps

(* An iteration returns every key of the table once, whatever other keys   *)
(* the caller removes on the way.                                          *)
THEOREM IterationTheorem == Spec => []IterationExact
<1>1. Init => IterInv
  BY DEF Init, IterInv, NoIterator
<1> QED BY InitInv, NextInv, <1>1, IterInductive, IterHolds, PTL DEF Spec
=============================================================================
