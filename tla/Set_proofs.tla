----------------------------- MODULE Set_proofs -----------------------------
(***************************************************************************)
(* Proofs about the sets, for any values, hashes, list of primes and       *)
(* number of sets.                                                         *)
(***************************************************************************)
EXTENDS MC_Sets, SequenceTheorems, FiniteSetTheorems, WellFoundedInduction, TLAPS

-----------------------------------------------------------------------------
(* Sequences: a new head, the rest, and a removed position. *)

LEMMA ConsElements ==
  ASSUME NEW S, NEW s \in Seq(S), NEW e \in S
  PROVE  /\ <<e>> \o s \in Seq(S)
         /\ Len(<<e>> \o s) = Len(s) + 1
         /\ \A q \in 1 .. Len(s) + 1 :
              (<<e>> \o s)[q] = IF q = 1 THEN e ELSE s[q - 1]
<1>1. <<e>> \in Seq(S) /\ Len(<<e>>) = 1 /\ <<e>>[1] = e
  OBVIOUS
<1>2. Len(s) \in Nat
  OBVIOUS
<1> QED
  BY <1>1, <1>2, ConcatProperties

LEMMA RemoveAtElements ==
  ASSUME NEW S, NEW s \in Seq(S), NEW p \in 1 .. Len(s)
  PROVE  /\ RemoveAt(s, p) \in Seq(S)
         /\ Len(RemoveAt(s, p)) = Len(s) - 1
         /\ \A q \in 1 .. Len(s) - 1 :
              RemoveAt(s, p)[q] = IF q < p THEN s[q] ELSE s[q + 1]
<1> DEFINE front == SubSeq(s, 1, p - 1)
           back == SubSeq(s, p + 1, Len(s))
<1>1. Len(s) \in Nat /\ \A q \in 1 .. Len(s) : s[q] \in S
  BY ElementOfSeq
<1>2. /\ front \in Seq(S)
      /\ Len(front) = p - 1
      /\ \A q \in 1 .. p - 1 : front[q] = s[q]
  BY <1>1, SubSeqProperties
<1>3. /\ back \in Seq(S)
      /\ Len(back) = Len(s) - p
      /\ \A q \in 1 .. Len(s) - p : back[q] = s[p + q]
  BY <1>1, SubSeqProperties
<1>4. RemoveAt(s, p) = front \o back
  BY DEF RemoveAt
<1> HIDE DEF front, back
<1>5. /\ front \o back \in Seq(S)
      /\ Len(front \o back) = (p - 1) + (Len(s) - p)
      /\ \A q \in 1 .. (p - 1) + (Len(s) - p) :
           (front \o back)[q] = IF q <= p - 1 THEN front[q]
                                ELSE back[q - (p - 1)]
  <2>1. front \in Seq(S) /\ back \in Seq(S)
    BY <1>2, <1>3
  <2>2. /\ front \o back \in Seq(S)
        /\ Len(front \o back) = Len(front) + Len(back)
        /\ \A q \in 1 .. Len(front) + Len(back) :
             (front \o back)[q] = IF q <= Len(front) THEN front[q]
                                  ELSE back[q - Len(front)]
    BY <2>1, ConcatProperties
  <2>3. Len(front) = p - 1 /\ Len(back) = Len(s) - p
    BY <1>2, <1>3
  <2> QED
    BY <2>2, <2>3
<1>6. ASSUME NEW q \in 1 .. Len(s) - 1
      PROVE  RemoveAt(s, p)[q] = IF q < p THEN s[q] ELSE s[q + 1]
  <2>1. CASE q < p
    BY <2>1, <1>1, <1>2, <1>4, <1>5
  <2>2. CASE q >= p
    <3>0. q \in 1 .. (p - 1) + (Len(s) - p) /\ ~(q <= p - 1)
      BY <2>2, <1>1
    <3>1. (front \o back)[q] = back[q - (p - 1)]
      BY <3>0, <1>5
    <3>2. q - (p - 1) \in 1 .. Len(s) - p
      BY <2>2, <1>1
    <3>3. back[q - (p - 1)] = s[p + (q - (p - 1))]
      BY <3>2, <1>3
    <3>4. p + (q - (p - 1)) = q + 1
      BY <1>1
    <3>5. RemoveAt(s, p)[q] = s[q + 1]
      BY <3>1, <3>3, <3>4, <1>4
    <3> QED
      BY <2>2, <3>5, <1>1
  <2> QED
    BY <2>1, <2>2, <1>1
<1> QED
  BY <1>1, <1>4, <1>5, <1>6

LEMMA TailElements ==
  ASSUME NEW S, NEW s \in Seq(S), s # <<>>
  PROVE  /\ Tail(s) \in Seq(S)
         /\ Len(Tail(s)) = Len(s) - 1
         /\ \A q \in 1 .. Len(s) - 1 : Tail(s)[q] = s[q + 1]
         /\ 1 \in 1 .. Len(s)
<1>1. Len(s) \in Nat /\ Len(s) # 0
  BY EmptySeq, LenProperties
<1>2. Tail(s) \in Seq(S) /\ Len(Tail(s)) = Len(s) - 1
  BY HeadTailProperties
<1>3. \A q \in 1 .. Len(s) - 1 : Tail(s)[q] = s[q + 1]
  BY HeadTailProperties
<1> QED BY <1>1, <1>2, <1>3

-----------------------------------------------------------------------------
(* Tables of n chains, well formed; their values and the classes of them.  *)

Table(n) == [0 .. n - 1 -> Seq(Value)]

WellFormedTable(t, n) ==
  /\ n \in Nat
  /\ t \in Table(n)
  /\ PlacedIn(t, n)
  /\ DistinctIn(t)

ClassesOf(V) == {ClassOf[v] : v \in V}
ClassesIn(t) == ClassesOf(StoredIn(t))

LEMMA Chains ==
  ASSUME NEW n \in Nat, NEW t \in Table(n)
  PROVE  /\ DOMAIN t = 0 .. n - 1
         /\ \A c \in 0 .. n - 1 : /\ t[c] \in Seq(Value)
                                 /\ Len(t[c]) \in Nat
                                 /\ DOMAIN t[c] = 1 .. Len(t[c])
                                 /\ \A p \in 1 .. Len(t[c]) : t[c][p] \in Value
BY LenProperties, ElementOfSeq DEF Table

LEMMA Slots ==
  ASSUME NEW n \in Nat, NEW t \in Table(n), NEW v
  PROVE  v \in StoredIn(t) <=>
           \E c \in 0 .. n - 1 : \E p \in 1 .. Len(t[c]) : t[c][p] = v
<1>1. \A c \in 0 .. n - 1 : v \in ToSet(t[c]) <=> \E p \in 1 .. Len(t[c]) : t[c][p] = v
  BY Chains DEF ToSet
<1> QED BY <1>1, Chains DEF StoredIn

LEMMA MembersAreValues ==
  ASSUME NEW n \in Nat, NEW t \in Table(n)
  PROVE  /\ StoredIn(t) \subseteq Value
         /\ IsFiniteSet(StoredIn(t))
         /\ IsFiniteSet(ClassesIn(t))
<1>1. StoredIn(t) \subseteq Value
  <2> SUFFICES ASSUME NEW v \in StoredIn(t) PROVE v \in Value
    OBVIOUS
  <2>1. PICK c \in 0 .. n - 1 : \E p \in 1 .. Len(t[c]) : t[c][p] = v
    BY Slots
  <2> QED BY <2>1, Chains
<1>2. IsFiniteSet(StoredIn(t))
  BY <1>1, SetAssumption, FS_Subset
<1>3. [v \in StoredIn(t) |-> ClassOf[v]] \in Surjection(StoredIn(t), ClassesIn(t))
  BY DEF Surjection, ClassesIn, ClassesOf
<1> QED BY <1>1, <1>2, <1>3, FS_Surjection

(* In a well-formed table a class is in one place at most. *)
LEMMA OnePlace ==
  ASSUME NEW n, NEW t, WellFormedTable(t, n),
         NEW c \in 0 .. n - 1, NEW d \in 0 .. n - 1,
         NEW p \in 1 .. Len(t[c]), NEW q \in 1 .. Len(t[d]),
         ClassOf[t[c][p]] = ClassOf[t[d][q]]
  PROVE  c = d /\ p = q
<1>1. /\ DOMAIN t = 0 .. n - 1 /\ DOMAIN t[c] = 1 .. Len(t[c])
      /\ DOMAIN t[d] = 1 .. Len(t[d])
  BY Chains DEF WellFormedTable
<1>2. Index(t[c][p], n) = c /\ Index(t[d][q], n) = d
  BY <1>1 DEF WellFormedTable, PlacedIn
<1>3. c = d
  BY <1>2 DEF Index
<1> QED BY <1>1, <1>3 DEF WellFormedTable, DistinctIn

LEMMA OneOfEachClass ==
  ASSUME NEW n, NEW t, WellFormedTable(t, n),
         NEW v \in StoredIn(t), NEW w \in StoredIn(t), ClassOf[v] = ClassOf[w]
  PROVE  v = w
<1>1. PICK c \in 0 .. n - 1 : \E p \in 1 .. Len(t[c]) : t[c][p] = v
  BY Slots DEF WellFormedTable
<1>2. PICK p \in 1 .. Len(t[c]) : t[c][p] = v
  BY <1>1
<1>3. PICK d \in 0 .. n - 1 : \E q \in 1 .. Len(t[d]) : t[d][q] = w
  BY Slots DEF WellFormedTable
<1>4. PICK q \in 1 .. Len(t[d]) : t[d][q] = w
  BY <1>3
<1> QED BY <1>2, <1>4, OnePlace

LEMMA IndexInTable ==
  ASSUME NEW v \in Value, NEW n \in Nat, n > 0
  PROVE  Index(v, n) \in 0 .. n - 1
BY SetAssumption DEF Index

(* The walk down the chain that a value hashes to finds its class if the   *)
(* table has it.                                                           *)
LEMMA MatchesDecide ==
  ASSUME NEW n, NEW t, WellFormedTable(t, n), n > 0, NEW v \in Value,
         NEW c, c = Index(v, n)
  PROVE  /\ c \in 0 .. n - 1
         /\ Matches(t[c], v) # {} <=> ClassOf[v] \in ClassesIn(t)
         /\ \A p \in Matches(t[c], v) :
              p \in 1 .. Len(t[c]) /\ ClassOf[t[c][p]] = ClassOf[v]
<1>0. n \in Nat /\ t \in Table(n)
  BY DEF WellFormedTable
<1>1. c \in 0 .. n - 1
  BY <1>0, IndexInTable
<1>2. \A p \in Matches(t[c], v) :
        p \in 1 .. Len(t[c]) /\ ClassOf[t[c][p]] = ClassOf[v]
  BY <1>0, <1>1, Chains DEF Matches
<1>3. ASSUME Matches(t[c], v) # {} PROVE ClassOf[v] \in ClassesIn(t)
  <2>1. PICK p \in 1 .. Len(t[c]) : ClassOf[t[c][p]] = ClassOf[v]
    BY <1>2, <1>3
  <2>2. t[c][p] \in StoredIn(t)
    BY <1>0, <1>1, Slots
  <2> QED BY <2>1, <2>2 DEF ClassesIn, ClassesOf
<1>4. ASSUME ClassOf[v] \in ClassesIn(t) PROVE Matches(t[c], v) # {}
  <2>1. PICK w \in StoredIn(t) : ClassOf[w] = ClassOf[v]
    BY <1>4 DEF ClassesIn, ClassesOf
  <2>2. PICK d \in 0 .. n - 1 : \E p \in 1 .. Len(t[d]) : t[d][p] = w
    BY <1>0, Slots
  <2>3. PICK p \in 1 .. Len(t[d]) : t[d][p] = w
    BY <2>2
  <2>4. DOMAIN t = 0 .. n - 1 /\ DOMAIN t[d] = 1 .. Len(t[d])
    BY <1>0, Chains
  <2>5. Index(w, n) = d
    BY <2>3, <2>4 DEF WellFormedTable, PlacedIn
  <2>6. d = c
    BY <2>1, <2>5 DEF Index
  <2> QED BY <2>1, <2>3, <2>4, <2>6 DEF Matches
<1> QED BY <1>1, <1>2, <1>3, <1>4

WithChain(t, c, s) == [t EXCEPT ![c] = s]

LEMMA EmptyIsWellFormed ==
  ASSUME NEW n \in Nat
  PROVE  /\ WellFormedTable(EmptyTable(n), n)
         /\ StoredIn(EmptyTable(n)) = {}
         /\ ClassesIn(EmptyTable(n)) = {}
<1>1. EmptyTable(n) \in Table(n)
  BY EmptySeq DEF EmptyTable, Table
<1>2. /\ DOMAIN EmptyTable(n) = 0 .. n - 1
      /\ \A c \in 0 .. n - 1 : /\ DOMAIN EmptyTable(n)[c] = {}
                               /\ 1 .. Len(EmptyTable(n)[c]) = {}
  BY DEF EmptyTable
<1>3. PlacedIn(EmptyTable(n), n) /\ DistinctIn(EmptyTable(n))
  BY <1>2 DEF PlacedIn, DistinctIn
<1>4. StoredIn(EmptyTable(n)) = {}
  BY <1>1, <1>2, Slots
<1> QED BY <1>1, <1>3, <1>4 DEF WellFormedTable, ClassesIn, ClassesOf

(* WellFormedTable with the domains spelled out. *)
LEMMA Spelled ==
  ASSUME NEW n \in Nat, NEW t \in Table(n)
  PROVE  WellFormedTable(t, n) <=>
           /\ \A d \in 0 .. n - 1 : \A q \in 1 .. Len(t[d]) : Index(t[d][q], n) = d
           /\ \A d \in 0 .. n - 1 : \A q, r \in 1 .. Len(t[d]) :
                ClassOf[t[d][q]] = ClassOf[t[d][r]] => q = r
<1>1. /\ DOMAIN t = 0 .. n - 1
      /\ \A d \in 0 .. n - 1 : DOMAIN t[d] = 1 .. Len(t[d])
  BY Chains
<1>2. PlacedIn(t, n) <=>
        \A d \in 0 .. n - 1 : \A q \in 1 .. Len(t[d]) : Index(t[d][q], n) = d
  BY <1>1 DEF PlacedIn
<1>3. DistinctIn(t) <=>
        \A d \in 0 .. n - 1 : \A q, r \in 1 .. Len(t[d]) :
          ClassOf[t[d][q]] = ClassOf[t[d][r]] => q = r
  <2>1. ASSUME DistinctIn(t), NEW d \in 0 .. n - 1,
               NEW q \in 1 .. Len(t[d]), NEW r \in 1 .. Len(t[d]),
               ClassOf[t[d][q]] = ClassOf[t[d][r]]
        PROVE  q = r
    BY <1>1, <2>1 DEF DistinctIn
  <2>2. ASSUME \A d \in 0 .. n - 1 : \A q, r \in 1 .. Len(t[d]) :
                 ClassOf[t[d][q]] = ClassOf[t[d][r]] => q = r
        PROVE  DistinctIn(t)
    <3> SUFFICES ASSUME NEW d \in DOMAIN t, NEW q \in DOMAIN t[d], NEW r \in DOMAIN t[d],
                        ClassOf[t[d][q]] = ClassOf[t[d][r]]
                 PROVE  q = r
      BY DEF DistinctIn
    <3>1. d \in 0 .. n - 1 /\ q \in 1 .. Len(t[d]) /\ r \in 1 .. Len(t[d])
      BY <1>1
    <3> QED BY <2>2, <3>1
  <2> QED BY <2>1, <2>2
<1> QED BY <1>2, <1>3 DEF WellFormedTable

(* A value of a new class as the head of the chain that it hashes to. *)
LEMMA PushValue ==
  ASSUME NEW n, NEW t, WellFormedTable(t, n), n > 0, NEW v \in Value,
         ClassOf[v] \notin ClassesIn(t), NEW c, c = Index(v, n),
         NEW u, u = WithChain(t, c, <<v>> \o t[c])
  PROVE  /\ WellFormedTable(u, n)
         /\ StoredIn(u) = StoredIn(t) \cup {v}
         /\ ClassesIn(u) = ClassesIn(t) \cup {ClassOf[v]}
<1>0. n \in Nat /\ t \in Table(n)
  BY DEF WellFormedTable
<1>1. c \in 0 .. n - 1
  BY <1>0, IndexInTable
<1>2. /\ DOMAIN t = 0 .. n - 1
      /\ \A d \in 0 .. n - 1 : /\ t[d] \in Seq(Value)
                               /\ Len(t[d]) \in Nat
                               /\ DOMAIN t[d] = 1 .. Len(t[d])
                               /\ \A p \in 1 .. Len(t[d]) : t[d][p] \in Value
  BY <1>0, Chains
<1>3. /\ <<v>> \o t[c] \in Seq(Value)
      /\ Len(<<v>> \o t[c]) = Len(t[c]) + 1
      /\ \A q \in 1 .. Len(t[c]) + 1 :
           (<<v>> \o t[c])[q] = IF q = 1 THEN v ELSE t[c][q - 1]
  BY <1>1, <1>2, ConsElements
<1>4. /\ u \in Table(n)
      /\ \A d \in 0 .. n - 1 : d # c => u[d] = t[d]
      /\ u[c] = <<v>> \o t[c]
  BY <1>0, <1>1, <1>3 DEF Table, WithChain
<1>6. \A d \in 0 .. n - 1 : \A p \in 1 .. Len(u[d]) :
        \/ d = c /\ p = 1 /\ u[d][p] = v
        \/ d = c /\ p - 1 \in 1 .. Len(t[d]) /\ u[d][p] = t[d][p - 1]
        \/ d # c /\ p \in 1 .. Len(t[d]) /\ u[d][p] = t[d][p]
  <2> SUFFICES ASSUME NEW d \in 0 .. n - 1, NEW p \in 1 .. Len(u[d])
               PROVE  \/ d = c /\ p = 1 /\ u[d][p] = v
                      \/ d = c /\ p - 1 \in 1 .. Len(t[d]) /\ u[d][p] = t[d][p - 1]
                      \/ d # c /\ p \in 1 .. Len(t[d]) /\ u[d][p] = t[d][p]
    OBVIOUS
  <2>1. CASE d # c
    BY <2>1, <1>4
  <2>2. CASE d = c
    <3>1. p \in 1 .. Len(t[c]) + 1 /\ Len(t[c]) \in Nat
      BY <2>2, <1>1, <1>2, <1>3, <1>4
    <3>2. u[d][p] = IF p = 1 THEN v ELSE t[c][p - 1]
      BY <2>2, <3>1, <1>3, <1>4
    <3>3. p # 1 => p - 1 \in 1 .. Len(t[c])
      BY <3>1
    <3> QED BY <2>2, <3>2, <3>3
  <2> QED BY <2>1, <2>2
<1>7. \A d \in 0 .. n - 1 : \A p \in 1 .. Len(t[d]) :
        ClassOf[t[d][p]] # ClassOf[v] /\ Index(t[d][p], n) = d
  <2> SUFFICES ASSUME NEW d \in 0 .. n - 1, NEW p \in 1 .. Len(t[d])
               PROVE  ClassOf[t[d][p]] # ClassOf[v] /\ Index(t[d][p], n) = d
    OBVIOUS
  <2>1. t[d][p] \in StoredIn(t)
    BY <1>0, Slots
  <2>2. ClassOf[t[d][p]] \in ClassesIn(t)
    BY <2>1 DEF ClassesIn, ClassesOf
  <2>3. Index(t[d][p], n) = d
    BY <1>0, Spelled
  <2> QED BY <2>2, <2>3
<1>8. \A d \in 0 .. n - 1 : \A p \in 1 .. Len(u[d]) : Index(u[d][p], n) = d
  <2> SUFFICES ASSUME NEW d \in 0 .. n - 1, NEW p \in 1 .. Len(u[d])
               PROVE  Index(u[d][p], n) = d
    OBVIOUS
  <2>1. CASE d = c /\ u[d][p] = v
    BY <2>1
  <2>2. CASE \E q \in 1 .. Len(t[d]) : u[d][p] = t[d][q]
    BY <2>2, <1>7
  <2> QED BY <1>6, <2>1, <2>2
<1>9. \A d \in 0 .. n - 1 : \A p, q \in 1 .. Len(u[d]) :
        ClassOf[u[d][p]] = ClassOf[u[d][q]] => p = q
  <2> SUFFICES ASSUME NEW d \in 0 .. n - 1,
                      NEW p \in 1 .. Len(u[d]), NEW q \in 1 .. Len(u[d]),
                      ClassOf[u[d][p]] = ClassOf[u[d][q]]
               PROVE  p = q
    OBVIOUS
  <2>1. \A a, b \in 1 .. Len(t[d]) : ClassOf[t[d][a]] = ClassOf[t[d][b]] => a = b
    BY <1>0, Spelled
  <2>2. \/ d = c /\ p = 1 /\ u[d][p] = v
        \/ d = c /\ p - 1 \in 1 .. Len(t[d]) /\ u[d][p] = t[d][p - 1]
        \/ d # c /\ p \in 1 .. Len(t[d]) /\ u[d][p] = t[d][p]
    BY <1>6
  <2>3. \/ d = c /\ q = 1 /\ u[d][q] = v
        \/ d = c /\ q - 1 \in 1 .. Len(t[d]) /\ u[d][q] = t[d][q - 1]
        \/ d # c /\ q \in 1 .. Len(t[d]) /\ u[d][q] = t[d][q]
    BY <1>6
  <2>4. \A a \in 1 .. Len(t[d]) : ClassOf[t[d][a]] # ClassOf[v]
    BY <1>7
  <2>5. p \in Int /\ q \in Int
    OBVIOUS
  <2>6. CASE d # c
    BY <2>6, <2>1, <2>2, <2>3
  <2>7. CASE d = c /\ p = 1
    BY <2>7, <2>2, <2>3, <2>4
  <2>8. CASE d = c /\ q = 1
    BY <2>8, <2>2, <2>3, <2>4, SMTT(20)
  <2>9. CASE d = c /\ p # 1 /\ q # 1
    <3>1. p - 1 = q - 1
      BY <2>9, <2>1, <2>2, <2>3, SMTT(20)
    <3> QED BY <3>1, <2>5
  <2> QED BY <2>6, <2>7, <2>8, <2>9
<1>10. StoredIn(u) = StoredIn(t) \cup {v}
  <2>1. ASSUME NEW w \in StoredIn(u) PROVE w \in StoredIn(t) \cup {v}
    <3>1. PICK d \in 0 .. n - 1 : \E p \in 1 .. Len(u[d]) : u[d][p] = w
      BY <1>4, <1>0, Slots
    <3>2. PICK p \in 1 .. Len(u[d]) : u[d][p] = w
      BY <3>1
    <3>3. w = v \/ \E q \in 1 .. Len(t[d]) : t[d][q] = w
      BY <3>2, <1>6
    <3> QED BY <3>3, <1>0, Slots
  <2>2. v \in StoredIn(u)
    <3>1. 1 \in 1 .. Len(u[c]) /\ u[c][1] = v
      BY <1>1, <1>2, <1>3, <1>4
    <3> QED BY <3>1, <1>0, <1>1, <1>4, Slots
  <2>3. ASSUME NEW w \in StoredIn(t) PROVE w \in StoredIn(u)
    <3>1. PICK d \in 0 .. n - 1 : \E p \in 1 .. Len(t[d]) : t[d][p] = w
      BY <1>0, Slots
    <3>2. PICK p \in 1 .. Len(t[d]) : t[d][p] = w
      BY <3>1
    <3>3. CASE d # c
      BY <3>2, <3>3, <1>0, <1>4, Slots, SMTT(20)
    <3>4. CASE d = c
      <4>1. p + 1 \in 1 .. Len(t[c]) + 1 /\ (p + 1) - 1 = p /\ p + 1 # 1
        BY <3>4, <1>1, <1>2
      <4>2. u[c][p + 1] = t[c][p]
        BY <4>1, <1>3, <1>4
      <4>3. p + 1 \in 1 .. Len(u[d]) /\ u[d][p + 1] = w
        BY <3>2, <3>4, <4>1, <4>2, <1>3, <1>4
      <4> QED BY <4>3, <1>0, <1>4, Slots
    <3> QED BY <3>3, <3>4
  <2> QED BY <2>1, <2>2, <2>3
<1>11. WellFormedTable(u, n)
  <2>1. u \in Table(n)
    BY <1>4
  <2> QED BY <1>0, <2>1, <1>8, <1>9, Spelled, SMTT(20)
<1> QED BY <1>10, <1>11 DEF ClassesIn, ClassesOf

(* A chain without its position p. *)
IsCut(s, chain, p) ==
  /\ s \in Seq(Value)
  /\ Len(s) = Len(chain) - 1
  /\ \A q \in 1 .. Len(chain) - 1 :
       s[q] = IF q < p THEN chain[q] ELSE chain[q + 1]

(* Where a position of the table with the cut chain was before. *)
From(d, q, c, p) == IF d = c /\ q >= p THEN q + 1 ELSE q

HasSlotsBut(u, t, n, c, p) ==
  /\ \A d \in 0 .. n - 1 : \A q \in 1 .. Len(u[d]) :
       /\ From(d, q, c, p) \in 1 .. Len(t[d])
       /\ u[d][q] = t[d][From(d, q, c, p)]
       /\ ~(d = c /\ From(d, q, c, p) = p)
  /\ \A d \in 0 .. n - 1 : \A q \in 1 .. Len(t[d]) :
       ~(d = c /\ q = p) =>
         \E r \in 1 .. Len(u[d]) : q = From(d, r, c, p) /\ u[d][r] = t[d][q]

LEMMA CutSlots ==
  ASSUME NEW n \in Nat, NEW t \in Table(n), NEW c \in 0 .. n - 1,
         NEW p \in 1 .. Len(t[c]), NEW s, IsCut(s, t[c], p),
         NEW u, u = WithChain(t, c, s)
  PROVE  u \in Table(n) /\ HasSlotsBut(u, t, n, c, p)
<1>1. \A d \in 0 .. n - 1 : t[d] \in Seq(Value) /\ Len(t[d]) \in Nat
  BY Chains
<1>2. /\ u \in Table(n)
      /\ \A d \in 0 .. n - 1 : d # c => u[d] = t[d]
      /\ u[c] = s
  BY DEF Table, WithChain, IsCut
<1>3. /\ Len(u[c]) = Len(t[c]) - 1
      /\ \A q \in 1 .. Len(t[c]) - 1 : u[c][q] = IF q < p THEN t[c][q] ELSE t[c][q + 1]
  BY <1>2 DEF IsCut
<1>4. ASSUME NEW d \in 0 .. n - 1, NEW q \in 1 .. Len(u[d])
      PROVE  /\ From(d, q, c, p) \in 1 .. Len(t[d])
             /\ u[d][q] = t[d][From(d, q, c, p)]
             /\ ~(d = c /\ From(d, q, c, p) = p)
  <2>1. CASE d # c
    BY <2>1, <1>1, <1>2 DEF From
  <2>2. CASE d = c
    BY <2>2, <1>1, <1>3 DEF From
  <2> QED BY <2>1, <2>2
<1>5. ASSUME NEW d \in 0 .. n - 1, NEW q \in 1 .. Len(t[d]), ~(d = c /\ q = p)
      PROVE  \E r \in 1 .. Len(u[d]) : q = From(d, r, c, p) /\ u[d][r] = t[d][q]
  <2>1. CASE d # c
    BY <2>1, <1>1, <1>2 DEF From
  <2>2. CASE d = c /\ q < p
    <3>1. q \in 1 .. Len(u[d])
      BY <2>2, <1>1, <1>3
    <3> QED BY <2>2, <3>1, <1>1, <1>3 DEF From
  <2>3. CASE d = c /\ q > p
    <3>1. q - 1 \in 1 .. Len(u[d]) /\ ~(q - 1 < p) /\ (q - 1) + 1 = q
      BY <2>3, <1>1, <1>3
    <3>2. u[d][q - 1] = t[d][q]
      BY <2>3, <3>1, <1>1, <1>3
    <3>3. q = From(d, q - 1, c, p)
      BY <2>3, <3>1 DEF From
    <3> QED BY <3>1, <3>2, <3>3
  <2> QED BY <2>1, <2>2, <2>3, <1>5, <1>1
<1> QED BY <1>2, <1>4, <1>5 DEF HasSlotsBut

(* Cutting a value out of a chain takes it and its class away. *)
LEMMA CutValue ==
  ASSUME NEW n, NEW t, WellFormedTable(t, n), NEW c \in 0 .. n - 1,
         NEW p \in 1 .. Len(t[c]), NEW s, IsCut(s, t[c], p),
         NEW u, u = WithChain(t, c, s)
  PROVE  /\ WellFormedTable(u, n)
         /\ StoredIn(u) = StoredIn(t) \ {t[c][p]}
         /\ t[c][p] \in StoredIn(t)
         /\ ClassesIn(u) = ClassesIn(t) \ {ClassOf[t[c][p]]}
<1>0. n \in Nat /\ t \in Table(n)
  BY DEF WellFormedTable
<1>a. u \in Table(n) /\ HasSlotsBut(u, t, n, c, p)
  BY <1>0, CutSlots
<1>1. /\ u \in Table(n)
      /\ \A d \in 0 .. n - 1 : \A q \in 1 .. Len(u[d]) :
           /\ From(d, q, c, p) \in 1 .. Len(t[d])
           /\ u[d][q] = t[d][From(d, q, c, p)]
           /\ ~(d = c /\ From(d, q, c, p) = p)
      /\ \A d \in 0 .. n - 1 : \A q \in 1 .. Len(t[d]) :
           ~(d = c /\ q = p) =>
             \E r \in 1 .. Len(u[d]) : q = From(d, r, c, p) /\ u[d][r] = t[d][q]
  BY <1>a DEF HasSlotsBut
<1>2. /\ \A d \in 0 .. n - 1 : \A q \in 1 .. Len(t[d]) : Index(t[d][q], n) = d
      /\ \A d \in 0 .. n - 1 : \A q, r \in 1 .. Len(t[d]) :
           ClassOf[t[d][q]] = ClassOf[t[d][r]] => q = r
  BY <1>0, Spelled
<1>3. \A d \in 0 .. n - 1 : \A q \in 1 .. Len(u[d]) : Index(u[d][q], n) = d
  <2> SUFFICES ASSUME NEW d \in 0 .. n - 1, NEW q \in 1 .. Len(u[d])
               PROVE  Index(u[d][q], n) = d
    OBVIOUS
  <2>1. From(d, q, c, p) \in 1 .. Len(t[d]) /\ u[d][q] = t[d][From(d, q, c, p)]
    BY <1>1
  <2> QED BY <2>1, <1>2
<1>4. \A d \in 0 .. n - 1 : \A q, r \in 1 .. Len(u[d]) :
        ClassOf[u[d][q]] = ClassOf[u[d][r]] => q = r
  <2> SUFFICES ASSUME NEW d \in 0 .. n - 1,
                      NEW q \in 1 .. Len(u[d]), NEW r \in 1 .. Len(u[d]),
                      ClassOf[u[d][q]] = ClassOf[u[d][r]]
               PROVE  q = r
    OBVIOUS
  <2>1. /\ From(d, q, c, p) \in 1 .. Len(t[d]) /\ From(d, r, c, p) \in 1 .. Len(t[d])
        /\ u[d][q] = t[d][From(d, q, c, p)] /\ u[d][r] = t[d][From(d, r, c, p)]
    BY <1>1
  <2>2. From(d, q, c, p) = From(d, r, c, p)
    BY <2>1, <1>2, SMTT(20)
  <2>3. Len(t[c]) \in Nat
    BY <1>0, Chains
  <2>4. q \in Int /\ r \in Int /\ p \in Int
    BY <2>3
  <2> QED BY <2>2, <2>4 DEF From
<1>5. t[c][p] \in StoredIn(t)
  BY <1>0, Slots
<1>6. ASSUME NEW w \in StoredIn(u) PROVE w \in StoredIn(t) \ {t[c][p]}
  <2>1. PICK d \in 0 .. n - 1 : \E q \in 1 .. Len(u[d]) : u[d][q] = w
    BY <1>0, <1>1, Slots, SMTT(20)
  <2>2. PICK q \in 1 .. Len(u[d]) : u[d][q] = w
    BY <2>1
  <2>3. PICK r \in 1 .. Len(t[d]) : t[d][r] = w /\ ~(d = c /\ r = p)
    <3>1. /\ From(d, q, c, p) \in 1 .. Len(t[d]) /\ w = t[d][From(d, q, c, p)]
          /\ ~(d = c /\ From(d, q, c, p) = p)
      BY <2>2, <1>1
    <3> QED BY <3>1
  <2>4. w # t[c][p]
    <3> SUFFICES ASSUME w = t[c][p] PROVE FALSE
      OBVIOUS
    <3>1. ClassOf[t[d][r]] = ClassOf[t[c][p]]
      BY <2>3
    <3> QED BY <2>3, <3>1, OnePlace
  <2> QED BY <2>3, <2>4, <1>0, Slots
<1>7. ASSUME NEW w \in StoredIn(t), w # t[c][p] PROVE w \in StoredIn(u)
  <2>1. PICK d \in 0 .. n - 1 : \E q \in 1 .. Len(t[d]) : t[d][q] = w
    BY <1>0, Slots
  <2>2. PICK q \in 1 .. Len(t[d]) : t[d][q] = w
    BY <2>1
  <2>3. PICK r \in 1 .. Len(u[d]) : u[d][r] = w
    <3>1. ~(d = c /\ q = p)
      BY <2>2, <1>7
    <3>2. \E r \in 1 .. Len(u[d]) : q = From(d, r, c, p) /\ u[d][r] = t[d][q]
      BY <1>1, <3>1
    <3> QED BY <2>2, <3>2
  <2> QED BY <2>3, <1>0, <1>1, Slots
<1>8. StoredIn(u) = StoredIn(t) \ {t[c][p]}
  BY <1>5, <1>6, <1>7
<1>9. ClassesIn(u) = ClassesIn(t) \ {ClassOf[t[c][p]]}
  <2>1. \A w \in StoredIn(t) : ClassOf[w] = ClassOf[t[c][p]] => w = t[c][p]
    BY <1>5, OneOfEachClass
  <2> QED BY <2>1, <1>5, <1>8 DEF ClassesIn, ClassesOf
<1>10. WellFormedTable(u, n)
  <2>1. u \in Table(n)
    BY <1>1
  <2> QED BY <1>0, <2>1, <1>3, <1>4, Spelled
<1> QED BY <1>5, <1>8, <1>9, <1>10


-----------------------------------------------------------------------------
(* One set, S, with its old table o while it is being enlarged. *)

IsSet(S) ==
  /\ S = [table |-> S.table, table_size |-> S.table_size, entries |-> S.entries,
          prime_index |-> S.prime_index, free_func |-> S.free_func]
  /\ S.entries \in Nat /\ S.prime_index \in Nat /\ S.free_func \in BOOLEAN
  /\ WellFormedTable(S.table, S.table_size)
  /\ S.table_size = 0 => S = NoSet

IsOld(o) ==
  /\ o = [table |-> o.table, table_size |-> o.table_size]
  /\ WellFormedTable(o.table, o.table_size)

Holding(S, o) == StoredIn(S.table) \cup StoredIn(o.table)

Sound(S, o) ==
  /\ IsSet(S)
  /\ IsOld(o)
  /\ ClassesIn(S.table) \cap ClassesIn(o.table) = {}
  /\ S.entries = Cardinality(ClassesOf(Holding(S, o)))

LEMMA ClassesOfTwo ==
  ASSUME NEW V, NEW W
  PROVE  ClassesOf(V \cup W) = ClassesOf(V) \cup ClassesOf(W)
BY DEF ClassesOf

LEMMA HoldingFinite ==
  ASSUME NEW S, NEW o, IsSet(S), IsOld(o)
  PROVE  /\ IsFiniteSet(ClassesOf(Holding(S, o)))
         /\ Holding(S, o) \subseteq Value
<1>1. /\ S.table_size \in Nat /\ S.table \in Table(S.table_size)
      /\ o.table_size \in Nat /\ o.table \in Table(o.table_size)
  BY DEF IsSet, IsOld, WellFormedTable
<1>2. /\ StoredIn(S.table) \subseteq Value /\ StoredIn(o.table) \subseteq Value
      /\ IsFiniteSet(ClassesIn(S.table)) /\ IsFiniteSet(ClassesIn(o.table))
  BY <1>1, MembersAreValues
<1>3. ClassesOf(Holding(S, o)) = ClassesIn(S.table) \cup ClassesIn(o.table)
  BY ClassesOfTwo DEF Holding, ClassesIn
<1> QED BY <1>2, <1>3, FS_Union DEF Holding

LEMMA NoTableHolds ==
  /\ IsOld(NoTable)
  /\ NoTable.table_size = 0
  /\ StoredIn(NoTable.table) = {}
  /\ ClassesIn(NoTable.table) = {}
<1>1. NoTable.table = EmptyTable(0) /\ NoTable.table_size = 0
  BY DEF NoTable
<1>2. IsOld(NoTable)
  BY <1>1, EmptyIsWellFormed DEF IsOld, NoTable
<1> QED BY <1>1, <1>2, EmptyIsWellFormed

LEMMA HoldingAlone ==
  ASSUME NEW S
  PROVE  /\ Holding(S, NoTable) = StoredIn(S.table)
         /\ ClassesOf(Holding(S, NoTable)) = ClassesIn(S.table)
BY NoTableHolds DEF Holding, ClassesIn

LEMMA SizePositive ==
  ASSUME NEW index \in Nat, NEW entries \in Nat, index < Len(Primes) \/ entries > 0
  PROVE  NewTableSize(index, entries) \in Nat /\ NewTableSize(index, entries) > 0
<1>1. Len(Primes) \in Nat
  BY SetAssumption
<1>2. CASE index < Len(Primes)
  <2>1. index + 1 \in 1 .. Len(Primes)
    BY <1>1, <1>2
  <2>2. Primes[index + 1] \in Nat \ {0}
    BY <2>1, SetAssumption, ElementOfSeq
  <2> QED
    BY <2>2, <1>2 DEF NewTableSize
<1>3. CASE ~ (index < Len(Primes))
  BY <1>3 DEF NewTableSize
<1> QED
  BY <1>2, <1>3

LEMMA NoSetSound ==
  /\ Sound(NoSet, NoTable)
  /\ NoSet.table_size = 0
  /\ NoSet.free_func = FALSE
  /\ Holding(NoSet, NoTable) = {}
<1>1. /\ NoSet.table = EmptyTable(0) /\ NoSet.table_size = 0 /\ NoSet.entries = 0
      /\ NoSet.free_func = FALSE /\ NoSet.prime_index = 0
  BY DEF NoSet
<1>2. IsSet(NoSet)
  BY <1>1, EmptyIsWellFormed DEF IsSet, NoSet
<1>3. Holding(NoSet, NoTable) = {} /\ ClassesIn(NoSet.table) = {}
  BY <1>1, EmptyIsWellFormed, HoldingAlone
<1>4. NoSet.entries = Cardinality(ClassesOf(Holding(NoSet, NoTable)))
  BY <1>1, <1>3, FS_EmptySet DEF ClassesOf
<1> QED BY <1>1, <1>2, <1>3, <1>4, NoTableHolds DEF Sound

LEMMA WithTable ==
  ASSUME NEW r, r = [table |-> r.table, table_size |-> r.table_size, entries |-> r.entries,
                     prime_index |-> r.prime_index, free_func |-> r.free_func],
         NEW t, NEW n, NEW q, q = [r EXCEPT !.table_size = n, !.table = t]
  PROVE  q
         = [table |-> t, table_size |-> n, entries |-> r.entries,
            prime_index |-> r.prime_index, free_func |-> r.free_func]
OBVIOUS

LEMMA NewSetSound ==
  /\ Sound(NewSet, NoTable)
  /\ NewSet.table_size # 0
  /\ NewSet.free_func = FALSE
  /\ Holding(NewSet, NoTable) = {}
<1>1. NewTableSize(0, 0) \in Nat /\ NewTableSize(0, 0) > 0
  BY SizePositive, SetAssumption
<1> DEFINE size == NewTableSize(0, 0)
<1> HIDE DEF size
<1>2. NewSet = [table |-> EmptyTable(size), table_size |-> size, entries |-> 0,
                prime_index |-> 0, free_func |-> FALSE]
  <2>1. /\ NoSet = [table |-> NoSet.table, table_size |-> NoSet.table_size,
                    entries |-> NoSet.entries, prime_index |-> NoSet.prime_index,
                    free_func |-> NoSet.free_func]
        /\ NoSet.entries = 0 /\ NoSet.prime_index = 0 /\ NoSet.free_func = FALSE
    BY DEF NoSet
  <2>2. NewSet = [NoSet EXCEPT !.table_size = size, !.table = EmptyTable(size)]
    BY DEF NewSet, size
  <2> QED BY <2>1, <2>2, WithTable
<1>3. /\ NewSet.table = EmptyTable(size) /\ NewSet.table_size = size /\ NewSet.entries = 0
      /\ NewSet.free_func = FALSE /\ NewSet.prime_index = 0
  BY <1>2
<1>4. IsSet(NewSet)
  <2>1. size \in Nat /\ size # 0
    BY <1>1 DEF size
  <2>2. WellFormedTable(EmptyTable(size), size)
    BY <2>1, EmptyIsWellFormed
  <2> QED BY <1>2, <1>3, <2>1, <2>2 DEF IsSet
<1>5. Holding(NewSet, NoTable) = {} /\ ClassesIn(NewSet.table) = {}
  BY <1>1, <1>3, EmptyIsWellFormed, HoldingAlone DEF size
<1>6. NewSet.entries = Cardinality(ClassesOf(Holding(NewSet, NoTable)))
  BY <1>3, <1>5, FS_EmptySet DEF ClassesOf
<1>7. NewSet.table_size # 0
  BY <1>1, <1>3 DEF size
<1> QED BY <1>3, <1>4, <1>5, <1>6, <1>7, NoTableHolds DEF Sound

Owned(S) == [S EXCEPT !.free_func = TRUE]

LEMMA OwningSound ==
  ASSUME NEW S, NEW o, Sound(S, o), S.table_size # 0,
         NEW T, T = Owned(S)
  PROVE  /\ Sound(T, o)
         /\ T.table = S.table
         /\ T.table_size = S.table_size
         /\ T.free_func = TRUE
         /\ Holding(T, o) = Holding(S, o)
<1>1. S = [table |-> S.table, table_size |-> S.table_size, entries |-> S.entries,
           prime_index |-> S.prime_index, free_func |-> S.free_func]
  BY DEF Sound, IsSet
<1>2. T = [table |-> S.table, table_size |-> S.table_size, entries |-> S.entries,
           prime_index |-> S.prime_index, free_func |-> TRUE]
  BY <1>1 DEF Owned
<1>3. /\ T.table = S.table /\ T.table_size = S.table_size /\ T.entries = S.entries
      /\ T.prime_index = S.prime_index /\ T.free_func = TRUE
  BY <1>2
<1>4. IsSet(T)
  BY <1>2, <1>3 DEF Sound, IsSet
<1>5. Holding(T, o) = Holding(S, o)
  BY <1>3 DEF Holding
<1> QED BY <1>3, <1>4, <1>5 DEF Sound

(* set_enlarge allocates a larger table and keeps the old one. *)
LEMMA EnlargedSound ==
  ASSUME NEW S, Sound(S, NoTable), S.table_size # 0, S.entries > 0,
         NEW T, T = Enlarged(S),
         NEW o, o = [table |-> S.table, table_size |-> S.table_size]
  PROVE  /\ Sound(T, o)
         /\ T.table_size # 0
         /\ T.free_func = S.free_func
         /\ Holding(T, o) = Holding(S, NoTable)
<1> DEFINE size == NewTableSize(S.prime_index + 1, S.entries)
<1>1. size \in Nat /\ size > 0
  <2>1. S.prime_index + 1 \in Nat /\ S.entries \in Nat
    BY DEF Sound, IsSet
  <2> QED BY <2>1, SizePositive
<1>2. S = [table |-> S.table, table_size |-> S.table_size, entries |-> S.entries,
           prime_index |-> S.prime_index, free_func |-> S.free_func]
  BY DEF Sound, IsSet
<1>3. T = [table |-> EmptyTable(size), table_size |-> size, entries |-> S.entries,
           prime_index |-> S.prime_index + 1, free_func |-> S.free_func]
  BY <1>2 DEF Enlarged
<1> HIDE DEF size
<1>4. /\ T.table = EmptyTable(size) /\ T.table_size = size /\ T.entries = S.entries
      /\ T.prime_index = S.prime_index + 1 /\ T.free_func = S.free_func
  BY <1>3
<1>5. IsSet(T)
  <2>1. WellFormedTable(EmptyTable(size), size)
    BY <1>1, EmptyIsWellFormed
  <2>2. S.entries \in Nat /\ S.prime_index + 1 \in Nat /\ S.free_func \in BOOLEAN
    BY DEF Sound, IsSet
  <2> QED BY <1>1, <1>3, <1>4, <2>1, <2>2 DEF IsSet
<1>6. IsOld(o)
  BY DEF IsOld, Sound, IsSet
<1>7. StoredIn(T.table) = {} /\ ClassesIn(T.table) = {}
  BY <1>1, <1>4, EmptyIsWellFormed
<1>8. Holding(T, o) = Holding(S, NoTable)
  BY <1>7, HoldingAlone DEF Holding
<1> QED BY <1>1, <1>4, <1>5, <1>6, <1>7, <1>8 DEF Sound

LEMMA LeastExists ==
  ASSUME NEW S \in SUBSET Nat, S # {}
  PROVE  \E m \in S : \A n \in S : m <= n
<1>1. PICK m \in S : \A n \in S : ~ (<<n, m>> \in OpToRel(<, Nat))
  BY NatLessThanWellFounded, WFMin
<1>2. \A n \in S : ~ (n < m)
  BY <1>1 DEF OpToRel
<1> QED
  BY <1>2

(* Where the search for a chain that has a value ends. *)
LEMMA NextChainFirst ==
  ASSUME NEW S, S.table_size \in Nat, S.table \in Table(S.table_size),
         NEW c \in Nat, NEW d, d = NextChain(S, c)
  PROVE  \/ /\ d = S.table_size
            /\ \A e \in 0 .. S.table_size - 1 : e >= c => S.table[e] = <<>>
         \/ /\ d \in 0 .. S.table_size - 1 /\ d >= c
            /\ 1 \in 1 .. Len(S.table[d])
            /\ S.table[d] # <<>>
            /\ \A e \in 0 .. S.table_size - 1 : e >= c /\ e < d => S.table[e] = <<>>
<1> DEFINE n == S.table_size
           rest == {x \in c .. n - 1 : S.table[x] # <<>>}
<1>1. n \in Nat
  OBVIOUS
<1>2. CASE rest = {}
  BY <1>1, <1>2 DEF NextChain
<1>3. CASE rest # {}
  <2>0. d = CHOOSE x \in rest : \A e \in rest : x <= e
    BY <1>3 DEF NextChain
  <2> HIDE DEF rest
  <2>1. rest \in SUBSET Nat
    BY <1>1 DEF rest
  <2>2. \E x \in rest : \A e \in rest : x <= e
    BY <1>3, <2>1, LeastExists
  <2>3. d \in rest /\ \A e \in rest : d <= e
    BY <2>0, <2>2
  <2>4. d \in 0 .. n - 1 /\ d >= c /\ S.table[d] # <<>> /\ S.table[d] \in Seq(Value)
    BY <1>1, <2>3 DEF rest, Table
  <2>5. 1 \in 1 .. Len(S.table[d])
    BY <2>4, TailElements
  <2>6. ASSUME NEW e \in 0 .. n - 1, e >= c, e < d PROVE S.table[e] = <<>>
    <3>1. e \notin rest
      BY <2>3, <2>4, <2>6
    <3> QED BY <3>1, <2>6, <1>1 DEF rest
  <2> QED BY <2>4, <2>5, <2>6
<1> QED BY <1>2, <1>3

Shortened(o, c) == [o EXCEPT !.table[c] = Tail(@)]
Without(S, c, p) == [S EXCEPT !.table[c] = RemoveAt(@, p), !.entries = @ - 1]

(* One turn of the rehash takes the head of the first old chain that has   *)
(* one to the chain its hash selects in the new table.                     *)
LEMMA MoveSound ==
  ASSUME NEW S, NEW o, Sound(S, o), S.table_size # 0,
         NEW c, c = NextChain(o, 0), c < o.table_size,
         NEW v, v = o.table[c][1],
         NEW T, T = Hooked(S, v),
         NEW u, u = Shortened(o, c)
  PROVE  /\ Sound(T, u)
         /\ T.table_size = S.table_size
         /\ T.free_func = S.free_func
         /\ Holding(T, u) = Holding(S, o)
<1>1. /\ o.table_size \in Nat /\ o.table \in Table(o.table_size)
      /\ WellFormedTable(o.table, o.table_size)
      /\ S.table_size \in Nat /\ S.table \in Table(S.table_size)
      /\ WellFormedTable(S.table, S.table_size)
  BY DEF Sound, IsSet, IsOld, WellFormedTable
<1>2. /\ c \in 0 .. o.table_size - 1
      /\ 1 \in 1 .. Len(o.table[c])
      /\ o.table[c] # <<>>
  BY <1>1, NextChainFirst
<1>3. o.table[c] \in Seq(Value) /\ v \in Value
  BY <1>1, <1>2, Chains
<1> DEFINE r == Tail(o.table[c])
           w == WithChain(o.table, c, r)
<1>4. IsCut(r, o.table[c], 1)
  <2>1. \A q \in 1 .. Len(o.table[c]) - 1 : ~(q < 1)
    OBVIOUS
  <2> QED BY <1>3, <1>2, <2>1, TailElements DEF IsCut
<1>5. u = [table |-> w, table_size |-> o.table_size]
  <2>1. o = [table |-> o.table, table_size |-> o.table_size]
    BY DEF Sound, IsOld
  <2> QED BY <2>1 DEF WithChain, Shortened
<1>a. w = WithChain(o.table, c, r)
  OBVIOUS
<1> HIDE DEF r, w
<1>6. /\ WellFormedTable(w, o.table_size)
      /\ StoredIn(w) = StoredIn(o.table) \ {v}
      /\ v \in StoredIn(o.table)
      /\ ClassesIn(w) = ClassesIn(o.table) \ {ClassOf[v]}
  BY <1>a, <1>1, <1>2, <1>4, CutValue
<1>7. ClassOf[v] \in ClassesIn(o.table)
  BY <1>6 DEF ClassesIn, ClassesOf
<1>8. ClassOf[v] \notin ClassesIn(S.table)
  BY <1>7 DEF Sound
<1> DEFINE i == Index(v, S.table_size)
           x == WithChain(S.table, i, <<v>> \o S.table[i])
<1>9. T = [table |-> x, table_size |-> S.table_size, entries |-> S.entries,
           prime_index |-> S.prime_index, free_func |-> S.free_func]
  <2>1. S = [table |-> S.table, table_size |-> S.table_size, entries |-> S.entries,
             prime_index |-> S.prime_index, free_func |-> S.free_func]
    BY DEF Sound, IsSet
  <2> QED BY <2>1 DEF Hooked, WithChain
<1>b. i = Index(v, S.table_size) /\ x = WithChain(S.table, i, <<v>> \o S.table[i])
  OBVIOUS
<1> HIDE DEF x, i
<1>10. /\ WellFormedTable(x, S.table_size)
       /\ StoredIn(x) = StoredIn(S.table) \cup {v}
       /\ ClassesIn(x) = ClassesIn(S.table) \cup {ClassOf[v]}
  <2>1. S.table_size > 0 /\ WellFormedTable(S.table, S.table_size) /\ v \in Value
    BY <1>1, <1>3
  <2> QED BY <2>1, <1>b, <1>8, PushValue, SMTT(20)
<1>11. /\ T.table = x /\ T.table_size = S.table_size /\ T.entries = S.entries
       /\ T.prime_index = S.prime_index /\ T.free_func = S.free_func
       /\ u.table = w /\ u.table_size = o.table_size
  BY <1>5, <1>9
<1>12. Holding(T, u) = Holding(S, o)
  BY <1>6, <1>10, <1>11 DEF Holding
<1>13. IsOld(u)
  BY <1>5, <1>6, <1>11 DEF IsOld
<1>14. IsSet(T)
  <2>1. S.entries \in Nat /\ S.prime_index \in Nat /\ S.free_func \in BOOLEAN
    BY DEF Sound, IsSet
  <2> QED BY <1>9, <1>10, <1>11, <2>1 DEF IsSet
<1>15. ClassesIn(T.table) \cap ClassesIn(u.table) = {}
  BY <1>6, <1>10, <1>11 DEF Sound
<1> QED BY <1>11, <1>12, <1>13, <1>14, <1>15 DEF Sound

(* When no old chain has a value the old table can be freed. *)
LEMMA RehashedSound ==
  ASSUME NEW S, NEW o, Sound(S, o), NextChain(o, 0) = o.table_size
  PROVE  /\ Sound(S, NoTable)
         /\ Holding(S, NoTable) = Holding(S, o)
<1>1. o.table_size \in Nat /\ o.table \in Table(o.table_size)
  BY DEF Sound, IsOld, WellFormedTable
<1>2. \A e \in 0 .. o.table_size - 1 : o.table[e] = <<>>
  <2>1. \A e \in 0 .. o.table_size - 1 : e >= 0
    OBVIOUS
  <2>2. o.table_size \notin 0 .. o.table_size - 1
    BY <1>1
  <2> QED BY <1>1, <2>1, <2>2, NextChainFirst
<1>3. \A e \in 0 .. o.table_size - 1 : 1 .. Len(o.table[e]) = {}
  BY <1>2
<1>4. StoredIn(o.table) = {}
  BY <1>1, <1>3, Slots
<1>5. Holding(S, NoTable) = Holding(S, o)
  BY <1>4, NoTableHolds DEF Holding
<1> QED BY <1>5, NoTableHolds DEF Sound

(* set_query and set_insert look in one chain, and see all. *)
LEMMA QueryDecides ==
  ASSUME NEW S, Sound(S, NoTable), S.table_size # 0, NEW v \in Value
  PROVE  Query(S, v) <=> ClassOf[v] \in ClassesOf(Holding(S, NoTable))
<1>1. WellFormedTable(S.table, S.table_size) /\ S.table_size > 0
  BY DEF Sound, IsSet, WellFormedTable
<1> DEFINE i == Index(v, S.table_size)
<1>2. Matches(S.table[i], v) # {} <=> ClassOf[v] \in ClassesIn(S.table)
  BY <1>1, MatchesDecide
<1> QED BY <1>2, HoldingAlone DEF Query, Chain

LEMMA AddSound ==
  ASSUME NEW S, Sound(S, NoTable), S.table_size # 0, NEW v \in Value, ~Query(S, v),
         NEW T, T = WithEntry(S, v)
  PROVE  /\ Sound(T, NoTable)
         /\ T.table_size = S.table_size
         /\ T.free_func = S.free_func
         /\ Holding(T, NoTable) = Holding(S, NoTable) \cup {v}
<1>1. /\ S.table_size \in Nat /\ S.table \in Table(S.table_size) /\ S.table_size > 0
      /\ WellFormedTable(S.table, S.table_size)
      /\ S.entries \in Nat /\ S.prime_index \in Nat /\ S.free_func \in BOOLEAN
  BY DEF Sound, IsSet, WellFormedTable
<1>2. ClassOf[v] \notin ClassesIn(S.table)
  BY QueryDecides, HoldingAlone
<1> DEFINE i == Index(v, S.table_size)
           x == WithChain(S.table, i, <<v>> \o S.table[i])
<1>3. T = [table |-> x, table_size |-> S.table_size, entries |-> S.entries + 1,
           prime_index |-> S.prime_index, free_func |-> S.free_func]
  <2>1. S = [table |-> S.table, table_size |-> S.table_size, entries |-> S.entries,
             prime_index |-> S.prime_index, free_func |-> S.free_func]
    BY DEF Sound, IsSet
  <2> QED BY <2>1 DEF WithEntry, Hooked, WithChain
<1>b. i = Index(v, S.table_size) /\ x = WithChain(S.table, i, <<v>> \o S.table[i])
  OBVIOUS
<1> HIDE DEF x, i
<1>4. /\ WellFormedTable(x, S.table_size)
      /\ StoredIn(x) = StoredIn(S.table) \cup {v}
      /\ ClassesIn(x) = ClassesIn(S.table) \cup {ClassOf[v]}
  BY <1>1, <1>2, <1>b, PushValue
<1>5. /\ T.table = x /\ T.table_size = S.table_size /\ T.entries = S.entries + 1
      /\ T.prime_index = S.prime_index /\ T.free_func = S.free_func
  BY <1>3
<1>6. IsSet(T)
  <2>1. S.entries + 1 \in Nat
    BY <1>1
  <2> QED BY <1>1, <1>3, <1>4, <1>5, <2>1 DEF IsSet
<1>7. Holding(T, NoTable) = Holding(S, NoTable) \cup {v}
  BY <1>4, <1>5, HoldingAlone
<1>8. T.entries = Cardinality(ClassesOf(Holding(T, NoTable)))
  <2>1. S.entries = Cardinality(ClassesIn(S.table)) /\ IsFiniteSet(ClassesIn(S.table))
    BY <1>1, MembersAreValues, HoldingAlone DEF Sound
  <2>2. Cardinality(ClassesIn(S.table) \cup {ClassOf[v]}) = Cardinality(ClassesIn(S.table)) + 1
    BY <2>1, <1>2, FS_AddElement
  <2> QED BY <2>1, <2>2, <1>4, <1>5, HoldingAlone
<1>9. ClassesIn(T.table) \cap ClassesIn(NoTable.table) = {}
  BY NoTableHolds
<1> QED BY <1>5, <1>6, <1>7, <1>8, <1>9, NoTableHolds DEF Sound

LEMMA RemoveSound ==
  ASSUME NEW S, Sound(S, NoTable), S.table_size # 0,
         NEW c \in 0 .. S.table_size - 1, NEW p \in 1 .. Len(S.table[c]),
         NEW v, v = S.table[c][p],
         NEW T, T = Without(S, c, p)
  PROVE  /\ Sound(T, NoTable)
         /\ T.table_size = S.table_size
         /\ T.free_func = S.free_func
         /\ T.table = WithChain(S.table, c, RemoveAt(S.table[c], p))
         /\ IsCut(RemoveAt(S.table[c], p), S.table[c], p)
         /\ v \in Value
         /\ v \in Holding(S, NoTable)
         /\ Holding(T, NoTable) = Holding(S, NoTable) \ {v}
         /\ ClassesOf(Holding(T, NoTable)) = ClassesOf(Holding(S, NoTable)) \ {ClassOf[v]}
<1>1. /\ S.table_size \in Nat /\ S.table \in Table(S.table_size) /\ S.table_size > 0
      /\ WellFormedTable(S.table, S.table_size)
      /\ S.entries \in Nat /\ S.prime_index \in Nat /\ S.free_func \in BOOLEAN
  BY DEF Sound, IsSet, WellFormedTable
<1>2. S.table[c] \in Seq(Value) /\ v \in Value
  BY <1>1, Chains
<1> DEFINE r == RemoveAt(S.table[c], p)
           x == WithChain(S.table, c, r)
<1>3. IsCut(r, S.table[c], p)
  BY <1>2, RemoveAtElements DEF IsCut
<1>4. T = [table |-> x, table_size |-> S.table_size, entries |-> S.entries - 1,
           prime_index |-> S.prime_index, free_func |-> S.free_func]
  <2>1. S = [table |-> S.table, table_size |-> S.table_size, entries |-> S.entries,
             prime_index |-> S.prime_index, free_func |-> S.free_func]
    BY DEF Sound, IsSet
  <2> QED BY <2>1 DEF WithChain, Without
<1>a. x = WithChain(S.table, c, r)
  OBVIOUS
<1> HIDE DEF r, x
<1>5. /\ WellFormedTable(x, S.table_size)
      /\ StoredIn(x) = StoredIn(S.table) \ {v}
      /\ v \in StoredIn(S.table)
      /\ ClassesIn(x) = ClassesIn(S.table) \ {ClassOf[v]}
  BY <1>1, <1>3, <1>a, CutValue
<1>6. /\ T.table = x /\ T.table_size = S.table_size /\ T.entries = S.entries - 1
      /\ T.prime_index = S.prime_index /\ T.free_func = S.free_func
  BY <1>4
<1>7. Holding(T, NoTable) = Holding(S, NoTable) \ {v} /\ v \in Holding(S, NoTable)
  BY <1>5, <1>6, HoldingAlone
<1>8. /\ ClassesOf(Holding(S, NoTable)) = ClassesIn(S.table)
      /\ ClassesOf(Holding(T, NoTable)) = ClassesIn(T.table)
  BY HoldingAlone
<1>9. /\ T.entries = Cardinality(ClassesIn(T.table))
      /\ T.entries \in Nat
  <2>1. S.entries = Cardinality(ClassesIn(S.table)) /\ IsFiniteSet(ClassesIn(S.table))
    BY <1>1, <1>8, MembersAreValues DEF Sound
  <2>2. ClassOf[v] \in ClassesIn(S.table)
    BY <1>5 DEF ClassesIn, ClassesOf
  <2>3. /\ IsFiniteSet(ClassesIn(S.table) \ {ClassOf[v]})
        /\ Cardinality(ClassesIn(S.table) \ {ClassOf[v]}) = Cardinality(ClassesIn(S.table)) - 1
    BY <2>1, <2>2, FS_RemoveElement
  <2> QED BY <2>1, <2>3, <1>5, <1>6, FS_CardinalityType, ZenonT(40)
<1>10. IsSet(T)
  BY <1>1, <1>4, <1>5, <1>6, <1>9 DEF IsSet
<1>11. ClassesIn(T.table) \cap ClassesIn(NoTable.table) = {}
  BY NoTableHolds
<1>12. Sound(T, NoTable)
  BY <1>8, <1>9, <1>10, <1>11, NoTableHolds DEF Sound
<1> QED BY <1>2, <1>3, <1>a, <1>5, <1>6, <1>7, <1>8, <1>12 DEF r

-----------------------------------------------------------------------------
(* An iterator of a set.  The values it has returned are those before the  *)
(* one it stands at, chain by chain.                                       *)

StandsAt(t, n, it, p) ==
  /\ it.next_chain \in 0 .. n - 1
  /\ p \in 1 .. Len(t[it.next_chain])
  /\ t[it.next_chain][p] = it.next_entry
  /\ \A d \in 0 .. n - 1 : \A q \in 1 .. Len(t[d]) :
       t[d][q] \in it.returned <=> d < it.next_chain \/ (d = it.next_chain /\ q < p)

At(S, it) ==
  /\ it.returned \subseteq StoredIn(S.table)
  /\ it.next_entry = NULL => StoredIn(S.table) \subseteq it.returned
  /\ it.next_entry # NULL => \E p \in Nat : StandsAt(S.table, S.table_size, it, p)

LEMMA NextValue ==
  ASSUME NEW S, IsSet(S), NEW it, At(S, it), it.next_entry # NULL
  PROVE  /\ it.next_chain \in DOMAIN S.table
         /\ it.next_entry \in ToSet(S.table[it.next_chain])
         /\ it.next_entry \in StoredIn(S.table)
         /\ it.next_entry \in Value
         /\ it.next_entry \notin it.returned
<1>1. S.table_size \in Nat /\ S.table \in Table(S.table_size)
  BY DEF IsSet, WellFormedTable
<1>2. PICK p \in Nat : StandsAt(S.table, S.table_size, it, p)
  BY DEF At
<1> DEFINE c == it.next_chain
<1>3. /\ c \in 0 .. S.table_size - 1
      /\ p \in 1 .. Len(S.table[c])
      /\ S.table[c][p] = it.next_entry
      /\ ~(c < c) /\ ~(p < p)
      /\ S.table[c][p] \in it.returned <=> c < c \/ (c = c /\ p < p)
  BY <1>1, <1>2 DEF StandsAt
<1> HIDE DEF c
<1>4. /\ c \in DOMAIN S.table /\ p \in DOMAIN S.table[c]
      /\ S.table[c][p] \in Value
  BY <1>1, <1>3, Chains
<1>5. it.next_entry \in StoredIn(S.table)
  BY <1>1, <1>3, Slots
<1> QED BY <1>3, <1>4, <1>5 DEF ToSet, c

(* The search from chain b, when the values returned are those of the      *)
(* chains before it.                                                       *)
LEMMA SearchAt ==
  ASSUME NEW S, IsSet(S), NEW b \in Nat, NEW c, c = NextChain(S, b),
         NEW it, it.next_entry = FirstOf(S, c), it.next_chain = c,
         it.returned \subseteq StoredIn(S.table),
         \A d \in 0 .. S.table_size - 1 : \A q \in 1 .. Len(S.table[d]) :
           S.table[d][q] \in it.returned <=> d < b
  PROVE  /\ At(S, it)
         /\ it.next_entry \in Value \cup {NULL}
         /\ it.next_chain \in Nat
<1>1. S.table_size \in Nat /\ S.table \in Table(S.table_size)
  BY DEF IsSet, WellFormedTable
<1> DEFINE n == S.table_size
           t == S.table
<1>2. CASE c = n /\ \A e \in 0 .. n - 1 : e >= b => t[e] = <<>>
  <2>1. it.next_entry = NULL
    BY <1>1, <1>2 DEF FirstOf
  <2>2. ASSUME NEW v \in StoredIn(t) PROVE v \in it.returned
    <3>1. PICK d \in 0 .. n - 1 : \E q \in 1 .. Len(t[d]) : t[d][q] = v
      BY <1>1, Slots
    <3>2. PICK q \in 1 .. Len(t[d]) : t[d][q] = v
      BY <3>1
    <3>3. t[d] # <<>>
      BY <3>2
    <3>4. d < b
      BY <3>3, <1>2, <1>1
    <3> QED BY <3>2, <3>4
  <2> QED BY <2>1, <2>2, <1>1, <1>2 DEF At
<1>3. CASE /\ c \in 0 .. n - 1 /\ c >= b
           /\ 1 \in 1 .. Len(t[c])
           /\ \A e \in 0 .. n - 1 : e >= b /\ e < c => t[e] = <<>>
  <2>1. it.next_entry = t[c][1]
    BY <1>1, <1>3 DEF FirstOf
  <2>2. t[c][1] \in Value
    BY <1>1, <1>3, Chains
  <2>3. it.next_entry # NULL
    BY <2>1, <2>2, SetAssumption
  <2>4. ASSUME NEW d \in 0 .. n - 1, NEW q \in 1 .. Len(t[d])
        PROVE  t[d][q] \in it.returned <=> d < c \/ (d = c /\ q < 1)
    <3>1. t[d] # <<>>
      OBVIOUS
    <3>2. d < b <=> d < c
      BY <3>1, <1>1, <1>3
    <3>3. ~(q < 1)
      OBVIOUS
    <3> QED BY <3>2, <3>3
  <2>5. StandsAt(t, n, it, 1)
    BY <1>3, <2>1, <2>4 DEF StandsAt
  <2> QED BY <2>1, <2>2, <2>3, <2>5, <1>3, <1>1 DEF At
<1> QED BY <1>1, <1>2, <1>3, NextChainFirst

LEMMA IteratorAt ==
  ASSUME NEW s, IsSet(sets[s]), NEW it, it = IteratorOf(s)
  PROVE  /\ At(sets[s], it)
         /\ it = [set |-> s, next_entry |-> it.next_entry,
                  next_chain |-> it.next_chain, returned |-> {}]
         /\ it.set = s
         /\ it.returned = {}
         /\ it.next_entry \in Value \cup {NULL}
         /\ it.next_chain \in Nat
<1> DEFINE c == NextChain(sets[s], 0)
<1>1. it = [set |-> s, next_entry |-> FirstOf(sets[s], c), next_chain |-> c,
            returned |-> {}]
  BY DEF IteratorOf
<1>a. c = NextChain(sets[s], 0)
  OBVIOUS
<1> HIDE DEF c
<1>2. /\ it.next_entry = FirstOf(sets[s], c) /\ it.next_chain = c
      /\ it.set = s /\ it.returned = {}
  BY <1>1
<1>3. \A d \in 0 .. sets[s].table_size - 1 : ~(d < 0)
  OBVIOUS
<1>4. /\ At(sets[s], it)
      /\ it.next_entry \in Value \cup {NULL}
      /\ it.next_chain \in Nat
  BY <1>a, <1>2, <1>3, SearchAt
<1> QED BY <1>1, <1>2, <1>4

(* set_iter_next returns the value the iterator stands at, a new one. *)
LEMMA AdvancedAt ==
  ASSUME NEW it, NEW S, S = sets[it.set], IsSet(S), At(S, it), it.next_entry # NULL,
         it = [set |-> it.set, next_entry |-> it.next_entry,
               next_chain |-> it.next_chain, returned |-> it.returned],
         NEW j, j = Advanced(it)
  PROVE  /\ At(S, j)
         /\ j = [set |-> it.set, next_entry |-> j.next_entry,
                 next_chain |-> j.next_chain,
                 returned |-> it.returned \cup {it.next_entry}]
         /\ j.set = it.set
         /\ j.returned = it.returned \cup {it.next_entry}
         /\ j.next_entry \in Value \cup {NULL}
         /\ j.next_chain \in Nat
<1>1. /\ S.table_size \in Nat /\ S.table \in Table(S.table_size)
      /\ WellFormedTable(S.table, S.table_size)
  BY DEF IsSet, WellFormedTable
<1> DEFINE n == S.table_size
           t == S.table
           nc == it.next_chain
           f == CHOOSE q \in DOMAIN t[nc] : t[nc][q] = it.next_entry
           c == NextChain(S, nc + 1)
           R == it.returned \cup {it.next_entry}
<1>2. PICK p \in Nat : StandsAt(t, n, it, p)
  BY DEF At
<1>3. /\ nc \in 0 .. n - 1
      /\ p \in 1 .. Len(t[nc])
      /\ t[nc][p] = it.next_entry
      /\ \A d \in 0 .. n - 1 : \A q \in 1 .. Len(t[d]) :
           t[d][q] \in it.returned <=> d < nc \/ (d = nc /\ q < p)
  BY <1>2 DEF StandsAt
<1>4. DOMAIN t[nc] = 1 .. Len(t[nc]) /\ Len(t[nc]) \in Nat
  BY <1>1, <1>3, Chains
<1>5. f = p
  <2>1. f \in 1 .. Len(t[nc]) /\ t[nc][f] = it.next_entry
    BY <1>3, <1>4
  <2>2. ClassOf[t[nc][f]] = ClassOf[t[nc][p]]
    BY <2>1, <1>3
  <2> HIDE DEF f
  <2> QED BY <2>1, <2>2, <1>1, <1>3, OnePlace
<1>6. j = [set |-> it.set,
           next_entry |-> IF f < Len(t[nc]) THEN t[nc][f + 1] ELSE FirstOf(S, c),
           next_chain |-> IF f < Len(t[nc]) THEN nc ELSE c,
           returned |-> R]
  <2> DEFINE passed == [it EXCEPT !.returned = @ \cup {it.next_entry}]
  <2>1. passed = [set |-> it.set, next_entry |-> it.next_entry,
                  next_chain |-> it.next_chain, returned |-> R]
    OBVIOUS
  <2>2. j = IF f < Len(t[nc]) THEN [passed EXCEPT !.next_entry = t[nc][f + 1]]
            ELSE [passed EXCEPT !.next_entry = FirstOf(S, c), !.next_chain = c]
    BY SMTT(20) DEF Advanced, SearchFrom
  <2> HIDE DEF passed, f, c, R, nc
  <2>3. CASE f < Len(t[nc])
    <3>1. j = [passed EXCEPT !.next_entry = t[nc][f + 1]]
      BY <2>2, <2>3
    <3> QED BY <2>1, <2>3, <3>1 DEF nc
  <2>4. CASE ~(f < Len(t[nc]))
    <3>1. j = [passed EXCEPT !.next_entry = FirstOf(S, c), !.next_chain = c]
      BY <2>2, <2>4
    <3> QED BY <2>1, <2>4, <3>1
  <2> QED BY <2>3, <2>4
<1>a. c = NextChain(S, nc + 1) /\ R = it.returned \cup {it.next_entry}
  OBVIOUS
<1> HIDE DEF f, c
<1>7. /\ j.set = it.set /\ j.returned = R
      /\ j.next_entry = IF p < Len(t[nc]) THEN t[nc][p + 1] ELSE FirstOf(S, c)
      /\ j.next_chain = IF p < Len(t[nc]) THEN nc ELSE c
  BY <1>5, <1>6
<1>8. R \subseteq StoredIn(t)
  BY NextValue DEF At
<1>9. \A d \in 0 .. n - 1 : \A q \in 1 .. Len(t[d]) :
        t[d][q] \in R <=> d < nc \/ (d = nc /\ q < p) \/ (d = nc /\ q = p)
  <2> SUFFICES ASSUME NEW d \in 0 .. n - 1, NEW q \in 1 .. Len(t[d])
               PROVE  t[d][q] \in R <=> d < nc \/ (d = nc /\ q < p) \/ (d = nc /\ q = p)
    OBVIOUS
  <2>1. t[d][q] = t[nc][p] => d = nc /\ q = p
    <3> SUFFICES ASSUME t[d][q] = t[nc][p] PROVE d = nc /\ q = p
      OBVIOUS
    <3>1. ClassOf[t[d][q]] = ClassOf[t[nc][p]]
      OBVIOUS
    <3>2. nc \in 0 .. n - 1 /\ p \in 1 .. Len(t[nc]) /\ WellFormedTable(t, n)
      BY <1>1, <1>3
    <3> HIDE DEF nc, t, n
    <3> QED BY <3>1, <3>2, OnePlace
  <2> QED BY <2>1, <1>3
<1> HIDE DEF R
<1>10. CASE p < Len(t[nc])
  <2>1. /\ j.next_entry = t[nc][p + 1] /\ j.next_chain = nc
        /\ p + 1 \in 1 .. Len(t[nc])
    BY <1>3, <1>4, <1>7, <1>10
  <2>2. t[nc][p + 1] \in Value
    BY <1>1, <1>3, <2>1, Chains
  <2>3. j.next_entry # NULL
    BY <2>1, <2>2, SetAssumption
  <2>4. \A d \in 0 .. n - 1 : \A q \in 1 .. Len(t[d]) :
          t[d][q] \in R <=> d < nc \/ (d = nc /\ q < p + 1)
    <3>1. \A q \in Int : q < p + 1 <=> q < p \/ q = p
      OBVIOUS
    <3>2. \A d \in 0 .. n - 1 : \A q \in 1 .. Len(t[d]) : q \in Int
      OBVIOUS
    <3> QED BY <3>1, <3>2, <1>9
  <2>5. StandsAt(t, n, j, p + 1)
    <3>1. j.returned = R /\ nc \in 0 .. n - 1
      BY <1>3, <1>7
    <3> HIDE DEF t, n, nc
    <3> QED BY <2>1, <2>4, <3>1 DEF StandsAt
  <2>6. p + 1 \in Nat
    OBVIOUS
  <2>7. At(S, j)
    BY <2>3, <2>5, <2>6, <1>7, <1>8 DEF At
  <2>8. j.next_chain \in Nat
    BY <2>1, <1>1, <1>3
  <2> QED BY <2>1, <2>2, <2>7, <2>8, <1>6, <1>7, <1>a
<1>11. CASE ~(p < Len(t[nc]))
  <2>1. j.next_entry = FirstOf(S, c) /\ j.next_chain = c
    BY <1>7, <1>11
  <2>2. p = Len(t[nc]) /\ nc \in Int
    BY <1>3, <1>4, <1>11
  <2>3. \A d \in 0 .. n - 1 : \A q \in 1 .. Len(t[d]) : t[d][q] \in R <=> d < nc + 1
    <3>1. \A d \in 0 .. n - 1 : \A q \in 1 .. Len(t[d]) : d = nc => q < p \/ q = p
      BY <2>2
    <3>2. \A d \in 0 .. n - 1 : d < nc + 1 <=> d < nc \/ d = nc
      BY <2>2
    <3> QED BY <3>1, <3>2, <1>9
  <2>4. nc + 1 \in Nat
    BY <1>3
  <2>5. At(S, j) /\ j.next_entry \in Value \cup {NULL} /\ j.next_chain \in Nat
    BY <2>1, <2>3, <2>4, <1>a, <1>7, <1>8, SearchAt, SMTT(20)
  <2> QED BY <2>5, <1>6, <1>7, <1>a
<1> QED BY <1>10, <1>11

(* Another value leaves the chain that the iterator stands in, or one      *)
(* before or after it.                                                     *)
LEMMA RemoveKeepsAt ==
  ASSUME NEW S, IsSet(S), NEW it, At(S, it),
         NEW c \in 0 .. S.table_size - 1, NEW p \in 1 .. Len(S.table[c]),
         NEW v, v = S.table[c][p], it.next_entry # v,
         NEW T, T.table_size = S.table_size,
         NEW r, IsCut(r, S.table[c], p), T.table = WithChain(S.table, c, r),
         NEW j, j.next_entry = it.next_entry, j.next_chain = it.next_chain,
         j.returned = it.returned \ {v}
  PROVE  At(T, j)
<1> DEFINE n == S.table_size
           t == S.table
           u == T.table
           nc == it.next_chain
<1>1. /\ n \in Nat /\ t \in Table(n) /\ WellFormedTable(t, n)
  BY DEF IsSet, WellFormedTable
<1>2. /\ StoredIn(u) = StoredIn(t) \ {v}
      /\ u \in Table(n)
      /\ HasSlotsBut(u, t, n, c, p)
  BY <1>1, CutValue, CutSlots
<1>3. j.returned \subseteq StoredIn(u) /\ (j.next_entry = NULL => StoredIn(u) \subseteq j.returned)
  BY <1>2 DEF At
<1>4. ASSUME it.next_entry # NULL
      PROVE  \E q \in Nat : StandsAt(u, n, j, q)
  <2>1. PICK m \in Nat : StandsAt(t, n, it, m)
    BY <1>4 DEF At
  <2>2. /\ nc \in 0 .. n - 1
        /\ m \in 1 .. Len(t[nc])
        /\ t[nc][m] = it.next_entry
        /\ \A d \in 0 .. n - 1 : \A q \in 1 .. Len(t[d]) :
             t[d][q] \in it.returned <=> d < nc \/ (d = nc /\ q < m)
    BY <2>1 DEF StandsAt
  <2>3. ~(nc = c /\ m = p)
    BY <2>2
  <2>4. PICK x \in 1 .. Len(u[nc]) : m = From(nc, x, c, p) /\ u[nc][x] = t[nc][m]
    BY <1>2, <2>2, <2>3 DEF HasSlotsBut
  <2>5. \A q \in Int : From(nc, q, c, p) < From(nc, x, c, p) <=> q < x
    BY DEF From
  <2>6. ASSUME NEW d \in 0 .. n - 1, NEW q \in 1 .. Len(u[d])
        PROVE  u[d][q] \in j.returned <=> d < nc \/ (d = nc /\ q < x)
    <3>1. From(d, q, c, p) \in 1 .. Len(t[d]) /\ u[d][q] = t[d][From(d, q, c, p)]
      BY <1>2 DEF HasSlotsBut
    <3>2. u[d][q] # v
      <4>1. u[d][q] \in StoredIn(u)
        BY <1>1, <1>2, Slots
      <4> QED BY <4>1, <1>2
    <3>3. u[d][q] \in j.returned <=> d < nc \/ (d = nc /\ From(d, q, c, p) < m)
      BY <3>1, <3>2, <2>2
    <3> QED BY <3>3, <2>4, <2>5
  <2>7. StandsAt(u, n, j, x)
    BY <2>2, <2>4, <2>6 DEF StandsAt
  <2> QED BY <2>7
<1> QED BY <1>3, <1>4 DEF At

-----------------------------------------------------------------------------
(* The inductive invariant.  Every set is sound together with its old      *)
(* table; an insertion goes into a set that no iterator is on, and a union *)
(* or intersection has so far put into its new set exactly the classes     *)
(* that it must.                                                           *)

Shape ==
  /\ DOMAIN sets = Name
  /\ iter \in [set : Name \cup {NULL}, next_entry : Value \cup {NULL},
               next_chain : Nat, returned : SUBSET Value]
  /\ job \in {NoJob} \cup
       [op : {"union", "intersection"}, loop : {1, 2}, set1 : Name,
        set2 : Name, new_set : Name]
  /\ pc \in {"idle", "enlarge", "rehash", "place"}
  /\ pc = "idle" => target = NULL /\ data = NULL
  /\ pc # "idle" => target \in Name /\ data \in Value
  /\ live \in SUBSET Value
  /\ result \in {0, 1, NULL}
  /\ memory \in BOOLEAN

OldOf(s) == IF s = target THEN old ELSE NoTable
Tables == \A s \in Name : Sound(sets[s], OldOf(s))

Control ==
  /\ pc # "rehash" => old = NoTable
  /\ pc # "idle" => Exists(target) /\ target # iter.set
  /\ pc # "idle" /\ job # NoJob => target = job.new_set
  /\ pc = "enlarge" => sets[target].entries > 0

Jobs ==
  job # NoJob =>
    /\ Exists(job.set1) /\ Exists(job.set2) /\ Exists(job.new_set)
    /\ job.new_set # job.set1 /\ job.new_set # job.set2
    /\ ~sets[job.new_set].free_func
    /\ iter.set = IF job.loop = 1 THEN job.set1 ELSE job.set2
    /\ job.op = "intersection" => job.loop = 1

Iteration ==
  /\ iter.set = NULL => iter = NoIterator
  /\ iter.set # NULL => Exists(iter.set) /\ At(sets[iter.set], iter)

Owning ==
  /\ \A s, t \in Name : sets[s].free_func /\ sets[t].free_func => s = t
  /\ \A s \in Name : sets[s].free_func => live = Stored(s)
  /\ (\A s \in Name : ~sets[s].free_func) => live = {}

(* What the union or the intersection under way has put into the new set,  *)
(* the value that is being inserted included.                              *)
Copied ==
  IF job.op = "union"
  THEN ClassesOf(iter.returned)
       \cup (IF job.loop = 2 THEN ClassesOf(Stored(job.set1)) ELSE {})
  ELSE ClassesOf(iter.returned) \cap ClassesOf(Stored(job.set2))
Arriving == IF pc = "idle" THEN {} ELSE {ClassOf[data]}

Progress ==
  job # NoJob =>
    /\ ClassesOf(Stored(job.new_set)) \cup Arriving = Copied
    /\ ClassesOf(Stored(job.new_set)) \cap Arriving = {}

IInv ==
  /\ Shape
  /\ Tables
  /\ Control
  /\ Jobs
  /\ Iteration
  /\ Owning
  /\ Progress

LEMMA StoredIs ==
  ASSUME NEW s
  PROVE  Stored(s) = Holding(sets[s], OldOf(s))
BY NoTableHolds DEF Stored, Holding, OldOf

LEMMA StoredIsAfter ==
  ASSUME NEW s
  PROVE  Stored(s)' = Holding(sets'[s], OldOf(s)')
<1>1. CASE s = target'
  BY <1>1 DEF Stored, Holding, OldOf
<1>2. CASE s # target'
  BY <1>2, NoTableHolds DEF Stored, Holding, OldOf
<1> QED BY <1>1, <1>2

(* Where no set is enlarged the values are those of one table. *)
LEMMA NoOld ==
  ASSUME Tables, old = NoTable, NEW s \in Name
  PROVE  /\ Sound(sets[s], NoTable)
         /\ Stored(s) = Holding(sets[s], NoTable)
         /\ Stored(s) = StoredIn(sets[s].table)
<1>1. OldOf(s) = NoTable
  BY DEF OldOf
<1> QED BY <1>1, StoredIs, HoldingAlone DEF Tables

LEMMA Facts ==
  ASSUME IInv
  PROVE  /\ \A s \in Name : IsSet(sets[s])
         /\ \A s \in Name : ~Exists(s) => sets[s] = NoSet /\ Stored(s) = {}
         /\ \A s \in Name : Stored(s) \subseteq Value
         /\ pc # "idle" => Sound(sets[target], old) /\ Stored(target) = Holding(sets[target], old)
         /\ NoJob.new_set = NULL /\ NULL \notin Name /\ NoIterator.set = NULL
         /\ job # NoJob =>
              /\ job.set1 \in Name /\ job.set2 \in Name /\ job.new_set \in Name
              /\ job.op \in {"union", "intersection"} /\ job.loop \in {1, 2}
<1>1. \A s \in Name : IsSet(sets[s]) /\ IsOld(OldOf(s)) /\ Sound(sets[s], OldOf(s))
  BY DEF IInv, Tables, Sound
<1>2. ASSUME NEW s \in Name, ~Exists(s) PROVE sets[s] = NoSet /\ Stored(s) = {}
  <2>1. sets[s] = NoSet
    BY <1>1, <1>2 DEF Exists, IsSet
  <2>2. OldOf(s) = NoTable
    <3>1. CASE s = target
      <4>1. s \in Name /\ NULL \notin Name
        BY SetAssumption
      <4>2. pc # "idle"
        BY <3>1, <4>1 DEF IInv, Shape
      <4>3. Exists(target)
        BY <4>2 DEF IInv, Control
      <4> QED BY <4>3, <3>1, <1>2
    <3>2. CASE s # target
      BY <3>2 DEF OldOf
    <3> QED BY <3>1, <3>2
  <2> QED BY <2>1, <2>2, StoredIs, NoSetSound
<1>3. \A s \in Name : Stored(s) \subseteq Value
  BY <1>1, StoredIs, HoldingFinite
<1>4. ASSUME pc # "idle" PROVE Sound(sets[target], old) /\ Stored(target) = Holding(sets[target], old)
  <2>1. target \in Name
    BY <1>4 DEF IInv, Shape
  <2>2. OldOf(target) = old
    BY DEF OldOf
  <2> QED BY <1>1, <2>1, <2>2, StoredIs
<1>5. NoJob.new_set = NULL /\ NULL \notin Name /\ NoIterator.set = NULL
  BY SetAssumption DEF NoJob, NoIterator
<1>6. job # NoJob =>
        /\ job.set1 \in Name /\ job.set2 \in Name /\ job.new_set \in Name
        /\ job.op \in {"union", "intersection"} /\ job.loop \in {1, 2}
  BY DEF IInv, Shape
<1> QED BY <1>1, <1>2, <1>3, <1>4, <1>5, <1>6

-----------------------------------------------------------------------------
(* What the steps have in common: no set changes, or one. *)

LEMMA SameSets ==
  ASSUME IInv, sets' = sets, old = NoTable, old' = NoTable
  PROVE  /\ Tables'
         /\ \A s \in Name : Stored(s)' = Stored(s)
<1>1. \A s \in Name : OldOf(s)' = NoTable /\ OldOf(s) = NoTable
  BY DEF OldOf
<1>2. Tables'
  BY <1>1 DEF IInv, Tables
<1> QED BY <1>1, <1>2, StoredIs, StoredIsAfter

LEMMA OneSet ==
  ASSUME IInv, NEW x \in Name, NEW S, NEW o, Sound(S, o),
         \A s \in Name : sets'[s] = IF s = x THEN S ELSE sets[s],
         \A s \in Name : OldOf(s)' = IF s = x THEN o ELSE OldOf(s)
  PROVE  /\ Tables'
         /\ \A s \in Name : Stored(s)' = IF s = x THEN Holding(S, o) ELSE Stored(s)
<1>1. Tables'
  BY DEF IInv, Tables
<1>2. \A s \in Name : Stored(s)' = IF s = x THEN Holding(S, o) ELSE Stored(s)
  BY StoredIs, StoredIsAfter
<1> QED BY <1>1, <1>2

LEMMA OwnSame ==
  ASSUME IInv, sets' = sets, live' = live, \A s \in Name : Stored(s)' = Stored(s)
  PROVE  Owning'
BY DEF IInv, Owning

LEMMA OwnOne ==
  ASSUME IInv, NEW x \in Name, NEW S, NEW V,
         \A s \in Name : sets'[s] = IF s = x THEN S ELSE sets[s],
         \A s \in Name : Stored(s)' = IF s = x THEN V ELSE Stored(s),
         S.free_func = sets[x].free_func,
         live' = IF S.free_func THEN V ELSE live
  PROVE  Owning'
<1>1. \A s \in Name : sets'[s].free_func = sets[s].free_func
  OBVIOUS
<1>2. Owning
  BY DEF IInv
<1>3. \A s, t \in Name : sets'[s].free_func /\ sets'[t].free_func => s = t
  BY <1>1, <1>2 DEF Owning
<1>4. ASSUME NEW s \in Name, sets'[s].free_func PROVE live' = Stored(s)'
  <2>1. sets[s].free_func
    BY <1>1, <1>4
  <2>2. CASE s = x
    BY <2>1, <2>2
  <2>3. CASE s # x
    <3>1. ~sets[x].free_func
      BY <2>1, <2>3, <1>2 DEF Owning
    <3>2. live' = live /\ live = Stored(s)
      BY <2>1, <3>1, <1>2 DEF Owning
    <3> QED BY <3>2, <2>3
  <2> QED BY <2>2, <2>3
<1>5. ASSUME \A s \in Name : ~sets'[s].free_func PROVE live' = {}
  <2>1. \A s \in Name : ~sets[s].free_func
    BY <1>1, <1>5
  <2> QED BY <2>1, <1>2 DEF Owning
<1> QED BY <1>3, <1>4, <1>5 DEF Owning

(* The iterator stays where it is and so does its set. *)
LEMMA IterSame ==
  ASSUME IInv, iter' = iter, iter.set # NULL => sets'[iter.set] = sets[iter.set]
  PROVE  Iteration'
BY DEF IInv, Iteration, Exists

LEMMA IterNone ==
  ASSUME iter' = NoIterator
  PROVE  /\ Iteration'
         /\ iter' \in [set : Name \cup {NULL}, next_entry : Value \cup {NULL},
                       next_chain : Nat, returned : SUBSET Value]
<1>1. NoIterator.set = NULL
  BY DEF NoIterator
<1>2. NoIterator \in [set : Name \cup {NULL}, next_entry : Value \cup {NULL},
                      next_chain : Nat, returned : SUBSET Value]
  BY DEF NoIterator
<1> QED BY <1>1, <1>2 DEF Iteration

-----------------------------------------------------------------------------
(* The invariant is inductive. *)

LEMMA InitInv == Init => IInv
<1> SUFFICES ASSUME Init PROVE IInv
  OBVIOUS
<1> USE DEF Init
<1>1. /\ DOMAIN sets = Name /\ \A s \in Name : sets[s] = NoSet
      /\ \A s \in Name : OldOf(s) = NoTable
  BY DEF OldOf
<1>2. Tables
  BY <1>1, NoSetSound DEF Tables
<1>3. Iteration /\ Shape
  <2>1. iter \in [set : Name \cup {NULL}, next_entry : Value \cup {NULL},
                  next_chain : Nat, returned : SUBSET Value]
    BY DEF NoIterator
  <2> QED BY <1>1, <2>1 DEF Iteration, NoIterator, Shape
<1>4. Control
  BY DEF Control
<1>5. Jobs /\ Progress
  BY DEF Jobs, Progress
<1>6. Owning
  <2>1. \A s \in Name : sets[s].free_func = FALSE
    BY <1>1, NoSetSound
  <2> QED BY <2>1 DEF Owning
<1> QED BY <1>2, <1>3, <1>4, <1>5, <1>6 DEF IInv

(* A call that ends, or that changes nothing but the iterator. *)
LEMMA QuietInv ==
  ASSUME IInv, Idle, UNCHANGED <<sets, job, insertion, live>>, Shape', Iteration'
  PROVE  IInv' /\ \A s \in Name : Stored(s)' = Stored(s)
<1> USE DEF Idle, insertion
<1>1. old = NoTable /\ old' = NoTable
  BY DEF IInv, Control
<1>2. Tables' /\ \A s \in Name : Stored(s)' = Stored(s)
  BY <1>1, SameSets
<1>3. Owning'
  BY <1>2, OwnSame
<1>4. Control'
  BY <1>1 DEF Control
<1>5. Jobs' /\ Progress'
  BY DEF Jobs, Progress
<1> QED BY <1>2, <1>3, <1>4, <1>5 DEF IInv

LEMMA OneSetInv ==
  ASSUME IInv, Idle, NEW x \in Name, NEW S, Sound(S, NoTable),
         sets' = [sets EXCEPT ![x] = S], UNCHANGED <<job, insertion>>,
         Shape', Iteration', Owning'
  PROVE  IInv'
<1> USE DEF Idle, insertion
<1>1. old = NoTable /\ old' = NoTable
  BY DEF IInv, Control
<1>2. \A s \in Name : OldOf(s)' = IF s = x THEN NoTable ELSE OldOf(s)
  BY <1>1 DEF OldOf
<1>3. Tables'
  <2>1. \A s \in Name : sets'[s] = IF s = x THEN S ELSE sets[s]
    BY DEF IInv, Shape
  <2> QED BY <1>2, <2>1, OneSet
<1>4. Control'
  BY <1>1 DEF Control
<1>5. Jobs' /\ Progress'
  BY DEF Jobs, Progress
<1> QED BY <1>3, <1>4, <1>5 DEF IInv

(* What one changed set means for the values stored, between insertions. *)
LEMMA OneSetStored ==
  ASSUME IInv, pc = "idle", NEW x \in Name, NEW S, Sound(S, NoTable),
         sets' = [sets EXCEPT ![x] = S], UNCHANGED insertion
  PROVE  /\ \A s \in Name : Stored(s)' = IF s = x THEN Holding(S, NoTable) ELSE Stored(s)
         /\ \A s \in Name : sets'[s] = IF s = x THEN S ELSE sets[s]
         /\ DOMAIN sets' = Name
         /\ Tables'
<1>1. old = NoTable /\ old' = NoTable
  BY DEF IInv, Control, insertion
<1>2. \A s \in Name : OldOf(s)' = IF s = x THEN NoTable ELSE OldOf(s)
  BY <1>1 DEF OldOf
<1>3. DOMAIN sets' = Name /\ \A s \in Name : sets'[s] = IF s = x THEN S ELSE sets[s]
  BY DEF IInv, Shape
<1> QED BY <1>2, <1>3, OneSet

LEMMA NewInv ==
  ASSUME IInv, NEW s \in Name, New(s)
  PROVE  /\ IInv'
         /\ \A t \in Name : Stored(t)' = IF t = s THEN {} ELSE Stored(t)
         /\ \A t \in Name : sets'[t] = IF t = s THEN NewSet ELSE sets[t]
<1> USE DEF New
<1>1. Idle /\ sets' = [sets EXCEPT ![s] = NewSet] /\ UNCHANGED <<job, insertion>>
      /\ pc = "idle" /\ iter' = iter /\ live' = live
  BY DEF Idle
<1>2. /\ \A t \in Name : Stored(t)' = IF t = s THEN Holding(NewSet, NoTable) ELSE Stored(t)
      /\ \A t \in Name : sets'[t] = IF t = s THEN NewSet ELSE sets[t]
      /\ DOMAIN sets' = Name
  BY <1>1, NewSetSound, OneSetStored
<1>3. Shape'
  BY <1>2 DEF IInv, Shape, Answers, insertion
<1>4. Owning'
  <2>1. NewSet.free_func = FALSE /\ sets[s].free_func = FALSE
    BY Facts, NewSetSound, NoSetSound
  <2> QED BY <1>1, <1>2, <2>1, OwnOne, ZenonT(40)
<1>5. Iteration'
  <2>1. iter.set # NULL => iter.set # s /\ iter.set \in Name
    BY DEF IInv, Iteration, Shape
  <2> QED BY <1>1, <1>2, <2>1, IterSame
<1>6. IInv'
  BY <1>1, <1>3, <1>4, <1>5, NewSetSound, OneSetInv
<1> QED BY <1>2, <1>6, NewSetSound

LEMMA RegisterInv ==
  ASSUME IInv, NEW s \in Name, RegisterFreeFunction(s)
  PROVE  /\ IInv'
         /\ \A t \in Name : Stored(t)' = Stored(t)
         /\ \A t \in Name : sets'[t].table_size = sets[t].table_size
<1> USE DEF RegisterFreeFunction
<1> DEFINE T == Owned(sets[s])
<1>1. Idle /\ UNCHANGED <<job, insertion>> /\ pc = "idle" /\ iter' = iter /\ live' = live
  BY DEF Idle
<1>2. sets' = [sets EXCEPT ![s] = T]
  BY DEF Owned
<1>3. Sound(sets[s], NoTable) /\ sets[s].table_size # 0
  BY <1>1, NoOld DEF IInv, Control, Exists
<1>a. T = Owned(sets[s])
  OBVIOUS
<1> HIDE DEF T
<1>4. /\ Sound(T, NoTable) /\ T.table = sets[s].table /\ T.table_size = sets[s].table_size
      /\ T.free_func = TRUE /\ Holding(T, NoTable) = Holding(sets[s], NoTable)
  <2> HIDE DEF RegisterFreeFunction
  <2>1. \A S, o : Sound(S, o) /\ S.table_size # 0 =>
          /\ Sound(Owned(S), o)
          /\ Owned(S).table = S.table
          /\ Owned(S).table_size = S.table_size
          /\ Owned(S).free_func = TRUE
          /\ Holding(Owned(S), o) = Holding(S, o)
    BY OwningSound
  <2> QED BY <1>3, <1>a, <2>1
<1>5. /\ \A t \in Name : Stored(t)' = IF t = s THEN Holding(T, NoTable) ELSE Stored(t)
      /\ \A t \in Name : sets'[t] = IF t = s THEN T ELSE sets[t]
      /\ DOMAIN sets' = Name
  BY <1>1, <1>2, <1>4, OneSetStored
<1>6. Shape'
  BY <1>5 DEF IInv, Shape, NoAnswer, Answers, insertion
<1>7. Owning'
  <2>1. live = {} /\ Stored(s)' = {}
    <3>1. Stored(s) = Holding(sets[s], NoTable)
      BY <1>1, NoOld DEF IInv, Control
    <3> QED BY <1>4, <1>5, <3>1 DEF IInv, Owning
  <2>2. \A t \in Name : sets'[t].free_func => t = s
    BY <1>5
  <2> QED BY <1>1, <1>4, <1>5, <2>1, <2>2 DEF Owning
<1>8. Iteration'
  <2>1. \A it : At(sets[s], it) => At(T, it)
    BY <1>4 DEF At
  <2>2. iter.set # NULL => iter.set \in Name
    BY DEF IInv, Shape
  <2> QED BY <1>1, <1>4, <1>5, <2>1, <2>2 DEF IInv, Iteration, Exists
<1>9. IInv'
  BY <1>1, <1>2, <1>4, <1>6, <1>7, <1>8, OneSetInv
<1>10. Stored(s) = Holding(sets[s], NoTable)
  BY <1>1, NoOld DEF IInv, Control
<1> QED BY <1>4, <1>5, <1>9, <1>10

LEMMA FreeInv ==
  ASSUME IInv, NEW s \in Name, Free(s)
  PROVE  /\ IInv'
         /\ \A t \in Name : Stored(t)' = IF t = s THEN {} ELSE Stored(t)
         /\ \A t \in Name : sets'[t] = IF t = s THEN NoSet ELSE sets[t]
<1> USE DEF Free
<1>1. Idle /\ UNCHANGED <<job, insertion>> /\ pc = "idle"
      /\ sets' = [sets EXCEPT ![s] = NoSet]
  BY DEF Idle
<1>2. /\ \A t \in Name : Stored(t)' = IF t = s THEN {} ELSE Stored(t)
      /\ \A t \in Name : sets'[t] = IF t = s THEN NoSet ELSE sets[t]
      /\ DOMAIN sets' = Name
  BY <1>1, NoSetSound, OneSetStored
<1>3. /\ Iteration'
      /\ iter' \in [set : Name \cup {NULL}, next_entry : Value \cup {NULL},
                    next_chain : Nat, returned : SUBSET Value]
  <2>1. CASE iter.set = s
    BY <2>1, IterNone
  <2>2. CASE iter.set # s
    <3>1. iter' = iter /\ (iter.set # NULL => sets'[iter.set] = sets[iter.set])
      BY <1>2, <2>2 DEF IInv, Shape
    <3> QED BY <3>1, IterSame DEF IInv, Shape
  <2> QED BY <2>1, <2>2
<1>4. live' = IF sets[s].free_func THEN {} ELSE live
  <2>1. sets[s].free_func => live = Stored(s)
    BY DEF IInv, Owning
  <2> QED BY <2>1 DEF Release
<1>5. Shape'
  BY <1>2, <1>3, <1>4 DEF IInv, Shape, NoAnswer, Answers, insertion
<1>6. Owning'
  <2>0. NoSet.free_func = FALSE
    BY NoSetSound
  <2>1. CASE sets[s].free_func
    <3>1. \A t \in Name : ~sets'[t].free_func
      BY <1>2, <2>0, <2>1 DEF IInv, Owning
    <3> QED BY <1>4, <2>1, <3>1 DEF Owning
  <2>2. CASE ~sets[s].free_func
    <3>1. sets[s].free_func = FALSE
      BY <2>2, Facts DEF IsSet
    <3> QED BY <1>2, <1>4, <2>0, <3>1, OwnOne
  <2> QED BY <2>1, <2>2
<1>7. IInv'
  BY <1>1, <1>3, <1>5, <1>6, NoSetSound, OneSetInv
<1> QED BY <1>2, <1>7

LEMMA RemoveInv ==
  ASSUME IInv, NEW s \in Name, NEW v \in Value, RemoveValue(s, v)
  PROVE  /\ IInv'
         /\ ClassOf[v] \in ClassesOf(Stored(s))
         /\ \A t \in Name : ClassesOf(Stored(t)') =
              IF t = s THEN ClassesOf(Stored(s)) \ {ClassOf[v]} ELSE ClassesOf(Stored(t))
         /\ \A t \in Name : sets'[t].table_size = sets[t].table_size
<1> DEFINE S == sets[s]
           c == Index(v, S.table_size)
<1>1. /\ Idle /\ UNCHANGED <<job, insertion>> /\ pc = "idle" /\ Exists(s)
      /\ result' = 1 /\ memory' = TRUE
  BY DEF Idle, RemoveValue, RemoveAtPlace, Answers
<1>2. PICK p \in Matches(S.table[c], v) : RemoveAtPlace(s, c, p)
  BY DEF RemoveValue, Chain
<1>3. Sound(S, NoTable) /\ S.table_size # 0 /\ Stored(s) = Holding(S, NoTable)
  BY <1>1, NoOld DEF IInv, Control, Exists
<1>4. /\ c \in 0 .. S.table_size - 1 /\ p \in 1 .. Len(S.table[c])
      /\ ClassOf[S.table[c][p]] = ClassOf[v]
  <2>1. WellFormedTable(S.table, S.table_size) /\ S.table_size > 0
    BY <1>3 DEF Sound, IsSet, WellFormedTable
  <2> QED BY <2>1, MatchesDecide
<1> DEFINE w == S.table[c][p]
           T == Without(S, c, p)
           r == RemoveAt(S.table[c], p)
<1>5. /\ <<s, w>> # <<iter.set, iter.next_entry>>
      /\ sets' = [sets EXCEPT ![s] = T]
      /\ live' = Release(S, {w})
      /\ iter' = [iter EXCEPT !.returned = IF iter.set = s THEN @ \ {w} ELSE @]
  <2>1. sets' = [sets EXCEPT ![s].table[c] = RemoveAt(@, p), ![s].entries = @ - 1]
    BY <1>2 DEF RemoveAtPlace
  <2>2. sets' = [sets EXCEPT ![s] = T]
    BY <2>1 DEF Without, IInv, Shape
  <2> QED BY <1>2, <2>2 DEF RemoveAtPlace
<1>a. T = Without(S, c, p) /\ r = RemoveAt(S.table[c], p) /\ w = S.table[c][p]
  OBVIOUS
<1> HIDE DEF c, T, r, w
<1>6. /\ Sound(T, NoTable)
      /\ T.table_size = S.table_size
      /\ T.free_func = S.free_func
      /\ T.table = WithChain(S.table, c, r)
      /\ IsCut(r, S.table[c], p)
      /\ w \in Value
      /\ w \in Holding(S, NoTable)
      /\ Holding(T, NoTable) = Holding(S, NoTable) \ {w}
      /\ ClassesOf(Holding(T, NoTable)) = ClassesOf(Holding(S, NoTable)) \ {ClassOf[w]}
  <2>1. /\ Sound(T, NoTable)
        /\ T.table_size = S.table_size
        /\ T.free_func = S.free_func
        /\ T.table = WithChain(S.table, c, RemoveAt(S.table[c], p))
        /\ IsCut(RemoveAt(S.table[c], p), S.table[c], p)
        /\ w \in Value
        /\ w \in Holding(S, NoTable)
        /\ Holding(T, NoTable) = Holding(S, NoTable) \ {w}
        /\ ClassesOf(Holding(T, NoTable)) = ClassesOf(Holding(S, NoTable)) \ {ClassOf[w]}
    <3> HIDE DEF S
    <3> QED BY <1>3, <1>4, <1>a, RemoveSound, SMTT(20)
  <2> QED BY <2>1, <1>a
<1>7. /\ \A t \in Name : Stored(t)' = IF t = s THEN Holding(T, NoTable) ELSE Stored(t)
      /\ \A t \in Name : sets'[t] = IF t = s THEN T ELSE sets[t]
      /\ DOMAIN sets' = Name
  BY <1>1, <1>5, <1>6, OneSetStored
<1>8. iter = [set |-> iter.set, next_entry |-> iter.next_entry,
              next_chain |-> iter.next_chain, returned |-> iter.returned]
      /\ iter.returned \in SUBSET Value
  BY DEF IInv, Shape
<1>9. iter' = [set |-> iter.set, next_entry |-> iter.next_entry,
               next_chain |-> iter.next_chain,
               returned |-> IF iter.set = s THEN iter.returned \ {w} ELSE iter.returned]
  BY <1>5, <1>8
<1>10. live' = IF S.free_func THEN live \ {w} ELSE live
  BY <1>5 DEF Release
<1>11. Shape'
  <2>1. iter' \in [set : Name \cup {NULL}, next_entry : Value \cup {NULL},
                   next_chain : Nat, returned : SUBSET Value]
    BY <1>8, <1>9 DEF IInv, Shape
  <2> QED BY <1>1, <1>7, <1>10, <2>1 DEF IInv, Shape, insertion
<1>12. Iteration'
  <2>1. CASE iter.set # s
    <3>1. iter' = iter
      BY <1>8, <1>9, <2>1
    <3>2. iter.set # NULL => sets'[iter.set] = sets[iter.set]
      BY <1>7, <2>1 DEF IInv, Shape
    <3> QED BY <3>1, <3>2, IterSame
  <2>2. CASE iter.set = s
    <3>1. /\ iter'.set = s /\ iter'.next_entry = iter.next_entry
          /\ iter'.next_chain = iter.next_chain
          /\ iter'.returned = iter.returned \ {w}
      BY <1>9, <2>2
    <3>2. iter.set # NULL /\ At(S, iter) /\ IsSet(S)
      BY <2>2, Facts DEF IInv, Iteration
    <3>3. iter.next_entry # w
      BY <1>5, <2>2
    <3>4. At(T, iter')
      <4> HIDE DEF S
      <4>1. /\ c \in 0 .. S.table_size - 1 /\ p \in 1 .. Len(S.table[c])
            /\ T.table_size = S.table_size /\ IsCut(r, S.table[c], p)
            /\ T.table = WithChain(S.table, c, r)
        BY <1>4, <1>6
      <4>2. /\ iter'.next_entry = iter.next_entry /\ iter'.next_chain = iter.next_chain
            /\ iter'.returned = iter.returned \ {w} /\ w = S.table[c][p]
        BY <3>1, <1>a
      <4> QED BY <3>2, <3>3, <4>1, <4>2, RemoveKeepsAt
    <3>5. iter'.set = s /\ s # NULL /\ sets'[s] = T /\ T.table_size # 0
      BY <1>3, <1>6, <1>7, <3>1, SetAssumption
    <3> QED BY <3>4, <3>5 DEF Iteration, Exists
  <2> QED BY <2>1, <2>2
<1>13. Owning'
  <2>1. S.free_func => live = Holding(S, NoTable)
    BY <1>3 DEF IInv, Owning
  <2>2. live' = IF T.free_func THEN Holding(T, NoTable) ELSE live
    BY <1>6, <1>10, <2>1
  <2> QED BY <1>6, <1>7, <2>2, OwnOne
<1>14. IInv'
  BY <1>1, <1>5, <1>6, <1>11, <1>12, <1>13, OneSetInv
<1>15. ClassOf[w] = ClassOf[v]
  BY <1>4 DEF w
<1>16. ClassOf[v] \in ClassesOf(Stored(s))
  BY <1>3, <1>6, <1>15 DEF ClassesOf
<1> QED BY <1>3, <1>6, <1>7, <1>14, <1>15, <1>16

LEMMA IterateInv ==
  ASSUME IInv, NEW s \in Name, Iterate(s)
  PROVE  IInv' /\ \A t \in Name : Stored(t)' = Stored(t)
<1>1. /\ Idle /\ UNCHANGED <<sets, job, insertion, live>>
      /\ iter' = IteratorOf(s) /\ Exists(s) /\ result' = 1 /\ memory' = TRUE
  BY DEF Iterate, NoAnswer, Answers
<1>2. IsSet(sets[s])
  BY Facts
<1>3. /\ At(sets[s], iter')
      /\ iter' = [set |-> s, next_entry |-> iter'.next_entry,
                  next_chain |-> iter'.next_chain, returned |-> {}]
      /\ iter'.set = s
      /\ iter'.next_entry \in Value \cup {NULL}
      /\ iter'.next_chain \in Nat
  BY <1>1, <1>2, IteratorAt
<1>4. Iteration'
  BY <1>1, <1>3, SetAssumption DEF Iteration, Exists
<1>5. Shape'
  <2>1. iter' \in [set : Name \cup {NULL}, next_entry : Value \cup {NULL},
                   next_chain : Nat, returned : SUBSET Value]
    BY <1>3
  <2> QED BY <1>1, <2>1 DEF IInv, Shape, insertion
<1> QED BY <1>1, <1>4, <1>5, QuietInv

(* set_iter_next, the caller's and that of a loop. *)
LEMMA AdvanceIter ==
  ASSUME IInv, HasMore, sets' = sets, iter' = Advanced(iter)
  PROVE  /\ iter' \in [set : Name \cup {NULL}, next_entry : Value \cup {NULL},
                       next_chain : Nat, returned : SUBSET Value]
         /\ Iteration'
         /\ iter.set \in Name /\ iter'.set = iter.set
         /\ iter'.returned = iter.returned \cup {iter.next_entry}
         /\ iter.next_entry \in Value
         /\ iter.next_entry \in StoredIn(sets[iter.set].table)
         /\ iter.returned \subseteq StoredIn(sets[iter.set].table)
         /\ iter.next_entry \notin iter.returned
<1>1. /\ iter = [set |-> iter.set, next_entry |-> iter.next_entry,
                 next_chain |-> iter.next_chain, returned |-> iter.returned]
      /\ iter.set \in Name \cup {NULL} /\ iter.returned \in SUBSET Value
  BY DEF IInv, Shape
<1>2. iter.next_entry # NULL
  BY DEF HasMore
<1>3. iter.set \in Name /\ iter.set # NULL /\ Exists(iter.set) /\ At(sets[iter.set], iter)
  <2>1. NoIterator.next_entry = NULL
    BY DEF NoIterator
  <2> QED BY <1>1, <1>2, <2>1 DEF IInv, Iteration
<1>4. IsSet(sets[iter.set])
  BY <1>3, Facts
<1>5. /\ iter.next_entry \in StoredIn(sets[iter.set].table)
      /\ iter.next_entry \in Value
      /\ iter.next_entry \notin iter.returned
  BY <1>2, <1>3, <1>4, NextValue
<1>6. /\ At(sets[iter.set], iter')
      /\ iter' = [set |-> iter.set, next_entry |-> iter'.next_entry,
                  next_chain |-> iter'.next_chain,
                  returned |-> iter.returned \cup {iter.next_entry}]
      /\ iter'.set = iter.set
      /\ iter'.returned = iter.returned \cup {iter.next_entry}
      /\ iter'.next_entry \in Value \cup {NULL}
      /\ iter'.next_chain \in Nat
  BY <1>1, <1>2, <1>3, <1>4, AdvancedAt
<1>7. iter' \in [set : Name \cup {NULL}, next_entry : Value \cup {NULL},
                 next_chain : Nat, returned : SUBSET Value]
  BY <1>1, <1>3, <1>5, <1>6
<1>8. Iteration'
  BY <1>3, <1>6 DEF Iteration, Exists
<1>9. iter.returned \subseteq StoredIn(sets[iter.set].table)
  BY <1>3 DEF At
<1> QED BY <1>3, <1>5, <1>6, <1>7, <1>8, <1>9

LEMMA IterNextInv ==
  ASSUME IInv, IterNext
  PROVE  IInv' /\ \A t \in Name : Stored(t)' = Stored(t)
<1>1. /\ Idle /\ UNCHANGED <<sets, job, insertion, live>>
      /\ HasMore /\ iter' = Advanced(iter) /\ result' = 1 /\ memory' = TRUE
  BY DEF IterNext, NoAnswer, Answers
<1>2. /\ iter' \in [set : Name \cup {NULL}, next_entry : Value \cup {NULL},
                    next_chain : Nat, returned : SUBSET Value]
      /\ Iteration'
  BY <1>1, AdvanceIter
<1>3. Shape'
  BY <1>1, <1>2 DEF IInv, Shape, insertion
<1> QED BY <1>1, <1>2, <1>3, QuietInv

LEMMA IdleAnswerInv ==
  ASSUME IInv, Idle, UNCHANGED <<sets, iter, job, insertion, live>>,
         result' \in {0, 1, NULL}, memory' \in BOOLEAN
  PROVE  IInv' /\ \A t \in Name : Stored(t)' = Stored(t)
<1>1. Shape'
  BY DEF IInv, Shape, insertion
<1>2. Iteration'
  BY IterSame
<1> QED BY <1>1, <1>2, QuietInv

-----------------------------------------------------------------------------
(* An insertion. *)

LEMMA TooFullHasEntries ==
  ASSUME NEW S, IsSet(S), S.table_size # 0, TooFull(S)
  PROVE  S.entries > 0
<1>1. S.entries \in Nat /\ S.table_size \in Nat /\ S.table_size > 0
  BY DEF IsSet, WellFormedTable
<1>2. (0 * 3) \div S.table_size = 0
  BY <1>1
<1> QED BY <1>1, <1>2 DEF TooFull

LEMMA InsertInv ==
  ASSUME IInv, NEW s \in Name, NEW v \in Value, Insert(s, v)
  PROVE  IInv' /\ \A t \in Name : Stored(t)' = Stored(t)
<1>1. /\ Idle /\ Exists(s) /\ SetInsert(s, v) /\ UNCHANGED <<sets, job, live>>
      /\ iter' = (IF iter.set = s THEN NoIterator ELSE iter)
      /\ result' = 1 /\ memory' = TRUE
      /\ pc = "idle" /\ job = NoJob /\ job' = NoJob
  BY DEF Insert, NoAnswer, Answers, Idle
<1>2. /\ target' = s /\ data' = v /\ old' = old /\ old = NoTable
      /\ pc' = (IF TooFull(sets[s]) THEN "enlarge" ELSE "place")
  BY <1>1 DEF SetInsert, IInv, Control
<1>3. Tables' /\ \A t \in Name : Stored(t)' = Stored(t)
  BY <1>1, <1>2, SameSets
<1>4. /\ Iteration'
      /\ iter' \in [set : Name \cup {NULL}, next_entry : Value \cup {NULL},
                    next_chain : Nat, returned : SUBSET Value]
      /\ iter'.set # s
  <2>1. CASE iter.set = s
    <3>1. NULL # s
      BY SetAssumption
    <3> QED BY <1>1, <2>1, <3>1, IterNone DEF NoIterator
  <2>2. CASE iter.set # s
    BY <1>1, <2>2, IterSame DEF IInv, Shape
  <2> QED BY <2>1, <2>2
<1>5. Shape'
  BY <1>1, <1>2, <1>4 DEF IInv, Shape
<1>6. Control'
  <2>1. TooFull(sets[s]) => sets[s].entries > 0
    BY <1>1, TooFullHasEntries, Facts DEF Exists
  <2> QED BY <1>1, <1>2, <1>4, <2>1 DEF Control, Exists
<1>7. Jobs' /\ Progress'
  BY <1>1 DEF Jobs, Progress
<1>8. Owning'
  BY <1>1, <1>3, OwnSame
<1> QED BY <1>3, <1>4, <1>5, <1>6, <1>7, <1>8 DEF IInv

(* The turns of an enlargement change the tables and not the values. *)
LEMMA RehashStep ==
  ASSUME IInv, pc # "idle", NEW S, NEW o, Sound(S, o),
         S.table_size # 0, S.free_func = sets[target].free_func,
         Holding(S, o) = Holding(sets[target], old),
         DOMAIN sets' = Name, \A s \in Name : sets'[s] = IF s = target THEN S ELSE sets[s],
         old' = o,
         pc' \in {"rehash", "place"}, pc' = "place" => old' = NoTable,
         UNCHANGED <<iter, job, target, data, live, outcome>>
  PROVE  /\ IInv'
         /\ \A t \in Name : Stored(t)' = Stored(t)
         /\ \A t \in Name : sets'[t].table_size # 0 <=> sets[t].table_size # 0
<1>1. target \in Name /\ data \in Value /\ Exists(target) /\ target # iter.set
  BY DEF IInv, Shape, Control
<1>2. \A s \in Name : OldOf(s)' = IF s = target THEN o ELSE OldOf(s)
  BY DEF OldOf
<1>3. /\ Tables'
      /\ \A s \in Name : Stored(s)' = IF s = target THEN Holding(S, o) ELSE Stored(s)
  BY <1>1, <1>2, OneSet
<1>4. \A s \in Name : Stored(s)' = Stored(s)
  BY <1>3, Facts
<1>5. Shape'
  BY <1>1, <1>3 DEF IInv, Shape, outcome
<1>6. Control'
  BY <1>1, <1>3 DEF IInv, Control, Exists
<1>7. Iteration'
  <2>1. iter.set # NULL => sets'[iter.set] = sets[iter.set]
    BY <1>1, <1>3 DEF IInv, Shape
  <2> QED BY <2>1, IterSame
<1>8. \A s \in Name : /\ sets'[s].table_size # 0 <=> sets[s].table_size # 0
                      /\ sets'[s].free_func = sets[s].free_func
  BY <1>1, <1>3 DEF Exists
<1>9. Jobs'
  <2> SUFFICES ASSUME job # NoJob
               PROVE  Jobs'
    BY DEF Jobs
  <2>1. job.set1 \in Name /\ job.set2 \in Name /\ job.new_set \in Name
    BY Facts
  <2> QED BY <1>8, <2>1 DEF IInv, Jobs, Exists
<1>10. Progress'
  <2> SUFFICES ASSUME job # NoJob
               PROVE  Progress'
    BY DEF Progress
  <2>1. job.set1 \in Name /\ job.set2 \in Name /\ job.new_set \in Name
    BY Facts
  <2>2. Copied' = Copied
    BY <1>4, <2>1 DEF Copied
  <2>3. Arriving' = Arriving
    BY DEF Arriving
  <2>4. Stored(job.new_set)' = Stored(job.new_set)
    BY <1>4, <2>1
  <2> QED BY <2>2, <2>3, <2>4 DEF IInv, Progress
<1>11. Owning'
  <2>1. /\ live = (IF sets[target].free_func THEN Stored(target) ELSE live)
        /\ Holding(S, o) = Stored(target)
    BY <1>1, Facts DEF IInv, Owning
  <2>2. \A s \in Name : Stored(s)' = IF s = target THEN Stored(target) ELSE Stored(s)
    BY <1>4
  <2> QED BY <1>1, <1>3, <2>1, <2>2, OwnOne
<1> QED BY <1>3, <1>4, <1>5, <1>6, <1>7, <1>8, <1>9, <1>10, <1>11 DEF IInv

LEMMA EnlargeInv ==
  ASSUME IInv, Enlarge
  PROVE  /\ IInv'
         /\ \A t \in Name : Stored(t)' = Stored(t)
         /\ \A t \in Name : sets'[t].table_size # 0 <=> sets[t].table_size # 0
<1> DEFINE S == sets[target]
           T == Enlarged(S)
           o == [table |-> S.table, table_size |-> S.table_size]
<1>1. /\ pc = "enlarge" /\ sets' = [sets EXCEPT ![target] = T] /\ old' = o
      /\ pc' = "rehash" /\ UNCHANGED <<iter, job, target, data, live, outcome>>
  BY DEF Enlarge
<1>2. old = NoTable /\ S.entries > 0 /\ S.table_size # 0
  BY <1>1 DEF IInv, Control, Exists
<1>3. Sound(S, NoTable)
  BY <1>1, <1>2, Facts
<1>a. T = Enlarged(S) /\ o = [table |-> S.table, table_size |-> S.table_size]
  OBVIOUS
<1> HIDE DEF T, o, S
<1>4. /\ Sound(T, o) /\ T.table_size # 0 /\ T.free_func = S.free_func
      /\ Holding(T, o) = Holding(S, NoTable)
  BY <1>2, <1>3, <1>a, EnlargedSound
<1>5. DOMAIN sets' = Name /\ \A s \in Name : sets'[s] = IF s = target THEN T ELSE sets[s]
  BY <1>1 DEF IInv, Shape
<1> QED BY <1>1, <1>2, <1>4, <1>5, RehashStep DEF S

LEMMA MoveEntryInv ==
  ASSUME IInv, MoveEntry
  PROVE  /\ IInv'
         /\ \A t \in Name : Stored(t)' = Stored(t)
         /\ \A t \in Name : sets'[t].table_size # 0 <=> sets[t].table_size # 0
<1> DEFINE S == sets[target]
           c == NextChain(old, 0)
           v == old.table[c][1]
           T == Hooked(S, v)
           u == Shortened(old, c)
<1>1. /\ pc = "rehash" /\ sets' = [sets EXCEPT ![target] = T] /\ old' = u
      /\ c < old.table_size
      /\ UNCHANGED <<iter, job, pc, target, data, live, outcome>>
  BY DEF MoveEntry, Rest, Shortened
<1>2. S.table_size # 0
  BY <1>1 DEF IInv, Control, Exists
<1>3. Sound(S, old)
  BY <1>1, Facts
<1>a. c = NextChain(old, 0) /\ v = old.table[c][1] /\ T = Hooked(S, v) /\ u = Shortened(old, c)
  OBVIOUS
<1> HIDE DEF T, u, c, v, S
<1>4. /\ Sound(T, u) /\ T.table_size = S.table_size /\ T.free_func = S.free_func
      /\ Holding(T, u) = Holding(S, old)
  BY <1>1, <1>2, <1>3, <1>a, MoveSound
<1>5. DOMAIN sets' = Name /\ \A s \in Name : sets'[s] = IF s = target THEN T ELSE sets[s]
  BY <1>1 DEF IInv, Shape
<1> QED BY <1>1, <1>2, <1>4, <1>5, RehashStep DEF S

LEMMA EndRehashInv ==
  ASSUME IInv, EndRehash
  PROVE  /\ IInv'
         /\ \A t \in Name : Stored(t)' = Stored(t)
         /\ \A t \in Name : sets'[t].table_size # 0 <=> sets[t].table_size # 0
<1> DEFINE S == sets[target]
<1>1. /\ pc = "rehash" /\ pc' = "place" /\ old' = NoTable
      /\ NextChain(old, 0) = old.table_size
      /\ UNCHANGED <<sets, iter, job, target, data, live, outcome>>
  BY DEF EndRehash
<1>2. S.table_size # 0 /\ target \in Name
  BY <1>1 DEF IInv, Control, Exists, Shape
<1>3. Sound(S, old)
  BY <1>1, Facts
<1>4. /\ Sound(S, NoTable) /\ Holding(S, NoTable) = Holding(S, old)
  BY <1>1, <1>3, RehashedSound
<1>5. DOMAIN sets' = Name /\ \A s \in Name : sets'[s] = IF s = target THEN S ELSE sets[s]
  BY <1>1 DEF IInv, Shape
<1> QED BY <1>1, <1>2, <1>4, <1>5, RehashStep

(* set_insert returns 0, and the union or intersection with it. *)
LEMMA FailsInv ==
  ASSUME IInv, pc \in {"enlarge", "place"}, NEW granted \in BOOLEAN, Fails(granted)
  PROVE  /\ IInv'
         /\ job = NoJob => \A t \in Name : sets'[t] = sets[t] /\ Stored(t)' = Stored(t)
         /\ \A t \in Name : t # job.new_set =>
              sets'[t] = sets[t] /\ Stored(t)' = Stored(t)
         /\ job # NoJob => job.new_set \in Name /\ sets'[job.new_set].table_size = 0
<1>1. /\ pc' = "idle" /\ target' = NULL /\ data' = NULL /\ old' = old
      /\ memory' = granted /\ job' = NoJob
  BY DEF Fails, InsertionOver, Answers
<1>2. old = NoTable /\ target \in Name /\ target # iter.set /\ pc # "idle"
  BY DEF IInv, Control, Shape
<1>3. Control' /\ Jobs' /\ Progress'
  BY <1>1, <1>2 DEF Control, Jobs, Progress
<1>4. CASE job = NoJob
  <2>1. result' = 0 /\ UNCHANGED <<sets, live, iter>>
    BY <1>4 DEF Fails, Answers
  <2>2. Tables' /\ \A s \in Name : Stored(s)' = Stored(s)
    BY <1>1, <1>2, <2>1, SameSets
  <2>3. Shape'
    BY <1>1, <2>1 DEF IInv, Shape
  <2>4. Iteration'
    BY <2>1, IterSame
  <2>5. Owning'
    BY <2>1, <2>2, OwnSame
  <2>6. IInv'
    BY <1>3, <2>2, <2>3, <2>4, <2>5 DEF IInv
  <2> QED BY <1>4, <2>1, <2>2, <2>6
<1>5. CASE job # NoJob
  <2>1. /\ sets' = [sets EXCEPT ![target] = NoSet] /\ iter' = NoIterator
        /\ result' = NULL /\ live' = Release(sets[target], Stored(target))
    BY <1>5 DEF Fails, Answers
  <2>2. target = job.new_set
    BY <1>2, <1>5 DEF IInv, Control
  <2>3. sets[target].free_func = FALSE
    BY <1>2, <1>5, <2>2, Facts DEF IInv, Jobs, IsSet
  <2>4. live' = live
    BY <2>1, <2>3 DEF Release
  <2>5. \A s \in Name : OldOf(s)' = IF s = target THEN NoTable ELSE OldOf(s)
    BY <1>1, <1>2 DEF OldOf
  <2>6. DOMAIN sets' = Name /\ \A s \in Name : sets'[s] = IF s = target THEN NoSet ELSE sets[s]
    BY <2>1 DEF IInv, Shape
  <2>7. /\ Tables'
        /\ \A s \in Name : Stored(s)' = IF s = target THEN {} ELSE Stored(s)
    BY <1>2, <2>5, <2>6, NoSetSound, OneSet
  <2>8. Iteration' /\ iter' \in [set : Name \cup {NULL}, next_entry : Value \cup {NULL},
                                 next_chain : Nat, returned : SUBSET Value]
    BY <2>1, IterNone
  <2>9. Shape'
    BY <1>1, <2>1, <2>4, <2>6, <2>8 DEF IInv, Shape
  <2>10. Owning'
    BY <1>2, <2>3, <2>4, <2>6, <2>7, NoSetSound, OwnOne
  <2>11. job.new_set \in Name /\ sets'[job.new_set].table_size = 0
    BY <1>2, <2>2, <2>6, NoSetSound
  <2>12. IInv'
    BY <1>3, <2>7, <2>8, <2>9, <2>10 DEF IInv
  <2>13. \A t \in Name : t # job.new_set => sets'[t] = sets[t] /\ Stored(t)' = Stored(t)
    BY <2>2, <2>6, <2>7
  <2> QED BY <1>5, <2>11, <2>12, <2>13
<1> QED BY <1>4, <1>5

LEMMA AddEntryInv ==
  ASSUME IInv, AddEntry
  PROVE  /\ IInv'
         /\ target \in Name /\ Exists(target) /\ data \in Value
         /\ ClassOf[data] \notin ClassesOf(Stored(target))
         /\ \A t \in Name : Stored(t)' = IF t = target THEN Stored(t) \cup {data} ELSE Stored(t)
         /\ \A t \in Name : sets'[t].table_size # 0 <=> sets[t].table_size # 0
<1> DEFINE S == sets[target]
           T == WithEntry(S, data)
<1>1. /\ pc = "place" /\ ~Query(S, data) /\ sets' = [sets EXCEPT ![target] = T]
      /\ live' = (IF S.free_func THEN live \cup {data} ELSE live)
      /\ pc' = "idle" /\ target' = NULL /\ data' = NULL /\ old' = old
      /\ UNCHANGED <<iter, job>> /\ result' = 1 /\ memory' = TRUE
  BY DEF AddEntry, InsertionOver, Answers
<1>2. /\ old = NoTable /\ target \in Name /\ data \in Value /\ target # iter.set
      /\ Exists(target) /\ S.table_size # 0
  BY <1>1 DEF IInv, Control, Shape, Exists
<1>3. Sound(S, NoTable) /\ Stored(target) = Holding(S, NoTable)
  BY <1>1, <1>2, Facts
<1>a. T = WithEntry(S, data)
  OBVIOUS
<1> HIDE DEF T, S
<1>4. /\ Sound(T, NoTable) /\ T.table_size = S.table_size /\ T.free_func = S.free_func
      /\ Holding(T, NoTable) = Holding(S, NoTable) \cup {data}
  BY <1>1, <1>2, <1>3, <1>a, AddSound
<1>5. ClassOf[data] \notin ClassesOf(Stored(target))
  BY <1>1, <1>2, <1>3, QueryDecides
<1>6. \A s \in Name : OldOf(s)' = IF s = target THEN NoTable ELSE OldOf(s)
  BY <1>1, <1>2 DEF OldOf
<1>7. DOMAIN sets' = Name /\ \A s \in Name : sets'[s] = IF s = target THEN T ELSE sets[s]
  BY <1>1 DEF IInv, Shape
<1>8. /\ Tables'
      /\ \A s \in Name : Stored(s)' = IF s = target THEN Holding(T, NoTable) ELSE Stored(s)
  BY <1>2, <1>4, <1>6, <1>7, OneSet
<1>9. \A s \in Name : Stored(s)' = IF s = target THEN Stored(s) \cup {data} ELSE Stored(s)
  BY <1>3, <1>4, <1>8
<1>10. \A s \in Name : /\ sets'[s].table_size # 0 <=> sets[s].table_size # 0
                       /\ sets'[s].free_func = sets[s].free_func
  BY <1>4, <1>7 DEF S
<1>11. Shape'
  BY <1>1, <1>2, <1>7 DEF IInv, Shape
<1>12. Control'
  BY <1>1, <1>2 DEF Control
<1>13. Iteration'
  <2>1. iter.set # NULL => sets'[iter.set] = sets[iter.set]
    BY <1>2, <1>7 DEF IInv, Shape
  <2> QED BY <1>1, <2>1, IterSame
<1>14. Owning'
  <2>1. live' = IF T.free_func THEN Holding(T, NoTable) ELSE live
    <3>1. S.free_func => live = Holding(S, NoTable)
      BY <1>2, <1>3 DEF IInv, Owning, S
    <3> QED BY <1>1, <1>4, <3>1
  <2>2. T.free_func = sets[target].free_func
    BY <1>4 DEF S
  <2> QED BY <1>2, <1>7, <1>8, <2>1, <2>2, OwnOne
<1>15. Jobs'
  <2> SUFFICES ASSUME job # NoJob
               PROVE  Jobs'
    BY <1>1 DEF Jobs
  <2>1. job.set1 \in Name /\ job.set2 \in Name /\ job.new_set \in Name
    BY Facts
  <2> QED BY <1>1, <1>10, <2>1 DEF IInv, Jobs, Exists
<1>16. Progress'
  <2> SUFFICES ASSUME job # NoJob
               PROVE  Progress'
    BY <1>1 DEF Progress
  <2>1. job.set1 \in Name /\ job.set2 \in Name /\ job.new_set \in Name
    BY Facts
  <2>2. target = job.new_set /\ job.new_set # job.set1 /\ job.new_set # job.set2
    BY <1>1 DEF IInv, Control, Jobs
  <2>3. /\ Stored(job.new_set)' = Stored(job.new_set) \cup {data}
        /\ Stored(job.set1)' = Stored(job.set1) /\ Stored(job.set2)' = Stored(job.set2)
    <3>1. job' = job
      BY <1>1
    <3> QED BY <1>9, <2>1, <2>2, <3>1
  <2>4. Copied' = Copied
    BY <1>1, <2>3 DEF Copied
  <2>5. Arriving = {ClassOf[data]} /\ Arriving' = {}
    BY <1>1 DEF Arriving
  <2>6. ClassesOf(Stored(job.new_set) \cup {data}) = ClassesOf(Stored(job.new_set)) \cup {ClassOf[data]}
    BY DEF ClassesOf
  <2>7. (job.new_set)' = job.new_set
    BY <1>1
  <2>8. ClassesOf(Stored(job.new_set)) \cup Arriving = Copied
    BY DEF IInv, Progress
  <2>9. ClassesOf(Stored(job.new_set))' = ClassesOf(Stored(job.new_set)) \cup {ClassOf[data]}
    BY <1>1, <2>3, <2>6
  <2> QED BY <2>4, <2>5, <2>8, <2>9 DEF Progress
<1> QED BY <1>2, <1>5, <1>8, <1>9, <1>10, <1>11, <1>12, <1>13, <1>14, <1>15, <1>16 DEF IInv

-----------------------------------------------------------------------------
(* A union or an intersection. *)

LEMMA BeginInv ==
  ASSUME IInv, NEW op \in {"union", "intersection"},
         NEW s1 \in Name, NEW s2 \in Name, NEW s \in Name, Begin(op, s1, s2, s)
  PROVE  /\ IInv'
         /\ \A t \in Name : Stored(t)' = Stored(t)
         /\ \A t \in Name : t # s => sets'[t] = sets[t]
<1>1. /\ Idle /\ pc = "idle" /\ job = NoJob /\ UNCHANGED <<insertion, live>>
      /\ Exists(s1) /\ Exists(s2) /\ ~Exists(s)
      /\ sets' = [sets EXCEPT ![s] = NewSet]
      /\ job' = [op |-> op, loop |-> 1, set1 |-> s1, set2 |-> s2, new_set |-> s]
      /\ iter' = IteratorOf(s1) /\ result' = 1 /\ memory' = TRUE
  BY DEF Begin, Idle, NoAnswer, Answers
<1>2. /\ \A t \in Name : Stored(t)' = IF t = s THEN {} ELSE Stored(t)
      /\ \A t \in Name : sets'[t] = IF t = s THEN NewSet ELSE sets[t]
      /\ DOMAIN sets' = Name
      /\ Tables'
  BY <1>1, NewSetSound, OneSetStored
<1>3. s1 # s /\ s2 # s /\ Stored(s) = {} /\ sets[s] = NoSet /\ IsSet(sets[s1])
  BY <1>1, Facts
<1>4. /\ At(sets[s1], iter')
      /\ iter' = [set |-> s1, next_entry |-> iter'.next_entry,
                  next_chain |-> iter'.next_chain, returned |-> {}]
      /\ iter'.set = s1
      /\ iter'.returned = {}
      /\ iter'.next_entry \in Value \cup {NULL}
      /\ iter'.next_chain \in Nat
  BY <1>1, <1>3, IteratorAt
<1>5. Iteration'
  BY <1>1, <1>2, <1>3, <1>4, SetAssumption DEF Iteration, Exists
<1>6. Shape'
  <2>1. iter' \in [set : Name \cup {NULL}, next_entry : Value \cup {NULL},
                   next_chain : Nat, returned : SUBSET Value]
    BY <1>4
  <2>2. job' \in [op : {"union", "intersection"}, loop : {1, 2}, set1 : Name,
                  set2 : Name, new_set : Name]
    BY <1>1
  <2> QED BY <1>1, <1>2, <2>1, <2>2 DEF IInv, Shape, insertion
<1>7. Control'
  BY <1>1 DEF IInv, Control, insertion
<1>8. /\ job'.op = op /\ job'.loop = 1 /\ job'.set1 = s1 /\ job'.set2 = s2
      /\ job'.new_set = s
  BY <1>1
<1>9. Jobs'
  <2>1. ~NewSet.free_func /\ NewSet.table_size # 0
    BY NewSetSound
  <2> QED BY <1>1, <1>2, <1>3, <1>4, <1>8, <2>1 DEF Jobs, Exists
<1>10. Progress'
  <2>1. Arriving' = {}
    BY <1>1 DEF Arriving, insertion
  <2>2. ClassesOf(iter'.returned) = {}
    BY <1>4 DEF ClassesOf
  <2>3. Copied' = {}
    BY <1>8, <2>2 DEF Copied
  <2>4. ClassesOf(Stored(s)') = {}
    BY <1>2 DEF ClassesOf
  <2>5. ClassesOf(Stored(job.new_set))' = ClassesOf(Stored(s)')
    <3>1. Stored(job.new_set)' = Stored(s)'
      BY <1>8 DEF Stored
    <3> QED BY <3>1
  <2> QED BY <2>1, <2>3, <2>4, <2>5 DEF Progress
<1>11. Owning'
  <2>1. NewSet.free_func = FALSE /\ sets[s].free_func = FALSE
    BY <1>3, NewSetSound, NoSetSound
  <2>2. live' = live /\ (\A t \in Name : sets'[t] = IF t = s THEN NewSet ELSE sets[t])
        /\ (\A t \in Name : Stored(t)' = IF t = s THEN {} ELSE Stored(t))
    BY <1>1, <1>2
  <2>3. live' = IF NewSet.free_func THEN {} ELSE live
    BY <2>1, <2>2
  <2> QED BY <2>1, <2>2, <2>3, OwnOne
<1> QED BY <1>2, <1>3, <1>5, <1>6, <1>7, <1>9, <1>10, <1>11 DEF IInv

(* Where a turn of a loop stands. *)
LEMMA WorkingFacts ==
  ASSUME IInv, Working
  PROVE  /\ old = NoTable /\ target = NULL /\ data = NULL /\ pc = "idle" /\ job # NoJob
         /\ job.set1 \in Name /\ job.set2 \in Name /\ job.new_set \in Name
         /\ job.new_set # job.set1 /\ job.new_set # job.set2
         /\ iter.set = (IF job.loop = 1 THEN job.set1 ELSE job.set2)
         /\ iter.set \in Name /\ iter.set # job.new_set
         /\ Stored(iter.set) = StoredIn(sets[iter.set].table)
         /\ ClassesOf(Stored(job.new_set)) = Copied
         /\ \A v \in Value : Query(sets[job.new_set], v) <=> ClassOf[v] \in ClassesOf(Stored(job.new_set))
         /\ \A v \in Value : Query(sets[job.set2], v) <=> ClassOf[v] \in ClassesOf(Stored(job.set2))
         /\ job.op \in {"union", "intersection"} /\ job.loop \in {1, 2}
         /\ job.op = "intersection" => job.loop = 1
<1>1. old = NoTable /\ target = NULL /\ data = NULL /\ pc = "idle" /\ job # NoJob
  BY DEF Working, IInv, Control, Shape
<1>2. /\ job.set1 \in Name /\ job.set2 \in Name /\ job.new_set \in Name
      /\ job.op \in {"union", "intersection"} /\ job.loop \in {1, 2}
  BY <1>1, Facts
<1>3. /\ job.new_set # job.set1 /\ job.new_set # job.set2
      /\ iter.set = (IF job.loop = 1 THEN job.set1 ELSE job.set2)
      /\ Exists(job.new_set) /\ Exists(job.set2)
      /\ job.op = "intersection" => job.loop = 1
  BY <1>1 DEF IInv, Jobs
<1>4. iter.set \in Name /\ iter.set # job.new_set
  BY <1>2, <1>3
<1>5. \A s \in Name : /\ Sound(sets[s], NoTable)
                      /\ Stored(s) = Holding(sets[s], NoTable)
                      /\ Stored(s) = StoredIn(sets[s].table)
  BY <1>1, NoOld DEF IInv
<1>6. \A s \in Name : Exists(s) =>
        \A v \in Value : Query(sets[s], v) <=> ClassOf[v] \in ClassesOf(Stored(s))
  BY <1>5, QueryDecides DEF Exists
<1>7. ClassesOf(Stored(job.new_set)) = Copied
  BY <1>1 DEF IInv, Progress, Arriving
<1> QED BY <1>1, <1>2, <1>3, <1>4, <1>5, <1>6, <1>7

(* The next value is of a class that the iterator has not returned. *)
LEMMA NewClass ==
  ASSUME IInv, Working, HasMore, sets' = sets, iter' = Advanced(iter)
  PROVE  /\ iter.next_entry \in Value
         /\ ClassOf[iter.next_entry] \notin ClassesOf(iter.returned)
         /\ ClassesOf(iter'.returned) = ClassesOf(iter.returned) \cup {ClassOf[iter.next_entry]}
         /\ iter.next_entry \in Stored(iter.set)
<1>1. /\ iter'.returned = iter.returned \cup {iter.next_entry}
      /\ iter.next_entry \in Value
      /\ iter.next_entry \in StoredIn(sets[iter.set].table)
      /\ iter.returned \subseteq StoredIn(sets[iter.set].table)
      /\ iter.next_entry \notin iter.returned
      /\ iter.set \in Name
  BY AdvanceIter
<1>2. WellFormedTable(sets[iter.set].table, sets[iter.set].table_size)
  BY <1>1, Facts DEF IsSet
<1>3. ASSUME ClassOf[iter.next_entry] \in ClassesOf(iter.returned) PROVE FALSE
  <2>1. PICK w \in iter.returned : ClassOf[w] = ClassOf[iter.next_entry]
    BY <1>3 DEF ClassesOf
  <2>2. w \in StoredIn(sets[iter.set].table)
    BY <1>1, <2>1
  <2>3. w = iter.next_entry
    BY <1>1, <1>2, <2>1, <2>2, OneOfEachClass
  <2> QED BY <1>1, <2>1, <2>3
<1>4. ClassesOf(iter'.returned) = ClassesOf(iter.returned) \cup {ClassOf[iter.next_entry]}
  BY <1>1 DEF ClassesOf
<1> QED BY <1>1, <1>3, <1>4, WorkingFacts

(* A loop takes one value more from its iterator. *)
LEMMA LoopTurn ==
  ASSUME IInv, Working, HasMore, iter' = Advanced(iter), old' = old,
         UNCHANGED <<sets, job, live>>
  PROVE  /\ Tables' /\ Jobs' /\ Iteration' /\ Owning'
         /\ \A t \in Name : Stored(t)' = Stored(t)
         /\ iter' \in [set : Name \cup {NULL}, next_entry : Value \cup {NULL},
                       next_chain : Nat, returned : SUBSET Value]
         /\ iter'.set = iter.set
         /\ iter.next_entry \in Value
         /\ Copied' = IF job.op = "union" THEN Copied \cup {ClassOf[iter.next_entry]}
                      ELSE Copied \cup ({ClassOf[iter.next_entry]} \cap ClassesOf(Stored(job.set2)))
<1>1. /\ old = NoTable /\ job # NoJob
      /\ job.set1 \in Name /\ job.set2 \in Name /\ job.new_set \in Name
  BY WorkingFacts
<1>2. sets' = sets /\ job' = job /\ live' = live
  OBVIOUS
<1>3. Tables' /\ \A t \in Name : Stored(t)' = Stored(t)
  BY <1>1, <1>2, SameSets
<1>4. /\ Iteration'
      /\ iter' \in [set : Name \cup {NULL}, next_entry : Value \cup {NULL},
                    next_chain : Nat, returned : SUBSET Value]
      /\ iter'.set = iter.set
      /\ iter.next_entry \in Value
  BY <1>2, AdvanceIter
<1>5. Owning'
  BY <1>2, <1>3, OwnSame
<1>6. Jobs'
  BY <1>1, <1>2, <1>4 DEF IInv, Jobs, Exists
<1>7. ClassesOf(iter'.returned) = ClassesOf(iter.returned) \cup {ClassOf[iter.next_entry]}
  BY <1>2, NewClass
<1>8. Stored(job.set1)' = Stored(job.set1) /\ Stored(job.set2)' = Stored(job.set2)
  BY <1>1, <1>2, <1>3
<1>9. Copied' = IF job.op = "union"
                THEN ClassesOf(iter'.returned)
                     \cup (IF job.loop = 2 THEN ClassesOf(Stored(job.set1)) ELSE {})
                ELSE ClassesOf(iter'.returned) \cap ClassesOf(Stored(job.set2))
  BY <1>2, <1>8 DEF Copied
<1>10. Copied' = IF job.op = "union" THEN Copied \cup {ClassOf[iter.next_entry]}
                 ELSE Copied \cup ({ClassOf[iter.next_entry]} \cap ClassesOf(Stored(job.set2)))
  BY <1>7, <1>9 DEF Copied
<1> QED BY <1>3, <1>4, <1>5, <1>6, <1>10

LEMMA PassOverInv ==
  ASSUME IInv, PassOver
  PROVE  IInv' /\ \A t \in Name : Stored(t)' = Stored(t)
<1>1. /\ Working /\ HasMore /\ ~Wanted(iter.next_entry) /\ iter' = Advanced(iter)
      /\ UNCHANGED <<sets, job, insertion, live, outcome>>
  BY DEF PassOver
<1>2. /\ sets' = sets /\ job' = job /\ live' = live /\ pc' = pc /\ target' = target
      /\ data' = data /\ old' = old /\ result' = result /\ memory' = memory
  BY <1>1 DEF insertion, outcome
<1>3. /\ Tables' /\ Jobs' /\ Iteration' /\ Owning'
      /\ \A t \in Name : Stored(t)' = Stored(t)
      /\ iter' \in [set : Name \cup {NULL}, next_entry : Value \cup {NULL},
                    next_chain : Nat, returned : SUBSET Value]
      /\ iter'.set = iter.set
      /\ iter.next_entry \in Value
      /\ Copied' = IF job.op = "union" THEN Copied \cup {ClassOf[iter.next_entry]}
                   ELSE Copied \cup ({ClassOf[iter.next_entry]} \cap ClassesOf(Stored(job.set2)))
  BY <1>1, <1>2, LoopTurn
<1>4. /\ pc = "idle" /\ job # NoJob /\ job.new_set \in Name /\ old = NoTable
      /\ ClassesOf(Stored(job.new_set)) = Copied
      /\ \A v \in Value : Query(sets[job.new_set], v) <=> ClassOf[v] \in ClassesOf(Stored(job.new_set))
      /\ \A v \in Value : Query(sets[job.set2], v) <=> ClassOf[v] \in ClassesOf(Stored(job.set2))
      /\ job.op \in {"union", "intersection"} /\ job.loop \in {1, 2}
  BY <1>1, WorkingFacts
<1>5. Copied' = Copied
  <2>1. CASE job.op = "union"
    BY <1>1, <1>3, <1>4, <2>1 DEF Wanted
  <2>2. CASE job.op = "intersection"
    BY <1>1, <1>3, <1>4, <2>2 DEF Wanted
  <2> QED BY <2>1, <2>2, <1>4
<1>6. Shape'
  BY <1>2, <1>3 DEF IInv, Shape
<1>7. Control'
  BY <1>2, <1>4 DEF Control
<1>8. Progress'
  <2>1. Arriving' = {}
    BY <1>2, <1>4 DEF Arriving
  <2>2. Stored(job.new_set)' = Stored(job.new_set)
    BY <1>2, <1>3, <1>4
  <2> QED BY <1>4, <1>5, <2>1, <2>2 DEF Progress
<1> QED BY <1>3, <1>6, <1>7, <1>8 DEF IInv

LEMMA CopyInv ==
  ASSUME IInv, Copy
  PROVE  IInv' /\ \A t \in Name : Stored(t)' = Stored(t)
<1> DEFINE e == iter.next_entry
<1>1. /\ Working /\ HasMore /\ Wanted(e) /\ iter' = Advanced(iter)
      /\ SetInsert(job.new_set, e)
      /\ UNCHANGED <<sets, job, live, outcome>>
  BY DEF Copy
<1>2. /\ sets' = sets /\ job' = job /\ live' = live /\ target' = job.new_set
      /\ data' = e /\ old' = old /\ result' = result /\ memory' = memory
      /\ pc' = (IF TooFull(sets[job.new_set]) THEN "enlarge" ELSE "place")
  BY <1>1 DEF SetInsert, outcome
<1>3. /\ Tables' /\ Jobs' /\ Iteration' /\ Owning'
      /\ \A t \in Name : Stored(t)' = Stored(t)
      /\ iter' \in [set : Name \cup {NULL}, next_entry : Value \cup {NULL},
                    next_chain : Nat, returned : SUBSET Value]
      /\ iter'.set = iter.set
      /\ e \in Value
      /\ Copied' = IF job.op = "union" THEN Copied \cup {ClassOf[e]}
                   ELSE Copied \cup ({ClassOf[e]} \cap ClassesOf(Stored(job.set2)))
  BY <1>1, <1>2, LoopTurn
<1>4. /\ pc = "idle" /\ job # NoJob /\ job.new_set \in Name /\ old = NoTable
      /\ iter.set # job.new_set
      /\ ClassesOf(Stored(job.new_set)) = Copied
      /\ \A v \in Value : Query(sets[job.new_set], v) <=> ClassOf[v] \in ClassesOf(Stored(job.new_set))
      /\ \A v \in Value : Query(sets[job.set2], v) <=> ClassOf[v] \in ClassesOf(Stored(job.set2))
      /\ job.op \in {"union", "intersection"} /\ job.loop \in {1, 2}
      /\ job.op = "intersection" => job.loop = 1
  BY <1>1, WorkingFacts
<1>5. ClassOf[e] \notin ClassesOf(iter.returned)
  BY <1>1, <1>2, NewClass
<1>6. Copied' = Copied \cup {ClassOf[e]} /\ ClassOf[e] \notin Copied
  <2>1. CASE job.op = "union" /\ job.loop = 1
    <3>1. Copied = ClassesOf(iter.returned)
      BY <2>1 DEF Copied
    <3> QED BY <1>3, <1>5, <2>1, <3>1
  <2>2. CASE job.op = "union" /\ job.loop = 2
    BY <1>1, <1>3, <1>4, <2>2 DEF Wanted
  <2>3. CASE job.op = "intersection"
    <3>1. ClassOf[e] \in ClassesOf(Stored(job.set2))
      BY <1>1, <1>3, <1>4, <2>3 DEF Wanted
    <3>2. ClassOf[e] \notin Copied
      BY <1>5, <2>3 DEF Copied
    <3> QED BY <1>3, <2>3, <3>1, <3>2
  <2> QED BY <2>1, <2>2, <2>3, <1>4
<1>7. Exists(job.new_set)
  BY <1>4 DEF IInv, Jobs
<1>8. Shape'
  BY <1>2, <1>3, <1>4 DEF IInv, Shape
<1>9. Control'
  <2>1. TooFull(sets[job.new_set]) => sets[job.new_set].entries > 0
    BY <1>4, <1>7, TooFullHasEntries, Facts DEF Exists
  <2>2. Exists(job.new_set)'
    BY <1>2, <1>7 DEF Exists
  <2> QED BY <1>2, <1>3, <1>4, <2>1, <2>2 DEF Control, Exists
<1>10. Progress'
  <2>1. Arriving' = {ClassOf[e]}
    BY <1>2 DEF Arriving
  <2>2. Stored(job.new_set)' = Stored(job.new_set)
    BY <1>2, <1>3, <1>4
  <2> QED BY <1>4, <1>6, <2>1, <2>2 DEF Progress
<1> QED BY <1>3, <1>8, <1>9, <1>10 DEF IInv

(* A loop is over when its iterator has returned all. *)
LEMMA LoopOver ==
  ASSUME IInv, Working, ~HasMore
  PROVE  iter.returned = Stored(iter.set)
<1>1. iter.set \in Name /\ Stored(iter.set) = StoredIn(sets[iter.set].table)
  BY WorkingFacts
<1>2. At(sets[iter.set], iter)
  BY <1>1, SetAssumption DEF IInv, Iteration
<1> QED BY <1>1, <1>2 DEF At, HasMore

LEMMA SecondLoopInv ==
  ASSUME IInv, SecondLoop
  PROVE  IInv' /\ \A t \in Name : Stored(t)' = Stored(t) /\ job'.new_set = job.new_set
<1>1. /\ Working /\ job.op = "union" /\ job.loop = 1 /\ ~HasMore
      /\ iter' = IteratorOf(job.set2) /\ job' = [job EXCEPT !.loop = 2]
      /\ UNCHANGED <<sets, insertion, live, outcome>>
  BY DEF SecondLoop
<1>2. /\ sets' = sets /\ live' = live /\ pc' = pc /\ target' = target
      /\ data' = data /\ old' = old /\ result' = result /\ memory' = memory
  BY <1>1 DEF insertion, outcome
<1>3. /\ pc = "idle" /\ job # NoJob /\ old = NoTable
      /\ job.set1 \in Name /\ job.set2 \in Name /\ job.new_set \in Name
      /\ iter.set = job.set1
      /\ ClassesOf(Stored(job.new_set)) = Copied
  BY <1>1, WorkingFacts
<1>4. /\ job' \in [op : {"union", "intersection"}, loop : {1, 2}, set1 : Name,
                   set2 : Name, new_set : Name]
      /\ job'.op = "union" /\ job'.loop = 2 /\ job'.set1 = job.set1
      /\ job'.set2 = job.set2 /\ job'.new_set = job.new_set
  <2>1. job = [op |-> job.op, loop |-> job.loop, set1 |-> job.set1, set2 |-> job.set2,
               new_set |-> job.new_set]
    BY <1>3 DEF IInv, Shape
  <2>2. job' = [op |-> job.op, loop |-> 2, set1 |-> job.set1, set2 |-> job.set2,
                new_set |-> job.new_set]
    BY <1>1, <2>1
  <2> QED BY <1>1, <1>3, <2>2
<1>5. Tables' /\ \A t \in Name : Stored(t)' = Stored(t)
  BY <1>2, <1>3, SameSets
<1>6. /\ At(sets[job.set2], iter')
      /\ iter' = [set |-> job.set2, next_entry |-> iter'.next_entry,
                  next_chain |-> iter'.next_chain, returned |-> {}]
      /\ iter'.set = job.set2
      /\ iter'.returned = {}
      /\ iter'.next_entry \in Value \cup {NULL}
      /\ iter'.next_chain \in Nat
  <2>1. IsSet(sets[job.set2])
    BY <1>3, Facts
  <2> QED BY <1>1, <2>1, IteratorAt
<1>7. Exists(job.set1) /\ Exists(job.set2) /\ Exists(job.new_set)
      /\ job.new_set # job.set1 /\ job.new_set # job.set2
      /\ ~sets[job.new_set].free_func
  BY <1>3 DEF IInv, Jobs
<1>8. Iteration'
  BY <1>2, <1>3, <1>6, <1>7, SetAssumption DEF Iteration, Exists
<1>9. Jobs'
  BY <1>2, <1>4, <1>6, <1>7 DEF Jobs, Exists
<1>10. Owning'
  BY <1>2, <1>5, OwnSame
<1>11. Shape'
  <2>1. iter' \in [set : Name \cup {NULL}, next_entry : Value \cup {NULL},
                   next_chain : Nat, returned : SUBSET Value]
    BY <1>3, <1>6
  <2> QED BY <1>2, <1>4, <2>1 DEF IInv, Shape
<1>12. Control'
  BY <1>2, <1>3 DEF Control
<1>13. Progress'
  <2>1. Arriving' = {}
    BY <1>2, <1>3 DEF Arriving
  <2>2. Stored(job.set1)' = Stored(job.set1) /\ Stored(job.new_set)' = Stored(job.new_set)
    <3>1. \A t \in Name : t = job'.set1 => Stored(job.set1)' = Stored(t)'
      BY DEF Stored
    <3>2. \A t \in Name : t = job'.new_set => Stored(job.new_set)' = Stored(t)'
      BY DEF Stored
    <3> QED BY <1>3, <1>4, <1>5, <3>1, <3>2
  <2>3. ClassesOf(iter'.returned) = {}
    BY <1>6 DEF ClassesOf
  <2>4. Copied' = ClassesOf(Stored(job.set1))
    BY <1>4, <2>2, <2>3 DEF Copied
  <2>5. Copied = ClassesOf(iter.returned)
    BY <1>1 DEF Copied
  <2>6. iter.returned = Stored(job.set1)
    BY <1>1, <1>3, LoopOver
  <2> QED BY <1>3, <2>1, <2>2, <2>4, <2>5, <2>6 DEF Progress
<1> QED BY <1>4, <1>5, <1>8, <1>9, <1>10, <1>11, <1>12, <1>13 DEF IInv

LEMMA ReturnInv ==
  ASSUME IInv, Return
  PROVE  /\ IInv'
         /\ \A t \in Name : Stored(t)' = Stored(t)
         /\ job.set1 \in Name /\ job.set2 \in Name /\ job.new_set \in Name
         /\ job.set1 # job.new_set /\ job.set2 # job.new_set
         /\ Exists(job.set1) /\ Exists(job.set2) /\ Exists(job.new_set)
         /\ job.op \in {"union", "intersection"}
         /\ job.op = "union" =>
              ClassesOf(Stored(job.new_set)) =
                ClassesOf(Stored(job.set1)) \cup ClassesOf(Stored(job.set2))
         /\ job.op = "intersection" =>
              ClassesOf(Stored(job.new_set)) =
                ClassesOf(Stored(job.set1)) \cap ClassesOf(Stored(job.set2))
<1>1. /\ Working /\ (job.op = "intersection" \/ job.loop = 2) /\ ~HasMore
      /\ iter' = NoIterator /\ job' = NoJob /\ result' = 1 /\ memory' = TRUE
      /\ UNCHANGED <<sets, insertion, live>>
  BY DEF Return, Answers
<1>2. /\ sets' = sets /\ live' = live /\ pc' = pc /\ target' = target
      /\ data' = data /\ old' = old
  BY <1>1 DEF insertion
<1>3. /\ pc = "idle" /\ job # NoJob /\ old = NoTable
      /\ job.set1 \in Name /\ job.set2 \in Name /\ job.new_set \in Name
      /\ iter.set = (IF job.loop = 1 THEN job.set1 ELSE job.set2)
      /\ job.op \in {"union", "intersection"} /\ job.loop \in {1, 2}
      /\ job.op = "intersection" => job.loop = 1
      /\ ClassesOf(Stored(job.new_set)) = Copied
  BY <1>1, WorkingFacts
<1>4. Exists(job.set1) /\ Exists(job.set2) /\ Exists(job.new_set)
      /\ job.new_set # job.set1 /\ job.new_set # job.set2
  BY <1>3 DEF IInv, Jobs
<1>5. Tables' /\ \A t \in Name : Stored(t)' = Stored(t)
  BY <1>2, <1>3, SameSets
<1>6. /\ Iteration'
      /\ iter' \in [set : Name \cup {NULL}, next_entry : Value \cup {NULL},
                    next_chain : Nat, returned : SUBSET Value]
  BY <1>1, IterNone
<1>7. Shape'
  BY <1>1, <1>2, <1>6 DEF IInv, Shape
<1>8. Control' /\ Jobs' /\ Progress'
  BY <1>1, <1>2, <1>3 DEF Control, Jobs, Progress
<1>9. Owning'
  BY <1>2, <1>5, OwnSame
<1>10. iter.returned = Stored(iter.set)
  BY <1>1, LoopOver
<1>11. CASE job.op = "union"
  <2>1. job.loop = 2 /\ iter.set = job.set2
    BY <1>1, <1>3, <1>11
  <2>2. Copied = ClassesOf(iter.returned) \cup ClassesOf(Stored(job.set1))
    BY <1>11, <2>1 DEF Copied
  <2> QED BY <1>3, <1>4, <1>5, <1>6, <1>7, <1>8, <1>9, <1>10, <1>11, <2>1, <2>2 DEF IInv
<1>12. CASE job.op = "intersection"
  <2>1. iter.set = job.set1
    BY <1>3, <1>12
  <2>2. Copied = ClassesOf(iter.returned) \cap ClassesOf(Stored(job.set2))
    BY <1>12 DEF Copied
  <2> QED BY <1>3, <1>4, <1>5, <1>6, <1>7, <1>8, <1>9, <1>10, <1>12, <2>1, <2>2 DEF IInv
<1> QED BY <1>3, <1>11, <1>12

LEMMA InsertStepsInv == ASSUME IInv, InsertSteps PROVE IInv'
<1>1. CASE Enlarge
  BY <1>1, EnlargeInv
<1>2. CASE EnlargeFails
  BY <1>2, FailsInv DEF EnlargeFails
<1>3. CASE MoveEntry
  BY <1>3, MoveEntryInv
<1>4. CASE EndRehash
  BY <1>4, EndRehashInv
<1>5. CASE AlreadyThere
  BY <1>5, FailsInv DEF AlreadyThere
<1>6. CASE AddEntryFails
  BY <1>6, FailsInv DEF AddEntryFails
<1>7. CASE AddEntry
  BY <1>7, AddEntryInv
<1> QED BY <1>1, <1>2, <1>3, <1>4, <1>5, <1>6, <1>7 DEF InsertSteps

LEMMA NextInv == IInv /\ [Next]_vars => IInv'
<1> SUFFICES ASSUME IInv, [Next]_vars
             PROVE  IInv'
  OBVIOUS
<1>1. ASSUME NEW s \in Name, New(s) PROVE IInv'
  BY <1>1, NewInv
<1>2. ASSUME NEW s \in Name, RegisterFreeFunction(s) PROVE IInv'
  BY <1>2, RegisterInv
<1>3. ASSUME NEW s \in Name, Free(s) PROVE IInv'
  BY <1>3, FreeInv
<1>4. ASSUME NEW s \in Name, Iterate(s) PROVE IInv'
  BY <1>4, IterateInv
<1>5. ASSUME NEW s \in Name, NEW v \in Value, Insert(s, v) PROVE IInv'
  BY <1>5, InsertInv
<1>6. ASSUME NEW s \in Name, NEW v \in Value, RemoveValue(s, v) PROVE IInv'
  BY <1>6, RemoveInv
<1>7. ASSUME NEW s \in Name, NEW v \in Value, RemoveNothing(s, v) PROVE IInv'
  BY <1>7, IdleAnswerInv DEF RemoveNothing, Answers
<1>8. CASE IterNext
  BY <1>8, IterNextInv
<1>9. ASSUME NEW s1 \in Name, NEW s2 \in Name, NEW s \in Name,
             Begin("union", s1, s2, s) \/ Begin("intersection", s1, s2, s)
      PROVE  IInv'
  <2>1. PICK op \in {"union", "intersection"} : Begin(op, s1, s2, s)
    BY <1>9
  <2> QED BY <2>1, BeginInv
<1>10. CASE NewFails
  BY <1>10, IdleAnswerInv DEF NewFails, Answers
<1>11. CASE InsertSteps
  BY <1>11, InsertStepsInv
<1>12. CASE JobSteps
  <2>1. CASE PassOver
    BY <2>1, PassOverInv
  <2>2. CASE Copy
    BY <2>2, CopyInv
  <2>3. CASE SecondLoop
    BY <2>3, SecondLoopInv
  <2>4. CASE Return
    BY <2>4, ReturnInv
  <2> QED BY <1>12, <2>1, <2>2, <2>3, <2>4 DEF JobSteps
<1>13. CASE UNCHANGED vars
  <2>1. /\ sets' = sets /\ iter' = iter /\ job' = job /\ pc' = pc /\ target' = target
        /\ data' = data /\ old' = old /\ live' = live /\ result' = result /\ memory' = memory
    BY <1>13 DEF vars, insertion, outcome
  <2>2. \A s : Stored(s)' = Stored(s) /\ OldOf(s)' = OldOf(s)
    BY <2>1 DEF Stored, OldOf
  <2>3. Copied' = Copied /\ Arriving' = Arriving /\ Stored(job.new_set)' = Stored(job.new_set)
    BY <2>1 DEF Copied, Arriving, Stored
  <2>4. Shape' /\ Tables' /\ Control' /\ Owning'
    BY <2>1, <2>2 DEF IInv, Shape, Tables, Control, Exists, Owning
  <2>5. Jobs' /\ Iteration' /\ Progress'
    BY <2>1, <2>3 DEF IInv, Jobs, Exists, Iteration, Progress
  <2> QED BY <2>4, <2>5 DEF IInv
<1>14. Next \/ UNCHANGED vars
  OBVIOUS
<1> HIDE DEF vars
<1> QED BY <1>1, <1>2, <1>3, <1>4, <1>5, <1>6, <1>7, <1>8, <1>9, <1>10, <1>11, <1>12,
           <1>13, <1>14 DEF Next

LEMMA SpecInv == Spec => []IInv
BY InitInv, NextInv, PTL DEF Spec

-----------------------------------------------------------------------------
(* What the invariant says. *)

LEMMA InvTypeOK == IInv => TypeOK
<1> SUFFICES ASSUME IInv PROVE TypeOK
  OBVIOUS
<1>1. Shape
  BY DEF IInv
<1>2. ASSUME NEW s \in Name
      PROVE  /\ sets[s] \in [table : {sets[s].table}, table_size : Nat, entries : Nat,
                             prime_index : Nat, free_func : BOOLEAN]
             /\ sets[s].table \in [0 .. sets[s].table_size - 1 -> Seq(Value)]
  <2> DEFINE S == sets[s]
  <2>1. /\ S = [table |-> S.table, table_size |-> S.table_size, entries |-> S.entries,
                prime_index |-> S.prime_index, free_func |-> S.free_func]
        /\ S.entries \in Nat /\ S.prime_index \in Nat /\ S.free_func \in BOOLEAN
        /\ S.table_size \in Nat /\ S.table \in [0 .. S.table_size - 1 -> Seq(Value)]
    BY Facts DEF IsSet, WellFormedTable, Table
  <2> HIDE DEF S
  <2>2. S \in [table : {S.table}, table_size : Nat, entries : Nat, prime_index : Nat,
               free_func : BOOLEAN]
    BY <2>1
  <2> QED BY <2>1, <2>2 DEF S
<1>3. IsOld(old)
  <2>1. CASE pc = "idle"
    BY <2>1, NoTableHolds DEF IInv, Control
  <2>2. CASE pc # "idle"
    BY <2>2, Facts DEF Sound
  <2> QED BY <2>1, <2>2
<1>4. /\ old \in [table : {old.table}, table_size : Nat]
      /\ old.table \in [0 .. old.table_size - 1 -> Seq(Value)]
  BY <1>3 DEF IsOld, WellFormedTable, Table
<1> QED BY <1>1, <1>2, <1>4 DEF TypeOK, Shape

LEMMA InvWellLinked == IInv => WellLinked
<1> SUFFICES ASSUME IInv, NEW s \in Name
             PROVE  /\ PlacedIn(sets[s].table, sets[s].table_size)
                    /\ DistinctIn(sets[s].table)
                    /\ sets[s].entries = Cardinality(Classes(s))
  BY DEF WellLinked
<1>1. Sound(sets[s], OldOf(s))
  BY DEF IInv, Tables
<1>2. Classes(s) = ClassesOf(Holding(sets[s], OldOf(s)))
  BY StoredIs DEF Classes, ClassesOf
<1> QED BY <1>1, <1>2 DEF Sound, IsSet, WellFormedTable

LEMMA InvOwnership == IInv => Ownership
<1> SUFFICES ASSUME IInv PROVE Ownership
  OBVIOUS
<1>1. CASE \A s \in Name : ~sets[s].free_func
  <2>1. Owners = {} /\ live = {}
    BY <1>1 DEF IInv, Owning, Owners
  <2> QED BY <2>1 DEF Ownership
<1>2. ASSUME NEW s \in Name, sets[s].free_func PROVE Ownership
  <2>1. Owners = {s} /\ live = Stored(s)
    BY <1>2 DEF IInv, Owning, Owners
  <2> QED BY <2>1 DEF Ownership
<1> QED BY <1>1, <1>2

LEMMA InvIterationExact == IInv => IterationExact
<1> SUFFICES ASSUME IInv, iter.set # NULL
             PROVE  IF HasMore
                    THEN /\ iter.next_chain \in DOMAIN sets[iter.set].table
                         /\ iter.next_entry \in ToSet(sets[iter.set].table[iter.next_chain])
                         /\ iter.next_entry \notin iter.returned
                    ELSE Stored(iter.set) \subseteq iter.returned
  BY DEF IterationExact
<1>1. At(sets[iter.set], iter) /\ iter.set \in Name
  BY DEF IInv, Iteration, Shape
<1>2. IsSet(sets[iter.set])
  BY <1>1, Facts
<1>3. Stored(iter.set) = StoredIn(sets[iter.set].table)
  <2>1. OldOf(iter.set) = NoTable
    BY DEF OldOf, IInv, Control
  <2> QED BY <2>1, StoredIs, HoldingAlone
<1>4. CASE HasMore
  BY <1>1, <1>2, <1>4, NextValue DEF HasMore
<1>5. CASE ~HasMore
  BY <1>1, <1>3, <1>5 DEF At, HasMore
<1> QED BY <1>4, <1>5

(* Whatever the hash function, the list of primes and the order of calls,  *)
(* every value of a set, also of one that is being enlarged, hangs in the  *)
(* chain its hash selects, no two equal ones are in the set, and its count *)
(* is right.                                                               *)
THEOREM SetsCorrect == Spec => []WellFormed
<1>1. IInv => WellFormed
  BY InvTypeOK, InvWellLinked DEF WellFormed
<1> QED BY <1>1, SpecInv, PTL

(* The values that an owning set frees are those in it, and no step of a   *)
(* union or an intersection frees or leaks one.                            *)
THEOREM SetsOwn == Spec => []Ownership
BY SpecInv, InvOwnership, PTL

(* An iteration, with removals on the way, meets each value once.          *)
THEOREM SetsIterate == Spec => []IterationExact
BY SpecInv, InvIterationExact, PTL

-----------------------------------------------------------------------------
(* The refinement.  A set under construction is not there yet, so the turns *)
(* of a union change nothing until the last.                                *)

LEMMA ClassesAreSets ==
  ASSUME IInv, NEW s \in Name
  PROVE  /\ Members(s) = IF Exists(s) /\ s # job.new_set THEN ClassesOf(Stored(s)) ELSE NULL
         /\ ClassesOf(Stored(s)) # NULL
<1>1. ClassesOf(Stored(s)) \in SUBSET {ClassOf[v] : v \in Value}
  BY Facts DEF ClassesOf
<1> QED BY <1>1, SetAssumption DEF Members, Classes, ClassesOf

LEMMA MembersAfter ==
  ASSUME NEW s
  PROVE  Members(s)' = IF sets'[s].table_size # 0 /\ s # job'.new_set
                       THEN ClassesOf(Stored(s)') ELSE NULL
BY DEF Members, Classes, ClassesOf, Exists

LEMMA SameContents ==
  ASSUME \A t \in Name : Members(t)' = Members(t)
  PROVE  Contents' = Contents
BY DEF Contents

LEMMA OneContents ==
  ASSUME NEW x \in Name, NEW M, \A t \in Name : Members(t)' = IF t = x THEN M ELSE Members(t)
  PROVE  Contents' = [Contents EXCEPT ![x] = M]
BY DEF Contents

LEMMA ContentsOf == \A s \in Name : Contents[s] = Members(s)
BY DEF Contents

LEMMA InitSim == Init => Sets!Init
<1> SUFFICES ASSUME Init PROVE Sets!Init
  OBVIOUS
<1>1. \A s \in Name : Members(s) = NULL
  BY NoSetSound DEF Init, Members, Exists
<1>2. Contents = [s \in Name |-> NULL]
  BY <1>1 DEF Contents
<1> QED BY <1>2 DEF Init, Sets!Init

(* A step after which every set has the values it had, is there if it was, *)
(* and is under construction if it was.                                    *)
LEMMA NothingSeen ==
  ASSUME IInv, \A t \in Name : Stored(t)' = Stored(t), job'.new_set = job.new_set,
         \A t \in Name : sets'[t].table_size # 0 <=> sets[t].table_size # 0
  PROVE  Contents' = Contents
<1>1. \A t \in Name : Members(t)' = Members(t)
  BY ClassesAreSets, MembersAfter DEF Exists
<1> QED BY <1>1, SameContents

LEMMA QuietSim ==
  ASSUME Contents' = Contents, result' = 1, memory' = TRUE
  PROVE  Sets!Next
BY DEF Sets!Next, Sets!NoAnswer

LEMMA NewSim == ASSUME IInv, NEW s \in Name, New(s) PROVE Sets!Next
<1>1. /\ job = NoJob /\ job' = job /\ sets[s].table_size = 0 /\ ~Exists(s)
      /\ result' = 1 /\ memory' = TRUE
  BY DEF New, Idle, Exists, Answers
<1>2. /\ \A t \in Name : Stored(t)' = IF t = s THEN {} ELSE Stored(t)
      /\ \A t \in Name : sets'[t] = IF t = s THEN NewSet ELSE sets[t]
      /\ NewSet.table_size # 0
  BY NewInv, NewSetSound
<1>3. NoJob.new_set = NULL /\ NULL \notin Name /\ ClassesOf({}) = {}
  BY Facts DEF ClassesOf
<1>4. \A t \in Name : Members(t)' = IF t = s THEN {} ELSE Members(t)
  BY <1>1, <1>2, <1>3, ClassesAreSets, MembersAfter DEF Exists
<1>5. Contents' = [Contents EXCEPT ![s] = {}]
  BY <1>4, OneContents
<1>6. Contents[s] = NULL
  BY <1>1, ContentsOf, ClassesAreSets
<1>7. Sets!New(s)
  BY <1>1, <1>5, <1>6 DEF Sets!New, Sets!Present, Sets!Becomes
<1> QED BY <1>7 DEF Sets!Next

LEMMA FreeSim == ASSUME IInv, NEW s \in Name, Free(s) PROVE Sets!Next
<1>1. /\ job = NoJob /\ job' = job /\ Exists(s) /\ result' = 1 /\ memory' = TRUE
  BY DEF Free, Idle, NoAnswer, Answers
<1>2. /\ \A t \in Name : Stored(t)' = IF t = s THEN {} ELSE Stored(t)
      /\ \A t \in Name : sets'[t] = IF t = s THEN NoSet ELSE sets[t]
      /\ NoSet.table_size = 0
  BY FreeInv, NoSetSound
<1>3. NoJob.new_set = NULL /\ NULL \notin Name
  BY Facts
<1>4. \A t \in Name : Members(t)' = IF t = s THEN NULL ELSE Members(t)
  BY <1>1, <1>2, <1>3, ClassesAreSets, MembersAfter DEF Exists
<1>5. Contents' = [Contents EXCEPT ![s] = NULL]
  BY <1>4, OneContents
<1>6. Contents[s] # NULL
  BY <1>1, <1>3, ContentsOf, ClassesAreSets
<1>7. Sets!Free(s)
  BY <1>1, <1>5, <1>6 DEF Sets!Free, Sets!Present, Sets!NoAnswer
<1> QED BY <1>7 DEF Sets!Next

LEMMA RemoveSim ==
  ASSUME IInv, NEW s \in Name, NEW v \in Value, RemoveValue(s, v)
  PROVE  Sets!Next
<1>1. /\ job = NoJob /\ job' = job /\ Exists(s) /\ result' = 1 /\ memory' = TRUE
  BY DEF RemoveValue, RemoveAtPlace, Idle, Answers
<1>2. /\ ClassOf[v] \in ClassesOf(Stored(s))
      /\ \A t \in Name : ClassesOf(Stored(t)') =
           IF t = s THEN ClassesOf(Stored(s)) \ {ClassOf[v]} ELSE ClassesOf(Stored(t))
      /\ \A t \in Name : sets'[t].table_size = sets[t].table_size
  BY RemoveInv
<1>3. NoJob.new_set = NULL /\ NULL \notin Name
  BY Facts
<1>4. Contents[s] # NULL /\ Contents[s] = ClassesOf(Stored(s))
  BY <1>1, <1>3, ContentsOf, ClassesAreSets
<1>5. \A t \in Name : Members(t)' = IF t = s THEN Contents[s] \ {ClassOf[v]} ELSE Members(t)
  BY <1>1, <1>2, <1>3, <1>4, ClassesAreSets, MembersAfter DEF Exists
<1>6. Contents' = [Contents EXCEPT ![s] = Contents[s] \ {ClassOf[v]}]
  BY <1>5, OneContents
<1>7. Sets!Remove(s, ClassOf[v])
  BY <1>1, <1>2, <1>4, <1>6 DEF Sets!Remove, Sets!Present, Sets!Becomes
<1> QED BY <1>7 DEF Sets!Next

LEMMA RemoveNothingSim ==
  ASSUME IInv, NEW s \in Name, NEW v \in Value, RemoveNothing(s, v)
  PROVE  Sets!Next
<1>1. /\ job = NoJob /\ job' = job /\ Exists(s) /\ result' = 0 /\ memory' = TRUE
      /\ sets' = sets /\ ~Query(sets[s], v) /\ pc = "idle"
      /\ UNCHANGED <<sets, iter, job, insertion, live>> /\ Idle
  BY DEF RemoveNothing, Idle, Answers
<1>2. \A t \in Name : Stored(t)' = Stored(t)
  BY <1>1, IdleAnswerInv
<1>3. Contents' = Contents
  BY <1>1, <1>2, NothingSeen
<1>4. NoJob.new_set = NULL /\ NULL \notin Name
  BY Facts
<1>5. Contents[s] # NULL /\ Contents[s] = ClassesOf(Stored(s))
  BY <1>1, <1>4, ContentsOf, ClassesAreSets
<1>6. ClassOf[v] \notin ClassesOf(Stored(s))
  <2>1. Sound(sets[s], NoTable) /\ Stored(s) = Holding(sets[s], NoTable) /\ sets[s].table_size # 0
    BY <1>1, NoOld DEF IInv, Control, Exists
  <2> QED BY <1>1, <2>1, QueryDecides
<1>7. Sets!Remove(s, ClassOf[v])
  BY <1>1, <1>3, <1>5, <1>6 DEF Sets!Remove, Sets!Present, Sets!NoChange
<1> QED BY <1>7 DEF Sets!Next

LEMMA BeginSim ==
  ASSUME IInv, NEW op \in {"union", "intersection"},
         NEW s1 \in Name, NEW s2 \in Name, NEW s \in Name, Begin(op, s1, s2, s)
  PROVE  Sets!Next
<1>1. /\ job = NoJob /\ ~Exists(s) /\ job'.new_set = s /\ result' = 1 /\ memory' = TRUE
  BY DEF Begin, Idle, NoAnswer, Answers
<1>2. /\ \A t \in Name : Stored(t)' = Stored(t)
      /\ \A t \in Name : t # s => sets'[t] = sets[t]
  BY BeginInv
<1>3. NoJob.new_set = NULL /\ NULL \notin Name
  BY Facts
<1>4. \A t \in Name : Members(t)' = Members(t)
  BY <1>1, <1>2, <1>3, ClassesAreSets, MembersAfter DEF Exists
<1> QED BY <1>1, <1>4, SameContents, QuietSim

(* An insertion that fails, the caller's or that of a union: nothing, or   *)
(* everything that had been built, is gone.                                *)
LEMMA FailsSeen ==
  ASSUME IInv, pc \in {"enlarge", "place"}, NEW granted \in BOOLEAN, Fails(granted)
  PROVE  /\ Contents' = Contents
         /\ result' \in {0, NULL}
         /\ job = NoJob => result' = 0
         /\ memory' = granted
<1>1. job' = NoJob /\ result' \in {0, NULL} /\ (job = NoJob => result' = 0) /\ memory' = granted
  BY DEF Fails, Answers
<1>2. /\ job = NoJob => \A t \in Name : sets'[t] = sets[t] /\ Stored(t)' = Stored(t)
      /\ \A t \in Name : t # job.new_set => sets'[t] = sets[t] /\ Stored(t)' = Stored(t)
      /\ job # NoJob => job.new_set \in Name /\ sets'[job.new_set].table_size = 0
  BY FailsInv
<1>3. NoJob.new_set = NULL /\ NULL \notin Name
  BY Facts
<1>4. \A t \in Name : Members(t)' = Members(t)
  BY <1>1, <1>2, <1>3, ClassesAreSets, MembersAfter DEF Exists
<1> QED BY <1>1, <1>4, SameContents

LEMMA OutOfMemorySim ==
  ASSUME Contents' = Contents, result' \in {0, NULL}, memory' = FALSE
  PROVE  Sets!Next
BY DEF Sets!Next, Sets!OutOfMemory

LEMMA AlreadyThereSim == ASSUME IInv, AlreadyThere PROVE Sets!Next
<1>1. pc = "place" /\ Query(sets[target], data) /\ Fails(TRUE)
  BY DEF AlreadyThere
<1>2. /\ old = NoTable /\ target \in Name /\ data \in Value /\ Exists(target)
      /\ sets[target].table_size # 0
  BY <1>1 DEF IInv, Control, Shape, Exists
<1>3. ClassOf[data] \in ClassesOf(Stored(target))
  <2>1. Sound(sets[target], NoTable) /\ Stored(target) = Holding(sets[target], NoTable)
    BY <1>2, NoOld DEF IInv
  <2> QED BY <1>1, <1>2, <2>1, QueryDecides
<1>4. job = NoJob
  <2> SUFFICES ASSUME job # NoJob PROVE FALSE
    OBVIOUS
  <2>1. target = job.new_set
    BY <1>1 DEF IInv, Control
  <2>2. ClassOf[data] \notin ClassesOf(Stored(target))
    BY <1>1, <2>1 DEF IInv, Progress, Arriving
  <2> QED BY <1>3, <2>2
<1>5. Contents' = Contents /\ result' = 0 /\ memory' = TRUE
  BY <1>1, <1>4, FailsSeen
<1>6. NoJob.new_set = NULL /\ NULL \notin Name
  BY Facts
<1>7. Contents[target] # NULL /\ Contents[target] = ClassesOf(Stored(target))
  BY <1>2, <1>4, <1>6, ContentsOf, ClassesAreSets
<1>8. Sets!Insert(target, ClassOf[data])
  BY <1>3, <1>5, <1>7 DEF Sets!Insert, Sets!Present, Sets!NoChange
<1> QED BY <1>2, <1>8 DEF Sets!Next

LEMMA AddEntrySim == ASSUME IInv, AddEntry PROVE Sets!Next
<1>1. /\ target \in Name /\ Exists(target) /\ data \in Value
      /\ ClassOf[data] \notin ClassesOf(Stored(target))
      /\ \A t \in Name : Stored(t)' = IF t = target THEN Stored(t) \cup {data} ELSE Stored(t)
      /\ \A t \in Name : sets'[t].table_size # 0 <=> sets[t].table_size # 0
  BY AddEntryInv
<1>2. job' = job /\ result' = 1 /\ memory' = TRUE /\ pc = "place"
  BY DEF AddEntry, Answers
<1>3. NoJob.new_set = NULL /\ NULL \notin Name
  BY Facts
<1>4. CASE job = NoJob
  <2>1. Contents[target] # NULL /\ Contents[target] = ClassesOf(Stored(target))
    BY <1>1, <1>3, <1>4, ContentsOf, ClassesAreSets
  <2>2. ClassesOf(Stored(target) \cup {data}) = ClassesOf(Stored(target)) \cup {ClassOf[data]}
    BY DEF ClassesOf
  <2>3. \A t \in Name : Members(t)' =
          IF t = target THEN Contents[target] \cup {ClassOf[data]} ELSE Members(t)
    BY <1>1, <1>2, <1>3, <1>4, <2>1, <2>2, ClassesAreSets, MembersAfter DEF Exists
  <2>4. Contents' = [Contents EXCEPT ![target] = Contents[target] \cup {ClassOf[data]}]
    BY <1>1, <2>3, OneContents
  <2>5. Sets!Insert(target, ClassOf[data])
    BY <1>1, <1>2, <2>1, <2>4 DEF Sets!Insert, Sets!Present, Sets!Becomes
  <2> QED BY <1>1, <2>5 DEF Sets!Next
<1>5. CASE job # NoJob
  <2>1. target = job.new_set
    BY <1>2, <1>5 DEF IInv, Control
  <2>2. \A t \in Name : Members(t)' = Members(t)
    BY <1>1, <1>2, <2>1, ClassesAreSets, MembersAfter DEF Exists
  <2> QED BY <1>2, <2>2, SameContents, QuietSim
<1> QED BY <1>4, <1>5

LEMMA ReturnSim == ASSUME IInv, Return PROVE Sets!Next
<1> DEFINE s1 == job.set1
           s2 == job.set2
           s == job.new_set
<1>1. /\ job' = NoJob /\ result' = 1 /\ memory' = TRUE /\ sets' = sets
  BY DEF Return, Answers
<1>2. /\ \A t \in Name : Stored(t)' = Stored(t)
      /\ s1 \in Name /\ s2 \in Name /\ s \in Name
      /\ s1 # s /\ s2 # s
      /\ Exists(s1) /\ Exists(s2) /\ Exists(s)
      /\ job.op \in {"union", "intersection"}
      /\ job.op = "union" =>
           ClassesOf(Stored(s)) = ClassesOf(Stored(s1)) \cup ClassesOf(Stored(s2))
      /\ job.op = "intersection" =>
           ClassesOf(Stored(s)) = ClassesOf(Stored(s1)) \cap ClassesOf(Stored(s2))
  BY ReturnInv
<1>3. NoJob.new_set = NULL /\ NULL \notin Name
  BY Facts
<1>4. /\ Contents[s1] = ClassesOf(Stored(s1)) /\ Contents[s1] # NULL
      /\ Contents[s2] = ClassesOf(Stored(s2)) /\ Contents[s2] # NULL
      /\ Contents[s] = NULL
  BY <1>2, ContentsOf, ClassesAreSets
<1>5. \A t \in Name : Members(t)' = IF t = s THEN ClassesOf(Stored(s)) ELSE Members(t)
  <2> HIDE DEF s, s1, s2
  <2>1. \A t \in Name : Members(t) = IF Exists(t) /\ t # s THEN ClassesOf(Stored(t)) ELSE NULL
    BY ClassesAreSets DEF s
  <2>2. \A t \in Name : Members(t)' = IF sets[t].table_size # 0 /\ t # NULL THEN ClassesOf(Stored(t)) ELSE NULL
    BY <1>1, <1>2, <1>3, MembersAfter
  <2> QED BY <1>2, <1>3, <2>1, <2>2 DEF Exists
<1>6. Contents' = [Contents EXCEPT ![s] = ClassesOf(Stored(s))]
  BY <1>2, <1>5, OneContents
<1> HIDE DEF s, s1, s2
<1>7. CASE job.op = "union"
  <2>1. Sets!Union(s1, s2, s)
    BY <1>1, <1>2, <1>4, <1>6, <1>7 DEF Sets!Union, Sets!Present, Sets!Becomes
  <2> QED BY <1>2, <2>1 DEF Sets!Next
<1>8. CASE job.op = "intersection"
  <2>1. Sets!Intersection(s1, s2, s)
    BY <1>1, <1>2, <1>4, <1>6, <1>8 DEF Sets!Intersection, Sets!Present, Sets!Becomes
  <2> QED BY <1>2, <2>1 DEF Sets!Next
<1> QED BY <1>2, <1>7, <1>8

LEMMA NextSim == IInv /\ [Next]_vars => [Sets!Next]_Sets!vars
<1> SUFFICES ASSUME IInv, [Next]_vars
             PROVE  Sets!Next \/ (Contents' = Contents /\ result' = result /\ memory' = memory)
  BY DEF Sets!vars
<1>1. ASSUME NEW s \in Name, New(s) PROVE Sets!Next
  BY <1>1, NewSim
<1>2. ASSUME NEW s \in Name, RegisterFreeFunction(s) PROVE Sets!Next
  <2>1. job' = job /\ result' = 1 /\ memory' = TRUE
    BY <1>2 DEF RegisterFreeFunction, NoAnswer, Answers
  <2>2. /\ \A t \in Name : Stored(t)' = Stored(t)
        /\ \A t \in Name : sets'[t].table_size = sets[t].table_size
    BY <1>2, RegisterInv
  <2> QED BY <2>1, <2>2, NothingSeen, QuietSim
<1>3. ASSUME NEW s \in Name, Free(s) PROVE Sets!Next
  BY <1>3, FreeSim
<1>4. ASSUME NEW s \in Name, Iterate(s) PROVE Sets!Next
  <2>1. job' = job /\ sets' = sets /\ result' = 1 /\ memory' = TRUE
    BY <1>4 DEF Iterate, NoAnswer, Answers
  <2>2. \A t \in Name : Stored(t)' = Stored(t)
    BY <1>4, IterateInv
  <2> QED BY <2>1, <2>2, NothingSeen, QuietSim
<1>5. ASSUME NEW s \in Name, NEW v \in Value, Insert(s, v) PROVE Sets!Next
  <2>1. job' = job /\ sets' = sets /\ result' = 1 /\ memory' = TRUE
    BY <1>5 DEF Insert, NoAnswer, Answers
  <2>2. \A t \in Name : Stored(t)' = Stored(t)
    BY <1>5, InsertInv
  <2> QED BY <2>1, <2>2, NothingSeen, QuietSim
<1>6. ASSUME NEW s \in Name, NEW v \in Value, RemoveValue(s, v) PROVE Sets!Next
  BY <1>6, RemoveSim
<1>7. ASSUME NEW s \in Name, NEW v \in Value, RemoveNothing(s, v) PROVE Sets!Next
  BY <1>7, RemoveNothingSim
<1>8. CASE IterNext
  <2>1. job' = job /\ sets' = sets /\ result' = 1 /\ memory' = TRUE
    BY <1>8 DEF IterNext, NoAnswer, Answers
  <2>2. \A t \in Name : Stored(t)' = Stored(t)
    BY <1>8, IterNextInv
  <2> QED BY <2>1, <2>2, NothingSeen, QuietSim
<1>9. ASSUME NEW s1 \in Name, NEW s2 \in Name, NEW s \in Name,
             Begin("union", s1, s2, s) \/ Begin("intersection", s1, s2, s)
      PROVE  Sets!Next
  <2>1. PICK op \in {"union", "intersection"} : Begin(op, s1, s2, s)
    BY <1>9
  <2> QED BY <2>1, BeginSim
<1>10. CASE NewFails
  <2>1. /\ job' = job /\ sets' = sets /\ result' = NULL /\ memory' = FALSE /\ Idle
        /\ UNCHANGED <<sets, iter, job, insertion, live>>
    BY <1>10 DEF NewFails, Answers
  <2>2. \A t \in Name : Stored(t)' = Stored(t)
    BY <2>1, IdleAnswerInv
  <2> QED BY <2>1, <2>2, NothingSeen, OutOfMemorySim
<1>11. CASE Enlarge \/ MoveEntry \/ EndRehash
  <2>1. job' = job /\ result' = result /\ memory' = memory
    BY <1>11 DEF Enlarge, MoveEntry, EndRehash, outcome
  <2>2. /\ \A t \in Name : Stored(t)' = Stored(t)
        /\ \A t \in Name : sets'[t].table_size # 0 <=> sets[t].table_size # 0
    BY <1>11, EnlargeInv, MoveEntryInv, EndRehashInv
  <2> QED BY <2>1, <2>2, NothingSeen
<1>12. CASE EnlargeFails \/ AddEntryFails
  <2>1. pc \in {"enlarge", "place"} /\ Fails(FALSE)
    BY <1>12 DEF EnlargeFails, AddEntryFails
  <2> QED BY <2>1, FailsSeen, OutOfMemorySim
<1>13. CASE AlreadyThere
  BY <1>13, AlreadyThereSim
<1>14. CASE AddEntry
  BY <1>14, AddEntrySim
<1>15. CASE PassOver \/ Copy \/ SecondLoop
  <2>1. /\ \A t \in Name : Stored(t)' = Stored(t)
        /\ job'.new_set = job.new_set /\ sets' = sets /\ result' = result /\ memory' = memory
    <3>1. CASE PassOver
      BY <3>1, PassOverInv DEF PassOver, outcome
    <3>2. CASE Copy
      BY <3>2, CopyInv DEF Copy, outcome
    <3>3. CASE SecondLoop
      <4>1. \A t \in Name : Stored(t)' = Stored(t) /\ job'.new_set = job.new_set
        BY <3>3, SecondLoopInv
      <4>2. job # NoJob /\ job.new_set \in Name
        BY <3>3, WorkingFacts DEF SecondLoop
      <4> QED BY <3>3, <4>1, <4>2 DEF SecondLoop, outcome
    <3> QED BY <1>15, <3>1, <3>2, <3>3
  <2> QED BY <2>1, NothingSeen
<1>16. CASE Return
  BY <1>16, ReturnSim
<1>17. CASE UNCHANGED vars
  <2>1. \A t \in Name : Members(t)' = Members(t)
    BY <1>17 DEF vars, insertion, outcome, Members, Classes, Stored, Exists
  <2> QED BY <1>17, <2>1, SameContents DEF vars, outcome
<1>18. Next \/ UNCHANGED vars
  OBVIOUS
<1> HIDE DEF vars
<1> QED BY <1>1, <1>2, <1>3, <1>4, <1>5, <1>6, <1>7, <1>8, <1>9, <1>10, <1>11, <1>12,
           <1>13, <1>14, <1>15, <1>16, <1>17, <1>18 DEF Next, InsertSteps, JobSteps

(* Each call is one operation on sets of classes: a union or intersection  *)
(* with all its turns, insertions and enlargements, and one that fails for *)
(* want of memory changes nothing that the caller can see.                 *)
THEOREM SetsRefine == Spec => ImplementsSets
<1>1. Spec => Sets!Init
  BY InitSim DEF Spec
<1> QED BY <1>1, SpecInv, NextSim, PTL DEF Spec, ImplementsSets, Sets!Spec

-----------------------------------------------------------------------------
(* A Bloom filter is left alone by the calls of a set, so that what the    *)
(* filters promise holds of the two kinds together.                        *)
LEMMA FiltersStep ==
  ASSUME [SetsNext]_<<vars, filters, array, kind>>
  PROVE  [Bloom!Next]_(Bloom!vars)
BY DEF SetsNext, Bloom!vars

(* Whatever the calls, a filter answers yes for every value inserted into  *)
(* it, or into a filter it was made of, and knows no other value unless an *)
(* intersection had a part in it.                                          *)
THEOREM SetsNeverForget == SetsSpec => []FiltersNeverForget
<1>1. SetsInit => Bloom!Init
  BY DEF SetsInit
<1>2. [SetsNext]_<<vars, filters, array, kind>> => [Bloom!Next]_(Bloom!vars)
  BY FiltersStep
<1>3. SetsSpec => Bloom!Spec
  BY <1>1, <1>2, PTL DEF SetsSpec, Bloom!Spec
<1>4. Bloom!Spec => [](Bloom!TypeOK /\ Bloom!NeverForgets)
  BY BloomAssumption, Bloom!FiltersCorrect DEF Bloom!FiltersCorrect
<1>5. Bloom!TypeOK /\ Bloom!NeverForgets => FiltersNeverForget
  BY DEF FiltersNeverForget
<1> QED BY <1>3, <1>4, <1>5, PTL
=============================================================================
