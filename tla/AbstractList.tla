---------------------------- MODULE AbstractList ----------------------------
(***************************************************************************)
(* What the lists of this library promise their caller: a sequence of      *)
(* values, changed by whole calls.  list.h, slist.h and arraylist.h        *)
(* implement it.                                                           *)
(***************************************************************************)
EXTENDS Integers, Sequences, FiniteSets

CONSTANTS
  Value,
  Rank      \* what the compare function sees of a value: equal_func holds of
            \* two values of the same rank, compare_func orders by rank

VARIABLES
  items,
  result    \* what the last call that changes the list returned: 0 or NULL
            \* for failure, 1 for success, or the number of entries removed

vars == <<items, result>>

TypeOK ==
  /\ items \in Seq(Value)
  /\ result \in Nat

(* The values of s that are in S, in their order. *)
Selected(s, S) ==
  LET upto[n \in 0 .. Len(s)] ==
        IF n = 0 THEN <<>>
        ELSE IF s[n] \in S THEN Append(upto[n - 1], s[n]) ELSE upto[n - 1]
  IN  upto[Len(s)]

Matching(s, v) == Selected(s, {x \in Value : Rank[x] = Rank[v]})
Others(s, v) == Selected(s, {x \in Value : Rank[x] # Rank[v]})

Ascending(s) == \A i \in 1 .. Len(s) - 1 : Rank[s[i]] <= Rank[s[i + 1]]
Occurrences(s, v) == Cardinality({i \in DOMAIN s : s[i] = v})
Permutes(s, t) == \A v \in Value : Occurrences(s, v) = Occurrences(t, v)

-----------------------------------------------------------------------------
Init ==
  /\ items = <<>>
  /\ result = 0

Prepend(v) ==
  /\ items' = <<v>> \o items
  /\ result' = 1

Add(v) ==
  /\ items' = Append(items, v)
  /\ result' = 1

(* A value is inserted before position i. *)
Insert(i, v) ==
  /\ items' = SubSeq(items, 1, i - 1) \o <<v>> \o SubSeq(items, i, Len(items))
  /\ result' = 1

(* An insertion or removal that fails. *)
Refused ==
  /\ result' = 0
  /\ UNCHANGED items

DeleteAt(i) == items' = SubSeq(items, 1, i - 1) \o SubSeq(items, i + 1, Len(items))

(* The values from position i to position j are removed, which only an     *)
(* array offers.                                                           *)
DeleteRange(i, j) ==
  /\ items' = SubSeq(items, 1, i - 1) \o SubSeq(items, j + 1, Len(items))
  /\ UNCHANGED result

DeleteAll(v) ==
  /\ items' = Others(items, v)
  /\ result' = Len(Matching(items, v))

(* The sort is not stable: any ascending arrangement will do. *)
Sort ==
  /\ Permutes(items', items)
  /\ Ascending(items')
  /\ UNCHANGED result

Destroy ==
  /\ items' = <<>>
  /\ UNCHANGED result

Next ==
  \/ \E v \in Value : Prepend(v) \/ Add(v) \/ DeleteAll(v)
  \/ \E v \in Value, i \in 1 .. Len(items) + 1 : Insert(i, v)
  \/ Refused
  \/ \E i \in DOMAIN items : DeleteAt(i) /\ result' \in {1, result}
  \/ Sort
  \/ Destroy

Spec == Init /\ [][Next]_vars
=============================================================================
