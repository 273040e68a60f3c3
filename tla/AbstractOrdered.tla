-------------------------- MODULE AbstractOrdered --------------------------
(***************************************************************************)
(* What a search tree of this library promises its caller (avl-tree.h): a  *)
(* sequence of entries in the order of their keys, in which several may    *)
(* have the same key.  A new entry comes after those with its key; a       *)
(* removal by key takes one entry that has it and reports an absent key; a *)
(* removal by node takes the entry the caller holds.  Each call is one     *)
(* step, and an insertion that finds no memory changes nothing.            *)
(***************************************************************************)
EXTENDS Integers, Sequences

CONSTANTS
  Key,      \* integers: a compare function puts the keys in a total order
  Value,
  NULL      \* no key

VARIABLES
  entries,  \* the entries, in order
  last      \* the last call on the tree, its key and whether it succeeded

vars == <<entries, last>>

Call == [op : {"none", "insert", "remove", "remove_node"},
         key : Key \cup {NULL}, ok : {0, 1}]

(* Where an entry with key k belongs: after all that do not exceed it. *)
Rank(k) == CHOOSE n \in 0 .. Len(entries) :
             /\ \A i \in 1 .. n : entries[i].key <= k
             /\ \A i \in n + 1 .. Len(entries) : entries[i].key > k

InsertAfter(s, n, e) == SubSeq(s, 1, n) \o <<e>> \o SubSeq(s, n + 1, Len(s))
Without(s, n) == SubSeq(s, 1, n - 1) \o SubSeq(s, n + 1, Len(s))

Returns(op, k, ok) == last' = [op |-> op, key |-> k, ok |-> ok]

Init == entries = <<>> /\ last = [op |-> "none", key |-> NULL, ok |-> 0]

Insert(k, v) ==
  /\ entries' = InsertAfter(entries, Rank(k), [key |-> k, value |-> v])
  /\ Returns("insert", k, 1)

InsertRefused(k) == entries' = entries /\ Returns("insert", k, 0)

Remove(k) ==
  \E n \in DOMAIN entries :
    /\ entries[n].key = k
    /\ entries' = Without(entries, n)
    /\ Returns("remove", k, 1)

RemoveAbsent(k) ==
  /\ \A n \in DOMAIN entries : entries[n].key # k
  /\ entries' = entries
  /\ Returns("remove", k, 0)

RemoveNode(n) ==
  /\ entries' = Without(entries, n)
  /\ Returns("remove_node", entries[n].key, 1)

Destroy == entries' = <<>> /\ Returns("none", NULL, 0)

Next ==
  \/ \E k \in Key, v \in Value : Insert(k, v)
  \/ \E k \in Key : InsertRefused(k) \/ Remove(k) \/ RemoveAbsent(k)
  \/ \E n \in DOMAIN entries : RemoveNode(n)
  \/ Destroy

Spec == Init /\ [][Next]_vars
=============================================================================
