---------------------------- MODULE AbstractMap ----------------------------
(***************************************************************************)
(* What a dictionary of this library promises its caller: a finite partial *)
(* function from keys to values, changed by a put, a removal or the        *)
(* destruction of the whole dictionary, one whole call at a time.  A put   *)
(* may be refused (the allocator had no memory) and then changes nothing.  *)
(* The hash table (hash-table.h) and the trie (trie.h) implement it.       *)
(***************************************************************************)
EXTENDS Integers

CONSTANTS
  Key,    \* the keys, up to the dictionary's own notion of equality
  Value   \* what a key can be bound to

VARIABLES
  map,    \* the bindings, a function whose domain is the set of bound keys
  ok      \* what the last put or removal returned: 1 or 0

vars == <<map, ok>>

TypeOK ==
  /\ map \in UNION {[D -> Value] : D \in SUBSET Key}
  /\ ok \in {0, 1}

Empty == [k \in {} |-> 0]

Init ==
  /\ map = Empty
  /\ ok = 0

Put(k, v) ==
  /\ map' = [x \in DOMAIN map \cup {k} |-> IF x = k THEN v ELSE map[x]]
  /\ ok' = 1

PutRefused ==
  /\ map' = map
  /\ ok' = 0

Remove(k) ==
  /\ map' = [x \in DOMAIN map \ {k} |-> map[x]]
  /\ ok' = IF k \in DOMAIN map THEN 1 ELSE 0

Destroy ==
  /\ map' = Empty
  /\ ok' = 0

Next ==
  \/ \E k \in Key, v \in Value : Put(k, v)
  \/ PutRefused
  \/ \E k \in Key : Remove(k)
  \/ Destroy

Spec == Init /\ [][Next]_vars
=============================================================================
