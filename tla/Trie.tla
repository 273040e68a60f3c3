-------------------------------- MODULE Trie --------------------------------
(***************************************************************************)
(* The trie of src/src/base/trie.c.                                        *)
(*                                                                         *)
(* A key is a sequence of characters; trie_insert, trie_remove and trie_   *)
(* lookup take the keys without NUL (character 0), their _binary variants  *)
(* take any key, and the two families differ in nothing else.  The walks   *)
(* down the trie are modelled one node per step: an insertion that creates *)
(* and counts, its rollback when calloc fails, a removal, and trie_free's  *)
(* work list, which is threaded through the data fields of the nodes.      *)
(*                                                                         *)
(* A link is named by its address: ROOT for root_node, <<n, c>> for entry  *)
(* c of node n's next.  An operator X_Suffix next to an operator X is X    *)
(* with a plausible bug; no action uses it.                                *)
(***************************************************************************)
EXTENDS Integers, Sequences, FiniteSets

CONSTANTS
  Char,     \* the characters, NUL being 0
  Key,      \* the keys used
  Value,
  Cell,     \* the addresses calloc can return
  NULL,     \* the null pointer, and TRIE_NULL
  ROOT      \* the address of root_node

(* What the constants must be. *)
Parameters ==
  /\ IsFiniteSet(Char)
  /\ Char = 0 .. Cardinality(Char) - 1
  /\ Key \subseteq Seq(Char)
  /\ NULL \notin Cell \cup Value
  /\ Cell \cap Value = {}
  /\ ROOT \notin Cell \X Char

Pointer == Cell \cup {NULL}
Node == [data : Value \cup Pointer, use_count : Nat, next : [Char -> Pointer]]
LinkAddress == {ROOT} \cup (Cell \X Char)

VARIABLES
  pc,         \* "none" (no trie), "idle", "insert", "rollback", "remove", "free"
  root_node,
  heap,       \* the allocated nodes
  arg,        \* the key and value of the call under way
  node,       \* the node a rollback or removal has reached
  link,       \* rover, prev_ptr or last_next_ptr of the call under way
  p,          \* how much of the key has been followed
  free_list,  \* the work list of trie_free
  result      \* what the last insertion or removal returned, from the step
              \* that decides it on

walk == <<arg, node, link, p, free_list>>
vars == <<pc, root_node, heap, walk, result>>

-----------------------------------------------------------------------------
NewNode == [data |-> NULL, use_count |-> 0, next |-> [c \in Char |-> NULL]]
NoArg == [key |-> <<>>, value |-> NULL]

Memory == [root |-> root_node, heap |-> heap]
Becomes(m) == root_node' = m.root /\ heap' = m.heap

Target(m, l) == IF l = ROOT THEN m.root ELSE m.heap[l[1]].next[l[2]]
SetLink(m, l, n) ==
  IF l = ROOT THEN [m EXCEPT !.root = n]
  ELSE [m EXCEPT !.heap[l[1]].next[l[2]] = n]

Calloc(m, n) ==
  [m EXCEPT !.heap = [x \in DOMAIN m.heap \cup {n} |->
                        IF x = n THEN NewNode ELSE m.heap[x]]]
FreeNode(m, n) ==
  [m EXCEPT !.heap = [x \in DOMAIN m.heap \ {n} |-> m.heap[x]]]
Count(m, n, d) == [m EXCEPT !.heap[n].use_count = @ + d]

(* trie_find_end: the node that a key leads to, NULL if there is none. *)
FindEnd(k) ==
  LET at[n \in 0 .. Len(k)] ==
        IF n = 0 THEN root_node
        ELSE IF at[n - 1] = NULL THEN NULL ELSE heap[at[n - 1]].next[k[n]]
  IN  at[Len(k)]

(* The keys that the functions on strings take. *)
IsString(k) == \A n \in DOMAIN k : k[n] # 0
(* The test with which a removal, or an insertion that replaces, begins. *)
Present_NodeOnly(k) == FindEnd(k) # NULL    \* mutant: the data is not tested
Present(k) == FindEnd(k) # NULL /\ heap[FindEnd(k)].data # NULL

(* trie_lookup, trie_lookup_binary *)
Lookup(k) == IF FindEnd(k) # NULL THEN heap[FindEnd(k)].data ELSE NULL

(* trie_num_entries *)
NumEntries == IF root_node = NULL THEN 0 ELSE heap[root_node].use_count

-----------------------------------------------------------------------------
Init ==
  /\ pc = "none"
  /\ root_node = NULL
  /\ heap = [n \in {} |-> NewNode]
  /\ arg = NoArg
  /\ node = NULL
  /\ link = NULL
  /\ p = 0
  /\ free_list = NULL
  /\ result = 0

(* trie_new; a failed malloc leaves the caller with no trie. *)
New ==
  /\ pc = "none"
  /\ pc' = "idle"
  /\ root_node' = NULL
  /\ UNCHANGED <<heap, walk, result>>

(* The end of a call: its local variables are gone. *)
Return ==
  /\ pc' = "idle"
  /\ arg' = NoArg
  /\ node' = NULL
  /\ link' = NULL
  /\ p' = 0
  /\ UNCHANGED free_list

(* trie_insert up to its loop: NULL is refused, the value of a key already *)
(* present is replaced, otherwise the walk starts.                         *)
StartInsert(k, v) ==
  \/ /\ v = NULL
     /\ result' = 0
     /\ UNCHANGED <<pc, root_node, heap, walk>>
  \/ /\ v # NULL
     /\ Present(k)
     /\ heap' = [heap EXCEPT ![FindEnd(k)].data = v]
     /\ result' = 1
     /\ UNCHANGED <<pc, root_node, walk>>
  \/ /\ v # NULL
     /\ ~Present(k)
     /\ pc' = "insert"
     /\ arg' = [key |-> k, value |-> v]
     /\ link' = ROOT
     /\ p' = 0
     /\ UNCHANGED <<root_node, heap, node, free_list, result>>

Insert(k, v) == pc = "idle" /\ IsString(k) /\ StartInsert(k, v)
InsertBinary(k, v) == pc = "idle" /\ ~IsString(k) /\ StartInsert(k, v)

(* The loop's body once the link leads to node n: it is counted, and it    *)
(* takes the value if the key ends here.                                   *)
Reach(m, n) ==
  IF p = Len(arg.key)
  THEN /\ Becomes([Count(m, n, 1) EXCEPT !.heap[n].data = arg.value])
       /\ Return
       /\ result' = 1
  ELSE /\ Becomes(Count(m, n, 1))
       /\ link' = <<n, arg.key[p + 1]>>
       /\ p' = p + 1
       /\ UNCHANGED <<pc, arg, node, free_list, result>>

Descend ==
  /\ pc = "insert"
  /\ Target(Memory, link) # NULL
  /\ Reach(Memory, Target(Memory, link))

Create(n) ==
  /\ pc = "insert"
  /\ Target(Memory, link) = NULL
  /\ n \notin DOMAIN heap
  /\ Reach(SetLink(Calloc(Memory, n), link, n), n)

(* calloc fails: trie_insert_rollback starts again from the root. *)
CreateFails ==
  /\ pc = "insert"
  /\ Target(Memory, link) = NULL
  /\ pc' = "rollback"
  /\ node' = root_node
  /\ link' = ROOT
  /\ p' = 0
  /\ UNCHANGED <<root_node, heap, arg, free_list, result>>

(* One node of the rollback.  A node whose count falls to zero was created *)
(* by this insertion; it is freed, and only the first such node has a link *)
(* that must be reset.                                                     *)
RollBackNode_Linked(m, n) == FreeNode(m, n)    \* mutant: the link is kept
RollBackNode(m, n) ==
  FreeNode(IF link = NULL THEN m ELSE SetLink(m, link, NULL), n)

RollBack ==
  /\ pc = "rollback"
  /\ node # NULL
  /\ LET c == arg.key[p + 1]
         m == Count(Memory, node, -1)
     IN  /\ node' = heap[node].next[c]
         /\ IF m.heap[node].use_count = 0
            THEN Becomes(RollBackNode(m, node)) /\ link' = NULL
            ELSE Becomes(m) /\ link' = <<node, c>>
  /\ p' = p + 1
  /\ UNCHANGED <<pc, arg, free_list, result>>

RollBackEnds ==
  /\ pc = "rollback"
  /\ node = NULL
  /\ Return
  /\ result' = 0
  /\ UNCHANGED <<root_node, heap>>

-----------------------------------------------------------------------------
(* trie_remove up to its loop: the value is taken away first. *)
StartRemove(k) ==
  \/ /\ Present(k)
     /\ heap' = [heap EXCEPT ![FindEnd(k)].data = NULL]
     /\ result' = 1
     /\ pc' = "remove"
     /\ arg' = [key |-> k, value |-> NULL]
     /\ node' = root_node
     /\ link' = ROOT
     /\ p' = 0
     /\ UNCHANGED <<root_node, free_list>>
  \/ /\ ~Present(k)
     /\ result' = 0
     /\ UNCHANGED <<pc, root_node, heap, walk>>

RemoveKey(k) == pc = "idle" /\ IsString(k) /\ StartRemove(k)
RemoveBinary(k) == pc = "idle" /\ ~IsString(k) /\ StartRemove(k)

(* One node of the removal: it is uncounted, and freed if no key is left   *)
(* below it; the link to the first node freed is reset.  The next node and *)
(* the address of the link to it are taken before the node is freed.       *)
Unused(use_count) == use_count <= 0

UnlinkOnce(m, n) ==
  FreeNode(IF link = NULL THEN m ELSE SetLink(m, link, NULL), n)

Uncount(m, n) == Count(m, n, -1)

RemoveNode ==
  /\ pc = "remove"
  /\ LET m == Uncount(Memory, node)
         unused == Unused(m.heap[node].use_count)
     IN  /\ Becomes(IF unused THEN UnlinkOnce(m, node) ELSE m)
         /\ IF p = Len(arg.key)
            THEN Return
            ELSE /\ node' = heap[node].next[arg.key[p + 1]]
                 /\ link' = IF unused \/ link = NULL THEN NULL
                            ELSE <<node, arg.key[p + 1]>>
                 /\ p' = p + 1
                 /\ UNCHANGED <<pc, arg, free_list>>
  /\ UNCHANGED result

-----------------------------------------------------------------------------
(* trie_free_list_push: the data field of the node becomes the link to the *)
(* rest of the list.                                                       *)
Push(s, n) == [heap |-> [s.heap EXCEPT ![n].data = s.list], list |-> n]

PushChildren(s, n) ==
  LET pushed[c \in 0 .. Cardinality(Char)] ==
        IF c = 0 THEN s
        ELSE IF heap[n].next[c - 1] = NULL THEN pushed[c - 1]
        ELSE Push(pushed[c - 1], heap[n].next[c - 1])
  IN  pushed[Cardinality(Char)]

(* trie_free: the root is pushed, then each node popped is replaced by its *)
(* children and freed, then the trie is freed.                             *)
Free ==
  /\ pc = "idle"
  /\ pc' = "free"
  /\ IF root_node = NULL THEN UNCHANGED <<heap, free_list>>
     ELSE LET s == Push([heap |-> heap, list |-> NULL], root_node)
          IN  heap' = s.heap /\ free_list' = s.list
  /\ result' = 0
  /\ UNCHANGED <<root_node, arg, node, link, p>>

FreeNext ==
  /\ pc = "free"
  /\ free_list # NULL
  /\ LET n == free_list
         s == PushChildren([heap |-> heap, list |-> heap[n].data], n)
     IN  /\ heap' = [x \in DOMAIN s.heap \ {n} |-> s.heap[x]]
         /\ free_list' = s.list
  /\ UNCHANGED <<pc, root_node, arg, node, link, p, result>>

FreeEnds ==
  /\ pc = "free"
  /\ free_list = NULL
  /\ pc' = "none"
  /\ root_node' = NULL
  /\ UNCHANGED <<heap, walk, result>>

-----------------------------------------------------------------------------
CallSteps ==
  \/ Descend
  \/ \E n \in Cell : Create(n)
  \/ CreateFails
  \/ RollBack
  \/ RollBackEnds
  \/ RemoveNode
  \/ FreeNext
  \/ FreeEnds

Next ==
  \/ New
  \/ \E k \in Key, v \in Value \cup {NULL} : Insert(k, v) \/ InsertBinary(k, v)
  \/ \E k \in Key : RemoveKey(k) \/ RemoveBinary(k)
  \/ Free
  \/ CallSteps

Spec == Init /\ [][Next]_vars

-----------------------------------------------------------------------------
(* The shape of the state. *)
TypeOK ==
  /\ pc \in {"none", "idle", "insert", "rollback", "remove", "free"}
  /\ root_node \in Pointer
  /\ DOMAIN heap \subseteq Cell
  /\ heap \in [DOMAIN heap -> Node]
  /\ arg.key \in Seq(Char) /\ arg.value \in Value \cup {NULL}
  /\ node \in Pointer
  /\ link \in LinkAddress \cup {NULL}
  /\ p \in Nat
  /\ free_list \in Pointer
  /\ result \in {0, 1}

(* The nodes below a node, itself included, going down at most as many     *)
(* links as there are nodes.                                               *)
Children(n) ==
  IF n \in DOMAIN heap THEN {heap[n].next[c] : c \in Char} \ {NULL} ELSE {}
Below(n) ==
  LET down[d \in 0 .. Cardinality(DOMAIN heap)] ==
        IF d = 0 THEN {n} ELSE down[d - 1] \cup UNION {Children(x) : x \in down[d - 1]}
  IN  down[Cardinality(DOMAIN heap)]
Reachable == IF root_node = NULL THEN {} ELSE Below(root_node)

(* Between calls every allocated node hangs in the trie, under one link:   *)
(* no rollback and no removal leaves a node behind or a link to a node it  *)
(* has freed, and with no trie there is no node.                           *)
Parents(n) == {l \in (DOMAIN heap) \X Char : heap[l[1]].next[l[2]] = n}
IsTree ==
  /\ pc = "idle" =>
       /\ Reachable = DOMAIN heap
       /\ \A n \in DOMAIN heap :
            Cardinality(Parents(n)) = IF n = root_node THEN 0 ELSE 1
  /\ pc = "none" => DOMAIN heap = {}

(* Between calls the use count of a node is the number of keys stored at   *)
(* it and below it, and every node is there for some key; so a removal     *)
(* frees exactly the nodes no other key needs.                             *)
Bound == {n \in DOMAIN heap : heap[n].data # NULL}
UseCountExact ==
  pc = "idle" =>
    \A n \in DOMAIN heap :
      /\ heap[n].use_count = Cardinality(Below(n) \cap Bound)
      /\ heap[n].use_count > 0

(* trie_num_entries is the number of keys a lookup finds. *)
NumEntriesExact ==
  pc = "idle" => NumEntries = Cardinality({k \in Key : Lookup(k) # NULL})

(* Both, through any history of replacements, rollbacks and removals.      *)
CountsExact == UseCountExact /\ NumEntriesExact

(* The trie is a map and each call, over all its steps, one operation on   *)
(* it; an insertion whose calloc fails at any depth changes nothing.       *)
Abstract == INSTANCE AbstractMap WITH
  map <- IF pc \in {"none", "free"} THEN [k \in {} |-> NULL]
         ELSE [k \in {x \in Key : Present(x)} |-> Lookup(k)],
  ok <- result
ImplementsMap == Abstract!Spec
=============================================================================
