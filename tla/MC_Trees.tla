------------------------------ MODULE MC_Trees ------------------------------
(***************************************************************************)
(* The trees of the library: a behaviour is that of a tree of one kind,     *)
(* chosen at the start and then fixed.                                     *)
(*                                                                         *)
(* Up to seven nodes of an AVL tree, enough for a node to be replaced by   *)
(* one that is neither its child nor a leaf, and for every rotation after  *)
(* an insertion and after a removal; up to eight of a red-black tree,      *)
(* enough for the repair to go up and to rotate after that.  Entry 3 can   *)
(* be in a tree twice.  Five nodes of a binary tree, enough for a subtree  *)
(* with two children to be removed from between others.  The keys of the   *)
(* trie share prefixes and are prefixes of one another, down to the empty  *)
(* key; one of them holds a NUL and is binary.                             *)
(***************************************************************************)
EXTENDS AVLTree

CONSTANTS
  Kinds,
  ROOT,         \* the address of a trie's root_node
  DatumPairs    \* the keys and values inserted in a red-black tree

VARIABLES
  kind,
  arg, link, p, free_list    \* the locals of the trie's calls

MCKey == 1 .. 6
MCValue == {1, 2}
MCInserted == MCKey \X {1} \cup {<<3, 2>>}

MCDatum == 1 .. 7
MCCell == MCDatum \X {1} \cup {<<3, 2>>}

(* As the tests use the red-black tree, a value is its own key ...         *)
EqualPairs == {<<d, d>> : d \in MCDatum}
(* ... and as rb-tree.h describes it, keys and values are unrelated.       *)
AllPairs == MCDatum \X MCDatum

RB == INSTANCE RBTree WITH
        node <- rover, Datum <- MCDatum, Inserted <- DatumPairs

Bi == INSTANCE BiTree WITH
        rootNode <- root_node, nodeNum <- num_nodes,
        Cell <- 1 .. 5, Value <- {1}

BS == INSTANCE BSTree WITH
        rootNode <- root_node, nodeNum <- num_nodes,
        Key <- 1 .. 4, Inserted <- MCInserted \ {<<5, 1>>, <<6, 1>>}

MCTrieKey == {<<>>, <<1>>, <<1, 0>>, <<1, 1>>, <<1, 1, 1>>}

Tr == INSTANCE Trie WITH
        Char <- {0, 1}, Key <- MCTrieKey, Value <- {11, 12}, Cell <- 1 .. 5,
        node <- rover, result <- last

ASSUME Tr!Parameters

trieOnly == <<arg, link, p, free_list>>
allVars == <<kind, vars, trieOnly>>

TreesInit ==
  /\ kind \in Kinds
  /\ IF kind = "trie" THEN Tr!Init /\ num_nodes = 0
     ELSE /\ \/ kind = "AVL" /\ Init
             \/ kind = "red-black" /\ RB!Init
             \/ kind \in {"binary", "search"} /\ Bi!Init /\ rover = NULL
          /\ arg = NULL
          /\ link = NULL
          /\ p = NULL
          /\ free_list = NULL

TreesNext ==
  /\ UNCHANGED kind
  /\ \/ kind = "AVL" /\ Next /\ UNCHANGED trieOnly
     \/ kind = "red-black" /\ RB!Next /\ UNCHANGED trieOnly
     \/ kind = "binary" /\ Bi!Next /\ UNCHANGED <<rover, trieOnly>>
     \/ kind = "search" /\ BS!SearchNext /\ UNCHANGED <<rover, trieOnly>>
     \/ kind = "trie" /\ Tr!Next /\ UNCHANGED num_nodes

TreesSpec == TreesInit /\ [][TreesNext]_allVars

-----------------------------------------------------------------------------
(* The address of a new node is given by its entry, or is the lowest that  *)
(* is free, and stands for all addresses: the code compares no address     *)
(* with an earlier one.                                                    *)
AddressGiven ==
  \A n \in DOMAIN heap' \ DOMAIN heap :
    IF kind \in {"AVL", "search"} THEN <<heap'[n].key, heap'[n].value>> = n
    ELSE IF kind = "red-black" THEN heap'[n].value = n[1]
    ELSE \A m \in 1 .. n : m \in DOMAIN heap'

-----------------------------------------------------------------------------
(* At every step of every call the nodes form one tree under the root, the *)
(* parent and child pointers agree, and no node is lost; of a trie, between *)
(* calls, whose insertions link what a rollback may have to cut off.       *)
TreesWellFormed ==
  CASE kind = "AVL" -> TypeOK /\ WellLinked
    [] kind = "red-black" -> RB!TypeOK /\ RB!WellLinked
    [] kind = "binary" -> Bi!TypeOK /\ Bi!WellLinked
    [] kind = "search" -> BS!TypeOK /\ BS!WellLinked
    [] kind = "trie" -> Tr!TypeOK /\ Tr!IsTree

(* What the nodes record about the nodes below them is so: the balance an  *)
(* AVL tree keeps off the path that is still to be climbed, the red-black  *)
(* conditions up to the node under repair, both complete between calls;    *)
(* the number of keys below each node of a trie; the number of nodes of a  *)
(* binary tree.                                                            *)
TreesBalanced ==
  CASE kind = "AVL" -> BalancedOffPath
    [] kind = "red-black" -> RB!RedBlack
    [] kind = "binary" -> Bi!CountExact
    [] kind = "search" -> BS!CountExact
    [] kind = "trie" -> Tr!CountsExact

(* Between calls a lookup finds every key of the tree and no other; for    *)
(* the red-black tree, rb-tree.h says that the nodes are sorted "based on  *)
(* the order of their keys"; in a search tree it finds the first entry.    *)
TreesLookupComplete ==
  CASE kind = "AVL" -> LookupComplete
    [] kind = "red-black" -> RB!LookupComplete
    [] kind = "search" -> BS!LookupFirst
    [] OTHER -> TRUE

(* An AVL tree and a search tree implement the ordered sequence of entries *)
(* that avl-tree.h promises; a red-black tree inserts each entry in its    *)
(* place, a binary tree next to its parent; rotations and exchanges of     *)
(* nodes change nothing.  A trie is a map.                                 *)
TreesKeepContents ==
  /\ kind = "AVL" => Ordered!Init
  /\ kind = "search" => BS!Ordered!Init
  /\ kind = "trie" => Tr!Abstract!Init
  /\ [][CASE kind = "AVL" -> OrderedStep
          [] kind = "red-black" -> RB!InsertsInOrder
          [] kind = "binary" -> Bi!KeepsOrder
          [] kind = "search" -> BS!OrderedStep
          [] kind = "trie" -> [Tr!Abstract!Next]_(Tr!Abstract!vars)]_allVars
=============================================================================
