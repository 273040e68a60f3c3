------------------------------ MODULE MC_Sets ------------------------------
(***************************************************************************)
(* The sets and the Bloom filters: a behaviour is that of one kind, chosen *)
(* at the start and then fixed.                                            *)
(*                                                                         *)
(* Three pointers, so that a union has two operands and a target.  Four    *)
(* values of three classes: all three share a chain at the first size, and *)
(* two at the size past the list of one prime.  Filters of ten bits, whose *)
(* second byte is not full, of three values and with two hash functions,   *)
(* under one of which the bits of v1 and v1b together cover those of v2.   *)
(***************************************************************************)
EXTENDS Set, TLC

CONSTANTS
  Kinds, v1, v1b, v2, v3,
  Known, Params, SubHash, MaxFunctions    \* of the filters

VARIABLES kind, filters, array

Symmetry == Permutations(Name)

MCClassOf == v1 :> 1 @@ v1b :> 1 @@ v2 :> 2 @@ v3 :> 3
MCHash == 1 :> 0 @@ 2 :> 5 @@ 3 :> 20
MCPrimes == <<5>>

MCKnown == {v1, v1b, v2}
MCParams ==
  [table_size : {10}, hash_func : {"g", "h"}, num_functions : {2, 3}]
MCSubHash ==
  "g" :> (v1 :> <<0, 19>> @@ v1b :> <<13, 24>> @@ v2 :> <<10, 33>>)
  @@ "h" :> (v1 :> <<1, 2>> @@ v1b :> <<2, 7>> @@ v2 :> <<5, 15>>)

Bloom == INSTANCE BloomFilter WITH Value <- Known

ASSUME BloomAssumption == Bloom!Parameters

SetsInit == kind \in Kinds /\ Init /\ Bloom!Init

SetsNext ==
  /\ UNCHANGED kind
  /\ \/ kind = "set" /\ Next /\ UNCHANGED <<filters, array>>
     \/ kind = "bloom" /\ Bloom!Next /\ UNCHANGED vars

(* The answers of the calls, which no call depends on, are no part of the   *)
(* state: TLC checks them with each step.                                   *)
WithoutAnswers == <<sets, iter, job, insertion, live, filters, array, kind>>

SetsSpec == SetsInit /\ [][SetsNext]_<<vars, filters, array, kind>>

(* A filter never denies a value it must know, and knows no others but for *)
(* an intersection.                                                        *)
FiltersNeverForget == Bloom!TypeOK /\ Bloom!NeverForgets
=============================================================================
