---------------------------- MODULE MC_HashTable ----------------------------
(***************************************************************************)
(* Four keys, three of which share a chain at size 2 and two at both       *)
(* sizes, and a list of two primes, so that the second enlargement goes    *)
(* past the last prime.  Class 1 has two key objects, for the overwrite    *)
(* that must free the old key.                                             *)
(***************************************************************************)
EXTENDS HashTable, TLC

CONSTANTS k1, k1b, k2, k3, k5

MCKey == {1, 2, 3, 5}
MCKeyObj == {k1, k1b, k2, k3, k5}
MCClassOf == k1 :> 1 @@ k1b :> 1 @@ k2 :> 2 @@ k3 :> 3 @@ k5 :> 5
MCHash == 1 :> 0 @@ 2 :> 42 @@ 3 :> 5 @@ 5 :> 14
MCPrimes == <<2, 7>>
=============================================================================
