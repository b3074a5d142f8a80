------------------------------- MODULE MCLedger -------------------------------
(* A small ledger for TLC: an organisation and two users, and three buckets  *)
(* of one credit, the first of a user's own, the others the organisation's.  *)
EXTENDS Ledger, TLC

CONSTANTS u1, u2, org, s1, s2

MCOwner  == 1 :> u1 @@ 2 :> org @@ 3 :> org
MCAmount == 1 :> 1 @@ 2 :> 1 @@ 3 :> 1
Transactions == Permutations({s1, s2})

MCPrice  == "a" :> 2
=============================================================================
