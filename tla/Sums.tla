--------------------------------- MODULE Sums ---------------------------------
(* The sum of a function over a set, as the ledger adds up its columns.       *)
EXTENDS Integers, FiniteSetsExt

Total(f, S) == MapThenSumSet(LAMBDA x : f[x], S)
=============================================================================
