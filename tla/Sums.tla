-------------------------------- MODULE Sums --------------------------------
(***************************************************************************)
(* Totals of amounts.  A function from keys to natural numbers (a deposit  *)
(* per listing, a value per offer, a balance per token) is read as a heap  *)
(* of unit coins, one pair <<key, n>> for every unit held at the key; the  *)
(* total is the number of coins.  Counting coins instead of adding up      *)
(* recursively lets the cardinality theorems of finite sets prove facts    *)
(* about totals over any finite set of keys.                               *)
(***************************************************************************)
EXTENDS Integers, FiniteSets

Coins(f) == UNION {{k} \X (1 .. f[k]) : k \in DOMAIN f}

Total(f) == Cardinality(Coins(f))
=============================================================================
