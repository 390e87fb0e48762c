------------------------- MODULE MCStoreTransactions -------------------------
(* StoreTransactions for TLC: two admins and two workers that race on the  *)
(* same keys.                                                              *)
EXTENDS StoreTransactions

CONSTANTS e1, w1, w2, a1, a2
===============================================================================
