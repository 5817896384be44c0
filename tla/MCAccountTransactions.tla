------------------------- MODULE MCAccountTransactions -------------------------
(* Two operations of any kind on one account.                              *)
EXTENDS AccountTransactions, TLC

CONSTANTS o1, o2            \* operation ids

MCOps == {o1, o2}
MCSymmetry == Permutations(MCOps)

====
