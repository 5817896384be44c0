--------------------------- MODULE MCOrderLifecycle ---------------------------
(* Small instances of OrderLifecycle: two writes of one account with equal  *)
(* orders, one of them an emergency reduction where the ledger may fail.    *)
EXTENDS OrderLifecycle, TLC

CONSTANTS w1, w2, i1        \* writes and their order intent

MCTwo == {w1, w2}
MCAlike == (w1 :> i1) @@ (w2 :> i1)
MCFaults == {"rolled_back", "committed"}
MCOneEmergency == [f \in BOOLEAN |-> IF f THEN {{w1}, {w2}} ELSE {{}}]

\* A working ledger is checked with a lapsing lease and two snapshots.
MCWorking == [f \in BOOLEAN |-> ~f]
MCNever == [f \in BOOLEAN |-> FALSE]
MCSnapshots == [f \in BOOLEAN |-> IF f THEN 1 ELSE 2]

MCSymmetryTwo == Permutations({w1, w2})

====
