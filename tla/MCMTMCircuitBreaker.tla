------------------------- MODULE MCMTMCircuitBreaker -------------------------
(* Small instances of MTMCircuitBreaker: one or two accounts, two checks,   *)
(* one writer, two or three sessions.                                       *)
EXTENDS MTMCircuitBreaker, TLC

CONSTANTS a, b, c1, c2, w1      \* accounts, checks, a writer

MCTwo == {a, b}
MCChecks == {c1, c2}
MCWriters == {w1}
MCSymmetry == Permutations({c1, c2})

\* Two accounts over working storage, one over storage that may fail.
MCBusied == [f \in BOOLEAN |-> IF f THEN {a} ELSE {a, b}]
MCStamps == [f \in BOOLEAN |-> IF f THEN 8 ELSE 7]

====
