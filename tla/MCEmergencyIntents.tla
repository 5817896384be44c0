-------------------------- MODULE MCEmergencyIntents --------------------------
(* Small instances of EmergencyIntents: two positions, one or two sources.  *)
EXTENDS EmergencyIntents, TLC

CONSTANTS p, q      \* two positions of the account

MCScopes == {p, q}
MCSources == {"l5", "mtm"}

\* Over working storage the process follows one that used up an id and may crash
\* itself; over storage that may fail it is the first and does not crash.
MCUsedIds == [f \in BOOLEAN |-> IF f THEN 0 ELSE 1]
MCAllUsed == [f \in BOOLEAN |-> 1]
MCIds == [f \in BOOLEAN |-> IF f THEN 3 ELSE 4]
MCCrashes == [f \in BOOLEAN |-> IF f THEN 0 ELSE 1]

MCSymmetry == Permutations({p, q})

====
