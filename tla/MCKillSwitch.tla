---------------------------- MODULE MCKillSwitch ----------------------------
(* Small instances of KillSwitch. *)
EXTENDS KillSwitch, TLC

CONSTANTS s1, s2

\* An operator may reach every account, or only the first.
MCTargetSets == {{s1}, {s1, s2}}

\* Disjoint and overlapping snapshots for a dispatcher without a lease.
MCOverlapping == {{s2}, {s1, s2}}

MCReplaceOnly == {TRUE}
MCAnyReset == BOOLEAN
MCNoReset == {}

\* Three activations over a working journal, two over one that may fail.
MCSequences == [f \in BOOLEAN |-> IF f THEN 2 ELSE 3]

\* Activation threads are interchangeable (safety runs only).
MCThreads == Permutations(Activations)
====
