---------------------------- MODULE EmergencyLatch ----------------------------
(***************************************************************************)
(* What an emergency control promises the accounts it guards, and all that  *)
(* the order path relies on: the promise of broker_write_admission and of   *)
(* the dispatch behind it, without the counters, locks, journals and        *)
(* deadlines that keep it.  KillSwitch implements it for all accounts at    *)
(* once, MTMCircuitBreaker for each account on its own.                     *)
(***************************************************************************)
CONSTANT Accounts

VARIABLES
    open,           \* whether normal writes are admitted
    sweeping,       \* accounts whose positions are being closed
    writing         \* accounts with an admitted normal write

latch == <<open, sweeping, writing>>

Init == open = TRUE /\ sweeping = {} /\ writing = {}

\* A normal write enters while the latch is open, or opens it because nothing is
\* being swept any more.
Admit(a) ==
    /\ open \/ sweeping = {}
    /\ open' = TRUE /\ writing' = writing \cup {a}
    /\ UNCHANGED sweeping

Finish(a) == writing' = writing \ {a} /\ UNCHANGED <<open, sweeping>>

Close == open' = FALSE /\ UNCHANGED <<sweeping, writing>>

\* Accounts are swept behind a closed latch, when no write is left in flight and
\* by nobody else.
Sweep(S) ==
    /\ ~open /\ writing = {} /\ S \cap sweeping = {}
    /\ sweeping' = sweeping \cup S
    /\ UNCHANGED <<open, writing>>

Swept(S) == sweeping' = sweeping \ S /\ UNCHANGED <<open, writing>>

Open == sweeping = {} /\ open' = TRUE /\ UNCHANGED <<sweeping, writing>>

\* The process dies; until its successor has read the journal nothing is admitted.
Crash == open' = FALSE /\ sweeping' = {} /\ writing' = {}

Next ==
    \/ \E a \in Accounts : Admit(a) \/ Finish(a)
    \/ \E S \in SUBSET Accounts : Sweep(S) \/ Swept(S)
    \/ Close \/ Open \/ Crash

Spec == Init /\ [][Next]_latch

====
