------------------------- MODULE OrderLifecycleProofs -------------------------
(***************************************************************************)
(* Proofs about OrderLifecycle, for any set of writes, any faults of the    *)
(* ledger and any bounds.  The inductive invariant has one part for each    *)
(* concern: the router generations, where a write is against what its row   *)
(* says, the resolutions, the in-memory faults and receipts, the health row *)
(* and what the snapshots have seen.                                        *)
(***************************************************************************)
EXTENDS OrderLifecycle, TLAPS

-----------------------------------------------------------------------------
(* The inductive invariant *)

Snapshots == [completed : SUBSET Writes, orders : SUBSET Writes]

LedgerType ==
    /\ state \in [Writes -> DispatchStates]
    /\ claim \in [Writes -> Writes \cup {None}]
    /\ resolution \in [Writes -> [status : {"none", "PENDING_AUDIT", "PENDING_ROUTER_CLEAR", "COMMITTED"},
                                  decision : Writes \cup {None}, snapshot : 0..MaxSnapshots[faulty]]]
    /\ health \in {"HEALTHY", "outcome_unknown", "manual_critical"}
    /\ firstSeen \in [Writes -> SUBSET Writes]

SnapshotType ==
    /\ snapshots \in Seq(Snapshots) /\ Len(snapshots) <= MaxSnapshots[faulty]
    /\ runner \in [at : {"idle", "stamped", "read"}, forced : BOOLEAN, invoked : SUBSET Writes,
                   completed : SUBSET Writes, orders : SUBSET Writes]
    /\ resolver \in [at : {"idle", "trigger", "prepare", "audit", "finalize", "clear", "complete"},
                     attempt : Writes \cup {None}, decision : Writes \cup {None},
                     required : 0..MaxSnapshots[faulty]]
    /\ runner.at # "idle" => Len(snapshots) < MaxSnapshots[faulty]

RouterType ==
    /\ router \in 0..MaxGenerations /\ draining \in 0..MaxGenerations /\ generations \in 0..MaxGenerations
    /\ revoked \subseteq RouterIds
    /\ faults \in [RouterIds -> SUBSET Writes] /\ receipts \in [RouterIds -> SUBSET Writes]

WriteType ==
    /\ pc \in [Writes -> InFlight \cup {"start", "held", "done"}]
    /\ held \in [Writes -> 0..MaxGenerations] /\ attempt \in [Writes -> BOOLEAN]

WorldType ==
    /\ proof \in BOOLEAN /\ crashes \in 0..MaxCrashes
    /\ faulty \in BOOLEAN /\ emergency \subseteq Writes
    /\ book \subseteq applied /\ applied \subseteq entered /\ entered \subseteq Writes

TypeInv == LedgerType /\ SnapshotType /\ RouterType /\ WriteType /\ WorldType

\* The only generation that is not revoked is the published one; the generation
\* that writes is the published or the draining one, and there is only one of them.  A
\* resolution runs against the published one, and waits for the cycle it forced.
GenerationInv ==
    /\ router \in 0..generations /\ draining \in 0..generations
    /\ router # NoRouter => draining = NoRouter
    /\ \A g \in 1..generations : g \notin revoked => g = router
    /\ \A w \in Writes : pc[w] \notin {"start", "done"} => held[w] \in 1..generations
    /\ \A w \in Writes : pc[w] \in InFlight => held[w] \in {router, draining}
    /\ resolver.at # "idle" => router # NoRouter /\ resolver.attempt \in Writes
    /\ runner.forced => resolver.at = "trigger"

\* Where a write is against its row and its adapter: nothing is recorded before the
\* intent, nothing is sent before the marker.
Early == {"start", "held", "admitted", "fault_free", "ready"}
DispatchOf(w) ==
    /\ pc[w] \in Early => state[w] = "none"
    /\ pc[w] \in Early \cup {"prepared", "invoked", "failed"} => w \notin entered
    /\ pc[w] = "prepared" => /\ state[w] \in {"none", "PREPARED"}
                             /\ attempt[w] => state[w] = "PREPARED"
                             /\ w \in Normal => attempt[w]
    /\ pc[w] = "invoked" => /\ state[w] \in {"none", "PREPARED", "INVOKED"}
                            /\ w \in Normal => state[w] = "INVOKED"
    /\ w \in Normal /\ w \in entered => state[w] \notin {"none", "PREPARED", "FAILED_BEFORE_INVOKE"}
DispatchInv == \A w \in Writes : DispatchOf(w)

\* The same over a ledger that keeps what it is told.
FaithfulOf(w) ==
    /\ pc[w] = "prepared" => attempt[w]
    /\ pc[w] \in {"invoked", "inside", "unknown", "returned", "unpersisted"} =>
            attempt[w] /\ state[w] = "INVOKED"
    /\ pc[w] \in {"refresh", "late_refresh", "critical", "fault"} =>
            state[w] \in {"OUTCOME_UNKNOWN"} \cup Confirmed
    /\ w \in entered /\ pc[w] = "done" => state[w] \in {"ACKNOWLEDGED", "OUTCOME_UNKNOWN"} \cup Confirmed
FaithfulInv == ~faulty => \A w \in Writes : FaithfulOf(w)

\* A decision belongs to an attempt whose outcome is unknown until it is recorded,
\* and to a confirmed one after.
ResolutionInv ==
    /\ \A w \in Writes : resolution[w].status = "PENDING_AUDIT" => state[w] = "OUTCOME_UNKNOWN"
    /\ \A w \in Writes :
        state[w] \in Confirmed <=> resolution[w].status \in {"PENDING_ROUTER_CLEAR", "COMMITTED"}
    /\ resolver.at \in {"clear", "complete"} =>
        resolution[resolver.attempt].status = "PENDING_ROUTER_CLEAR"

\* A fault, or the receipt for one, is that of a write that has ended; a completed
\* resolution too.
FaultInv ==
    /\ \A g \in RouterIds : \A w \in faults[g] \cup receipts[g] : pc[w] = "done"
    /\ \A w \in Writes : resolution[w].status = "COMMITTED" => pc[w] = "done"
    /\ SettledStaysClear

\* What the snapshots have seen: every accepted order is in the book or in a snapshot,
\* what a snapshot says was over was over, and an accepted order that was over has been
\* observed by then.
Seen(s) == UNION {snapshots[i].orders : i \in 1..s}
ObservedInv ==
    /\ applied \subseteq book \cup Seen(Len(snapshots))
    /\ runner.completed \subseteq CompletedAttempts
    /\ \A i \in 1..Len(snapshots) : snapshots[i].completed \subseteq CompletedAttempts
WitnessInv ==
    /\ runner.at = "read" => runner.completed \cap applied \subseteq runner.orders \cup Seen(Len(snapshots))
    /\ \A i \in 1..Len(snapshots) : snapshots[i].completed \cap applied \subseteq Seen(i)
    /\ OnlyPredatedIsDenied

-----------------------------------------------------------------------------
(* Pointwise effects of a write's step *)

Stages == InFlight \cup {"start", "held", "done"}

\* What a transaction of the ledger may answer; a ledger that works answers "ok".
LEMMA OutcomeKinds ==
    ASSUME NEW f \in Outcomes
    PROVE  /\ f \in {"ok", "rolled_back", "committed"} /\ (~faulty => f = "ok")
           /\ (Raised(f) <=> f # "ok") /\ (Committed(f) <=> f # "rolled_back")
  BY Zenon, FaultsAssumption DEF Outcomes, Raised, Committed

\* A thread that goes on moves only itself.
LEMMA GotoEffect ==
    ASSUME WriteType, NEW w \in Writes, NEW p \in Stages, Goto(w, p)
    PROVE  /\ WriteType' /\ pc'[w] = p
           /\ p = "done" => held'[w] = NoRouter /\ attempt'[w] = FALSE
           /\ p # "done" => held'[w] = held[w] /\ attempt'[w] = attempt[w]
           /\ \A u \in Writes \ {w} :
                pc'[u] = pc[u] /\ held'[u] = held[u] /\ attempt'[u] = attempt[u]
<1>0. 0 \in 0..MaxGenerations
  BY BoundsAssumption
<1>1. CASE p = "done"
  <2>1. Leave(w)
    BY Zenon, <1>1 DEF Goto
  <2>2. WriteType'
    BY Zenon, <2>1, <1>0 DEF WriteType, Leave, NoRouter
  <2> QED
    BY Zenon, <2>1, <2>2, <1>1 DEF WriteType, Leave
<1>2. CASE p # "done"
  <2>1. pc' = [pc EXCEPT ![w] = p] /\ held' = held /\ attempt' = attempt
    BY Zenon, <1>2 DEF Goto
  <2>2. WriteType'
    BY Zenon, <2>1 DEF WriteType, Stages
  <2> QED
    BY Zenon, <2>1, <2>2, <1>2 DEF WriteType
<1> QED
  BY Zenon, <1>1, <1>2

\* A row that is written, or not, is the only one that changes.
LEMMA RowEffect ==
    ASSUME state \in [Writes -> DispatchStates], NEW w \in Writes, NEW s \in DispatchStates,
           NEW c \in BOOLEAN, state' = IF c THEN [state EXCEPT ![w] = s] ELSE state
    PROVE  /\ state' \in [Writes -> DispatchStates]
           /\ state'[w] = IF c THEN s ELSE state[w]
           /\ \A u \in Writes \ {w} : state'[u] = state[u]
  BY Zenon

\* A step of w takes it to stage p and its row to s; with a it keeps the attempt, unless
\* it ends.  No other write is touched.
Moves(w, p, a, s) ==
    /\ WriteType' /\ state' \in [Writes -> DispatchStates]
    /\ pc'[w] = p /\ state'[w] = s
    /\ p = "done" => held'[w] = NoRouter /\ attempt'[w] = FALSE
    /\ p # "done" => held'[w] = held[w] /\ attempt'[w] = a
    /\ \A u \in Writes \ {w} : /\ pc'[u] = pc[u] /\ held'[u] = held[u] /\ attempt'[u] = attempt[u]
                               /\ state'[u] = state[u]

LEMMA MovesGoto ==
    ASSUME TypeInv, NEW w \in Writes, NEW p \in Stages, Goto(w, p), UNCHANGED state
    PROVE  Moves(w, p, attempt[w], state[w])
  BY Zenon, GotoEffect DEF Moves, TypeInv, LedgerType

LEMMA MovesRow ==
    ASSUME TypeInv, NEW w \in Writes, NEW p \in Stages, Goto(w, p), NEW s \in DispatchStates,
           NEW c \in BOOLEAN, state' = IF c THEN [state EXCEPT ![w] = s] ELSE state
    PROVE  Moves(w, p, attempt[w], IF c THEN s ELSE state[w])
<1>1. state \in [Writes -> DispatchStates] /\ WriteType
  BY Zenon DEF TypeInv, LedgerType
<1>2. /\ state' \in [Writes -> DispatchStates]
      /\ state'[w] = IF c THEN s ELSE state[w]
      /\ \A u \in Writes \ {w} : state'[u] = state[u]
  BY Zenon, <1>1, RowEffect
<1> QED
  BY Zenon, <1>1, <1>2, GotoEffect DEF Moves

\* The steps of a write that leave its row alone: where each goes.
LEMMA QuietMoves ==
    ASSUME TypeInv, NEW w \in Writes
    PROVE  /\ AdmitWrite(w) => \E p \in {"admitted", "done"} :
                /\ Moves(w, p, attempt[w], state[w]) /\ pc[w] = "held"
                /\ p = "admitted" => proof /\ held[w] \notin revoked
           /\ Refuse(w) => Moves(w, "done", attempt[w], state[w]) /\ pc[w] = "admitted"
           /\ CheckFaults(w) => \E p \in {"ready", "fault_free", "done"} :
                Moves(w, p, attempt[w], state[w]) /\ pc[w] = "admitted"
           /\ AssertWriteReady(w) => \E p \in {"ready", "done"} :
                /\ Moves(w, p, attempt[w], state[w]) /\ pc[w] = "fault_free"
                /\ p = "ready" => WriteReady
           /\ Preempt(w) => Moves(w, "failed", attempt[w], state[w]) /\ pc[w] = "prepared"
           /\ EnterAdapter(w) => \E p \in {"inside", "failed"} :
                Moves(w, p, attempt[w], state[w]) /\ pc[w] = "invoked" /\ (p = "inside" <=> proof)
           /\ AdapterReturns(w) => \E p \in {"returned", "unknown"} :
                Moves(w, p, attempt[w], state[w]) /\ pc[w] = "inside"
           /\ RefreshHealth(w) => \E p \in {"critical", "fault"} :
                Moves(w, p, attempt[w], state[w]) /\ pc[w] \in {"refresh", "late_refresh"}
           /\ MarkHealthCritical(w) => Moves(w, "fault", attempt[w], state[w]) /\ pc[w] = "critical"
           /\ AddFault(w) => Moves(w, "done", attempt[w], state[w]) /\ pc[w] = "fault"
<1>0. \A p \in {"admitted", "done", "ready", "fault_free", "failed", "inside", "returned", "unknown",
               "critical", "fault"} : p \in Stages
  BY Zenon DEF Stages, InFlight
<1>1. ASSUME AdmitWrite(w)
      PROVE  \E p \in {"admitted", "done"} :
                /\ Moves(w, p, attempt[w], state[w]) /\ pc[w] = "held"
                /\ p = "admitted" => proof /\ held[w] \notin revoked
  <2>1. UNCHANGED state /\ pc[w] = "held"
    BY Zenon, <1>1 DEF AdmitWrite, ledgerVars
  <2>2. CASE proof /\ held[w] \notin revoked
    <3>1. Goto(w, "admitted")
      BY Zenon, <1>1, <2>2 DEF AdmitWrite
    <3> QED
      BY Zenon, <3>1, <2>1, <2>2, <1>0, MovesGoto
  <2>3. CASE ~(proof /\ held[w] \notin revoked)
    <3>1. Goto(w, "done")
      BY Zenon, <1>1, <2>3 DEF AdmitWrite
    <3> QED
      BY Zenon, <3>1, <2>1, <1>0, MovesGoto
  <2> QED
    BY Zenon, <2>2, <2>3
<1>2. ASSUME Refuse(w)
      PROVE  Moves(w, "done", attempt[w], state[w]) /\ pc[w] = "admitted"
  <2>1. UNCHANGED state /\ pc[w] = "admitted" /\ Goto(w, "done")
    BY Zenon, <1>2 DEF Refuse, ledgerVars
  <2> QED
    BY Zenon, <2>1, <1>0, MovesGoto
<1>3. ASSUME CheckFaults(w)
      PROVE  \E p \in {"ready", "fault_free", "done"} :
                Moves(w, p, attempt[w], state[w]) /\ pc[w] = "admitted"
  <2>1. UNCHANGED state /\ pc[w] = "admitted" /\ \E p \in {"ready", "fault_free", "done"} : Goto(w, p)
    BY Zenon, <1>3 DEF CheckFaults, ledgerVars
  <2> QED
    BY Zenon, <2>1, <1>0, MovesGoto
<1>4. ASSUME AssertWriteReady(w)
      PROVE  \E p \in {"ready", "done"} :
                /\ Moves(w, p, attempt[w], state[w]) /\ pc[w] = "fault_free"
                /\ p = "ready" => WriteReady
  <2>1. UNCHANGED state /\ pc[w] = "fault_free"
    BY Zenon, <1>4 DEF AssertWriteReady, ledgerVars
  <2>2. CASE WriteReady
    <3>1. \E p \in {"ready", "done"} : Goto(w, p)
      BY Zenon, <1>4 DEF AssertWriteReady
    <3> QED
      BY Zenon, <3>1, <2>1, <2>2, <1>0, MovesGoto
  <2>3. CASE ~WriteReady
    <3>1. Goto(w, "done")
      BY Zenon, <1>4, <2>3 DEF AssertWriteReady
    <3> QED
      BY Zenon, <3>1, <2>1, <1>0, MovesGoto
  <2> QED
    BY Zenon, <2>2, <2>3
<1>5. ASSUME Preempt(w)
      PROVE  Moves(w, "failed", attempt[w], state[w]) /\ pc[w] = "prepared"
  <2>1. UNCHANGED state /\ pc[w] = "prepared" /\ Goto(w, "failed")
    BY Zenon, <1>5 DEF Preempt, ledgerVars
  <2> QED
    BY Zenon, <2>1, <1>0, MovesGoto
<1>6. ASSUME EnterAdapter(w)
      PROVE  \E p \in {"inside", "failed"} :
                Moves(w, p, attempt[w], state[w]) /\ pc[w] = "invoked" /\ (p = "inside" <=> proof)
  <2>1. UNCHANGED state /\ pc[w] = "invoked"
        /\ ((proof /\ Goto(w, "inside")) \/ (~proof /\ Goto(w, "failed")))
    BY Zenon, <1>6 DEF EnterAdapter, ledgerVars
  <2> QED
    BY Zenon, <2>1, <1>0, MovesGoto
<1>7. ASSUME AdapterReturns(w)
      PROVE  \E p \in {"returned", "unknown"} :
                Moves(w, p, attempt[w], state[w]) /\ pc[w] = "inside"
  <2>1. UNCHANGED state /\ pc[w] = "inside" /\ \E p \in {"returned", "unknown"} : Goto(w, p)
    BY Zenon, <1>7 DEF AdapterReturns, ledgerVars
  <2> QED
    BY Zenon, <2>1, <1>0, MovesGoto
<1>8. ASSUME RefreshHealth(w)
      PROVE  \E p \in {"critical", "fault"} :
                Moves(w, p, attempt[w], state[w]) /\ pc[w] \in {"refresh", "late_refresh"}
  <2>1. UNCHANGED state /\ pc[w] \in {"refresh", "late_refresh"}
    BY Zenon, <1>8 DEF RefreshHealth
  <2>2. PICK f \in Outcomes : Goto(w, IF Raised(f) /\ pc[w] = "late_refresh" THEN "critical" ELSE "fault")
    BY Zenon, <1>8 DEF RefreshHealth
  <2>3. \E p \in {"critical", "fault"} : Goto(w, p)
    BY Zenon, <2>2
  <2> QED
    BY Zenon, <2>1, <2>3, <1>0, MovesGoto
<1>9. ASSUME MarkHealthCritical(w)
      PROVE  Moves(w, "fault", attempt[w], state[w]) /\ pc[w] = "critical"
  <2>1. UNCHANGED state /\ pc[w] = "critical" /\ Goto(w, "fault")
    BY Zenon, <1>9 DEF MarkHealthCritical
  <2> QED
    BY Zenon, <2>1, <1>0, MovesGoto
<1>10. ASSUME AddFault(w)
       PROVE  Moves(w, "done", attempt[w], state[w]) /\ pc[w] = "fault"
  <2>1. UNCHANGED state /\ pc[w] = "fault" /\ Goto(w, "done")
    BY Zenon, <1>10 DEF AddFault, ledgerVars
  <2> QED
    BY Zenon, <2>1, <1>0, MovesGoto
<1> QED
  BY Zenon, <1>1, <1>2, <1>3, <1>4, <1>5, <1>6, <1>7, <1>8, <1>9, <1>10

\* The caller's router is the published one.
LEMMA ObtainMoves ==
    ASSUME TypeInv, NEW w \in Writes, Obtain(w)
    PROVE  /\ WriteType' /\ pc[w] = "start" /\ router # NoRouter /\ UNCHANGED <<state, attempt>>
           /\ pc'[w] = "held" /\ held'[w] = router
           /\ \A u \in Writes \ {w} : pc'[u] = pc[u] /\ held'[u] = held[u]
  BY Zenon DEF Obtain, TypeInv, WriteType, RouterType, ledgerVars

\* The steps of a write that record: where each goes and what it leaves in the row.
LEMMA PrepareMoves ==
    ASSUME TypeInv, NEW w \in Writes, PrepareDispatch(w)
    PROVE  \E f \in Outcomes : /\ pc[w] = "ready"
             /\ Moves(w, IF Raised(f) /\ w \in Normal THEN "done" ELSE "prepared", ~Raised(f),
                      IF Committed(f) THEN "PREPARED" ELSE state[w])
<1>1. PICK f \in Outcomes :
        /\ state' = IF Committed(f) THEN [state EXCEPT ![w] = "PREPARED"] ELSE state
        /\ IF Raised(f) /\ w \in Normal THEN Leave(w)
           ELSE /\ pc' = [pc EXCEPT ![w] = "prepared"] /\ UNCHANGED held
                /\ attempt' = [attempt EXCEPT ![w] = ~Raised(f)]
  BY Zenon DEF PrepareDispatch
<1>2. pc[w] = "ready" /\ WriteType /\ state \in [Writes -> DispatchStates]
  BY Zenon DEF PrepareDispatch, TypeInv, LedgerType
<1>3. Committed(f) \in BOOLEAN /\ Raised(f) \in BOOLEAN /\ "PREPARED" \in DispatchStates
      /\ "done" \in Stages /\ "prepared" \in Stages
  BY Zenon DEF Committed, Raised, DispatchStates, Stages, InFlight
<1>4. /\ state' \in [Writes -> DispatchStates]
      /\ state'[w] = IF Committed(f) THEN "PREPARED" ELSE state[w]
      /\ \A u \in Writes \ {w} : state'[u] = state[u]
  BY Zenon, <1>1, <1>2, <1>3, RowEffect
<1>5. CASE Raised(f) /\ w \in Normal
  <2>1. Goto(w, "done")
    BY Zenon, <1>1, <1>5 DEF Goto
  <2> QED
    BY Zenon, <2>1, <1>2, <1>3, <1>4, <1>5, GotoEffect DEF Moves
<1>6. CASE ~(Raised(f) /\ w \in Normal)
  <2>1. /\ pc' = [pc EXCEPT ![w] = "prepared"] /\ held' = held
        /\ attempt' = [attempt EXCEPT ![w] = ~Raised(f)]
    BY Zenon, <1>1, <1>6
  <2>2. WriteType'
    BY Zenon, <2>1, <1>2, <1>3 DEF WriteType, Stages
  <2>3. /\ pc'[w] = "prepared" /\ held'[w] = held[w] /\ attempt'[w] = ~Raised(f)
        /\ \A u \in Writes \ {w} : pc'[u] = pc[u] /\ held'[u] = held[u] /\ attempt'[u] = attempt[u]
    BY Zenon, <2>1, <1>2, <1>3 DEF WriteType
  <2> QED
    BY Zenon, <2>2, <2>3, <1>2, <1>4, <1>6 DEF Moves
<1> QED
  BY Zenon, <1>5, <1>6

LEMMA MarkInvokedMoves ==
    ASSUME TypeInv, NEW w \in Writes, MarkInvoked(w)
    PROVE  \E f \in Outcomes : /\ pc[w] = "prepared"
             /\ Moves(w, IF attempt[w] /\ Raised(f) /\ w \in Normal THEN "failed" ELSE "invoked",
                      attempt[w], IF attempt[w] /\ Committed(f) THEN "INVOKED" ELSE state[w])
<1>1. PICK f \in Outcomes :
        /\ state' = IF attempt[w] /\ Committed(f) THEN [state EXCEPT ![w] = "INVOKED"] ELSE state
        /\ Goto(w, IF attempt[w] /\ Raised(f) /\ w \in Normal THEN "failed" ELSE "invoked")
  BY Zenon DEF MarkInvoked
<1>2. pc[w] = "prepared" /\ (attempt[w] /\ Committed(f)) \in BOOLEAN /\ "INVOKED" \in DispatchStates
      /\ (IF attempt[w] /\ Raised(f) /\ w \in Normal THEN "failed" ELSE "invoked") \in Stages
  BY Zenon DEF MarkInvoked, DispatchStates, Stages, InFlight
<1> QED
  BY Zenon, <1>1, <1>2, MovesRow

LEMMA RecordFailedMoves ==
    ASSUME TypeInv, NEW w \in Writes, RecordFailedBeforeInvoke(w)
    PROVE  \E f \in Outcomes : /\ pc[w] = "failed"
             /\ Moves(w, "done", attempt[w], IF attempt[w] /\ state[w] = "PREPARED" /\ Committed(f)
                                             THEN "FAILED_BEFORE_INVOKE" ELSE state[w])
<1>1. PICK f \in Outcomes :
        state' = IF attempt[w] /\ state[w] = "PREPARED" /\ Committed(f)
                 THEN [state EXCEPT ![w] = "FAILED_BEFORE_INVOKE"] ELSE state
  BY Zenon DEF RecordFailedBeforeInvoke
<1>2. pc[w] = "failed" /\ Goto(w, "done") /\ (attempt[w] /\ state[w] = "PREPARED" /\ Committed(f)) \in BOOLEAN
      /\ "FAILED_BEFORE_INVOKE" \in DispatchStates /\ "done" \in Stages
  BY Zenon DEF RecordFailedBeforeInvoke, DispatchStates, Stages
<1> QED
  BY Zenon, <1>1, <1>2, MovesRow

LEMMA MarkUnknownMoves ==
    ASSUME TypeInv, NEW w \in Writes, MarkOutcomeUnknown(w)
    PROVE  \E f \in Outcomes, p \in {"done", "late_refresh", "refresh", "critical", "fault"} :
             /\ pc[w] \in {"unknown", "unpersisted"}
             /\ p = "done" <=> ~attempt[w]
             /\ Moves(w, p, attempt[w], IF attempt[w] /\ state[w] = "INVOKED" /\ Committed(f)
                                        THEN "OUTCOME_UNKNOWN" ELSE state[w])
<1>1. PICK f \in Outcomes :
        /\ state' = IF attempt[w] /\ state[w] = "INVOKED" /\ Committed(f)
                    THEN [state EXCEPT ![w] = "OUTCOME_UNKNOWN"] ELSE state
        /\ Goto(w, IF ~attempt[w] THEN "done"
                   ELSE IF state[w] = "INVOKED" /\ ~Raised(f)
                        THEN IF pc[w] = "unpersisted" THEN "late_refresh" ELSE "refresh"
                        ELSE IF pc[w] = "unpersisted" THEN "critical" ELSE "fault")
  BY Zenon DEF MarkOutcomeUnknown
<1>2. pc[w] \in {"unknown", "unpersisted"} /\ (attempt[w] /\ state[w] = "INVOKED" /\ Committed(f)) \in BOOLEAN
      /\ "OUTCOME_UNKNOWN" \in DispatchStates
      /\ \A p \in {"done", "late_refresh", "refresh", "critical", "fault"} : p \in Stages
  BY Zenon DEF MarkOutcomeUnknown, DispatchStates, Stages, InFlight
<1>3. \E p \in {"done", "late_refresh", "refresh", "critical", "fault"} :
        Goto(w, p) /\ (p = "done" <=> ~attempt[w])
  BY Zenon, <1>1
<1> QED
  BY Zenon, <1>1, <1>2, <1>3, MovesRow

LEMMA AcknowledgeMoves ==
    ASSUME TypeInv, NEW w \in Writes, Acknowledge(w)
    PROVE  \E f \in Outcomes, p \in {"done", "unpersisted"} :
             LET legal == state[w] = "INVOKED" /\ Unclaimed(w, w)
                 written == attempt[w] /\ legal /\ Committed(f)
             IN  /\ pc[w] = "returned"
                 /\ p = "done" <=> ~attempt[w] \/ (legal /\ ~Raised(f))
                 /\ Moves(w, p, attempt[w], IF written THEN "ACKNOWLEDGED" ELSE state[w])
                 /\ claim' = IF written THEN [claim EXCEPT ![w] = w] ELSE claim
<1> DEFINE legal == state[w] = "INVOKED" /\ Unclaimed(w, w)
           written(f) == attempt[w] /\ legal /\ Committed(f)
<1>1. PICK f \in Outcomes :
        /\ state' = IF written(f) THEN [state EXCEPT ![w] = "ACKNOWLEDGED"] ELSE state
        /\ claim' = IF written(f) THEN [claim EXCEPT ![w] = w] ELSE claim
        /\ Goto(w, IF ~attempt[w] \/ (legal /\ ~Raised(f)) THEN "done" ELSE "unpersisted")
  BY Zenon DEF Acknowledge
<1>2. pc[w] = "returned" /\ written(f) \in BOOLEAN /\ "ACKNOWLEDGED" \in DispatchStates
      /\ \A p \in {"done", "unpersisted"} : p \in Stages
  BY Zenon DEF Acknowledge, DispatchStates, Stages, InFlight
<1>3. \E p \in {"done", "unpersisted"} :
        Goto(w, p) /\ (p = "done" <=> ~attempt[w] \/ (legal /\ ~Raised(f)))
  BY Zenon, <1>1
<1> HIDE DEF legal, written
<1>4. PICK p \in {"done", "unpersisted"} :
        Goto(w, p) /\ (p = "done" <=> ~attempt[w] \/ (legal /\ ~Raised(f)))
  BY Zenon, <1>3
<1>5. Moves(w, p, attempt[w], IF written(f) THEN "ACKNOWLEDGED" ELSE state[w])
  BY Zenon, <1>1, <1>2, <1>4, MovesRow
<1> QED
  BY Zenon, <1>1, <1>2, <1>4, <1>5 DEF legal, written

\* What no step of a write touches, and the one step that touches each of the rest.
LEMMA WriteFrame ==
    ASSUME NEW w \in Writes, WriteStep(w)
    PROVE  /\ UNCHANGED <<resolution, snapshots, firstSeen, router, draining, generations, receipts,
                          runner, resolver, proof, crashes, faulty, emergency>>
           /\ Acknowledge(w) \/ UNCHANGED claim
           /\ RefreshHealth(w) \/ MarkHealthCritical(w) \/ UNCHANGED health
           /\ EnterAdapter(w) \/ UNCHANGED <<entered, applied, book>>
           /\ AddFault(w) \/ UNCHANGED faults
           /\ ((AdmitWrite(w) \/ Preempt(w) \/ EnterAdapter(w)) /\ RequireProof(w)) \/ UNCHANGED revoked
<1> USE DEF ledgerVars, routerVars, worldVars, settings, brokerVars
<1>1. CASE Obtain(w)
  BY Zenon, <1>1 DEF Obtain
<1>2. CASE AdmitWrite(w)
  BY Zenon, <1>2 DEF AdmitWrite
<1>3. CASE Refuse(w)
  BY Zenon, <1>3 DEF Refuse
<1>4. CASE CheckFaults(w)
  BY Zenon, <1>4 DEF CheckFaults
<1>5. CASE AssertWriteReady(w)
  BY Zenon, <1>5 DEF AssertWriteReady
<1>6. CASE PrepareDispatch(w)
  BY Zenon, <1>6 DEF PrepareDispatch
<1>7. CASE MarkInvoked(w)
  BY Zenon, <1>7 DEF MarkInvoked
<1>8. CASE Preempt(w)
  BY Zenon, <1>8 DEF Preempt
<1>9. CASE EnterAdapter(w)
  BY Zenon, <1>9 DEF EnterAdapter
<1>10. CASE AdapterReturns(w)
  BY Zenon, <1>10 DEF AdapterReturns
<1>11. CASE RecordFailedBeforeInvoke(w)
  BY Zenon, <1>11 DEF RecordFailedBeforeInvoke
<1>12. CASE MarkOutcomeUnknown(w)
  BY Zenon, <1>12 DEF MarkOutcomeUnknown
<1>13. CASE RefreshHealth(w)
  BY Zenon, <1>13 DEF RefreshHealth
<1>14. CASE Acknowledge(w)
  BY Zenon, <1>14 DEF Acknowledge
<1>15. CASE MarkHealthCritical(w)
  BY Zenon, <1>15 DEF MarkHealthCritical
<1>16. CASE AddFault(w)
  BY Zenon, <1>16 DEF AddFault
<1> QED
  BY Zenon, <1>1, <1>2, <1>3, <1>4, <1>5, <1>6, <1>7, <1>8, <1>9, <1>10, <1>11, <1>12, <1>13,
     <1>14, <1>15,
     <1>16, Zenon DEF WriteStep

\* How a row may advance in a step of its write.
Advances(a, b) ==
    \/ a = b
    \/ a = "none" /\ b = "PREPARED"
    \/ a = "PREPARED" /\ b \in {"INVOKED", "FAILED_BEFORE_INVOKE"}
    \/ a = "INVOKED" /\ b \in {"ACKNOWLEDGED", "OUTCOME_UNKNOWN"}

\* A step of a write moves that write alone, its row only forwards; a write that has
\* ended takes no step and none begins again.
LEMMA WriteMoves ==
    ASSUME TypeInv, DispatchInv, NEW w \in Writes, WriteStep(w)
    PROVE  /\ WriteType' /\ state' \in [Writes -> DispatchStates]
           /\ Advances(state[w], state'[w])
           /\ pc[w] # "done" /\ pc'[w] # "start"
           /\ \A u \in Writes \ {w} :
                pc'[u] = pc[u] /\ held'[u] = held[u] /\ attempt'[u] = attempt[u] /\ state'[u] = state[u]
<1>0. DispatchOf(w) /\ state \in [Writes -> DispatchStates]
  BY Zenon DEF DispatchInv, TypeInv, LedgerType
<1>1. CASE Obtain(w)
  BY Zenon, <1>1, <1>0, ObtainMoves DEF Advances
<1>2. CASE \/ AdmitWrite(w) \/ Refuse(w) \/ CheckFaults(w) \/ AssertWriteReady(w) \/ Preempt(w)
           \/ EnterAdapter(w) \/ AdapterReturns(w) \/ RefreshHealth(w) \/ MarkHealthCritical(w) \/ AddFault(w)
  <2>1. PICK p \in Stages \ {"start"} : Moves(w, p, attempt[w], state[w]) /\ pc[w] # "done"
    <3>1. {"admitted", "done", "ready", "fault_free", "failed", "inside", "returned", "unknown",
           "critical", "fault"} \subseteq Stages \ {"start"}
      BY Zenon DEF Stages, InFlight
    <3> QED
      BY Zenon, <1>2, <3>1, QuietMoves
  <2> QED
    BY Zenon, <2>1 DEF Moves, Advances
<1>3. CASE PrepareDispatch(w)
  BY Zenon, <1>3, <1>0, PrepareMoves DEF Moves, Advances, DispatchOf, Early
<1>4. CASE MarkInvoked(w)
  BY Zenon, <1>4, <1>0, MarkInvokedMoves DEF Moves, Advances, DispatchOf
<1>5. CASE RecordFailedBeforeInvoke(w)
  BY Zenon, <1>5, <1>0, RecordFailedMoves DEF Moves, Advances
<1>6. CASE MarkOutcomeUnknown(w)
  BY Zenon, <1>6, <1>0, MarkUnknownMoves DEF Moves, Advances
<1>7. CASE Acknowledge(w)
  BY Zenon, <1>7, <1>0, AcknowledgeMoves DEF Moves, Advances
<1> QED
  BY Zenon, <1>1, <1>2, <1>3, <1>4, <1>5, <1>6, <1>7 DEF WriteStep

-----------------------------------------------------------------------------
(* Types *)

\* The bound on snapshots is a number, whichever ledger runs.
LEMMA SnapshotBound ==
    ASSUME faulty \in BOOLEAN
    PROVE  MaxSnapshots[faulty] \in Nat
  BY Zenon, BoundsAssumption

LEMMA TypeInit ==
    ASSUME Init
    PROVE  TypeInv
<1>0. faulty \in BOOLEAN /\ emergency \subseteq Writes
  BY Zenon, FaultsAssumption, WritesAssumption DEF Init
<1>1. MaxSnapshots[faulty] \in Nat /\ 0 \in 0..MaxSnapshots[faulty]
  BY <1>0, SnapshotBound
<1>2. LedgerType
  BY Zenon, <1>1 DEF Init, LedgerType, DispatchStates, NoResolution
<1>3. SnapshotType
  <2>1. snapshots = <<>> /\ runner = IdleRunner /\ resolver = IdleResolver
    BY Zenon DEF Init
  <2>2. snapshots \in Seq(Snapshots) /\ Len(snapshots) <= MaxSnapshots[faulty]
    BY <2>1, <1>1
  <2> QED
    BY Zenon, <2>1, <2>2, <1>1 DEF SnapshotType, IdleRunner, IdleResolver
<1>4. RouterType
  BY BoundsAssumption DEF Init, RouterType, NoRouter
<1>5. WriteType
  BY BoundsAssumption DEF Init, WriteType, NoRouter
<1>6. WorldType
  <2>1. proof = TRUE /\ crashes = 0 /\ entered = {} /\ applied = {} /\ book = {}
    BY Zenon DEF Init
  <2>2. 0 \in 0..MaxCrashes
    BY BoundsAssumption
  <2> QED
    BY Zenon, <2>1, <2>2, <1>0 DEF WorldType
<1> QED
  BY Zenon, <1>2, <1>3, <1>4, <1>5, <1>6 DEF TypeInv

LEMMA TypeWrite ==
    ASSUME TypeInv, GenerationInv, DispatchInv, NEW w \in Writes, WriteStep(w)
    PROVE  TypeInv'
<1>0. /\ UNCHANGED <<resolution, snapshots, firstSeen, router, draining, generations, receipts,
                     runner, resolver, proof, crashes, faulty, emergency>>
      /\ Acknowledge(w) \/ UNCHANGED claim
      /\ RefreshHealth(w) \/ MarkHealthCritical(w) \/ UNCHANGED health
      /\ EnterAdapter(w) \/ UNCHANGED <<entered, applied, book>>
      /\ AddFault(w) \/ UNCHANGED faults
      /\ ((AdmitWrite(w) \/ Preempt(w) \/ EnterAdapter(w)) /\ RequireProof(w)) \/ UNCHANGED revoked
  BY Zenon, WriteFrame
<1>1. WriteType' /\ state' \in [Writes -> DispatchStates]
  BY Zenon, WriteMoves
<1>2. LedgerType'
  <2>1. claim' \in [Writes -> Writes \cup {None}]
    <3>1. claim \in [Writes -> Writes \cup {None}]
      BY Zenon DEF TypeInv, LedgerType
    <3>2. CASE Acknowledge(w)
      <4>1. claim' = claim \/ claim' = [claim EXCEPT ![w] = w]
        BY Zenon, <3>2, AcknowledgeMoves
      <4> QED
        BY Zenon, <4>1, <3>1
    <3> QED
      BY Zenon, <3>1, <3>2, <1>0
  <2>2. health' \in {"HEALTHY", "outcome_unknown", "manual_critical"}
    <3>1. health \in {"HEALTHY", "outcome_unknown", "manual_critical"}
      BY Zenon DEF TypeInv, LedgerType
    <3>2. CASE RefreshHealth(w)
      BY Zenon, <3>1, <3>2 DEF RefreshHealth, Refreshed
    <3>3. CASE MarkHealthCritical(w)
      BY Zenon, <3>1, <3>3 DEF MarkHealthCritical
    <3> QED
      BY Zenon, <3>1, <3>2, <3>3, <1>0
  <2> QED
    BY Zenon, <2>1, <2>2, <1>0, <1>1 DEF TypeInv, LedgerType
<1>3. SnapshotType'
  BY Zenon, <1>0 DEF TypeInv, SnapshotType
<1>4. RouterType'
  <2>1. revoked' \subseteq RouterIds
    <3>1. CASE AdmitWrite(w) \/ Preempt(w) \/ EnterAdapter(w)
      <4>1. pc[w] \in {"held", "prepared", "invoked"}
        BY Zenon, <3>1 DEF AdmitWrite, Preempt, EnterAdapter
      <4>2. held[w] \in 1..generations /\ generations \in 0..MaxGenerations
        BY Zenon, <4>1 DEF GenerationInv, TypeInv, RouterType
      <4>3. held[w] \in RouterIds
        BY <4>2, BoundsAssumption DEF RouterIds
      <4> QED
        BY Zenon, <4>3, <1>0 DEF RequireProof, TypeInv, RouterType
    <3> QED
      BY Zenon, <3>1, <1>0 DEF TypeInv, RouterType
  <2>2. faults' \in [RouterIds -> SUBSET Writes]
    <3>1. faults \in [RouterIds -> SUBSET Writes]
      BY Zenon DEF TypeInv, RouterType
    <3>2. CASE AddFault(w)
      <4>1. faults' = faults \/ faults' = [faults EXCEPT ![held[w]] = @ \cup {w}]
        BY Zenon, <3>2 DEF AddFault
      <4> QED
        BY ZenonT(30), <4>1, <3>1
    <3> QED
      BY Zenon, <3>1, <3>2, <1>0
  <2> QED
    BY Zenon, <2>1, <2>2, <1>0 DEF TypeInv, RouterType
<1>5. WorldType'
  <2>1. book' \subseteq applied' /\ applied' \subseteq entered' /\ entered' \subseteq Writes
    <3>1. CASE EnterAdapter(w)
      BY Zenon, <3>1 DEF EnterAdapter, brokerVars, TypeInv, WorldType
    <3> QED
      BY Zenon, <3>1, <1>0 DEF TypeInv, WorldType
  <2> QED
    BY Zenon, <2>1, <1>0 DEF TypeInv, WorldType
<1> QED
  BY Zenon, <1>1, <1>2, <1>3, <1>4, <1>5 DEF TypeInv

LEMMA TypeRouter ==
    ASSUME TypeInv, GenerationInv, RetireRouter \/ PublishRouter
    PROVE  TypeInv'
<1>1. UNCHANGED <<ledgerVars, writeVars, runner, resolver, worldVars, brokerVars, generations>>
      \/ (UNCHANGED <<ledgerVars, writeVars, runner, resolver, worldVars, brokerVars>>
          /\ generations < MaxGenerations /\ generations' = generations + 1)
  BY Zenon DEF RetireRouter, PublishRouter
<1>2. LedgerType' /\ SnapshotType' /\ WriteType' /\ WorldType'
  <2>1. UNCHANGED <<ledgerVars, writeVars, runner, resolver, worldVars, brokerVars>>
    BY Zenon, <1>1
  <2>2. LedgerType' /\ SnapshotType'
    BY Zenon, <2>1 DEF TypeInv, LedgerType, SnapshotType, ledgerVars, worldVars, settings
  <2>3. WriteType' /\ WorldType'
    BY Zenon, <2>1 DEF TypeInv, WriteType, WorldType, writeVars, worldVars, settings,
       brokerVars
  <2> QED
    BY Zenon, <2>2, <2>3
<1>3. RouterType'
  <2>0. MaxGenerations \in Nat /\ RouterType
    BY Zenon, BoundsAssumption DEF TypeInv
  <2>1. CASE RetireRouter
    <3> DEFINE retiring == IF router # NoRouter THEN router ELSE draining
    <3>1. /\ retiring # NoRouter /\ revoked' = revoked \cup {retiring} /\ router' = NoRouter
          /\ draining' \in {NoRouter, retiring} /\ generations' = generations
          /\ \/ UNCHANGED <<faults, receipts>>
             \/ /\ faults' = [faults EXCEPT ![retiring] = {}]
                /\ receipts' = [receipts EXCEPT ![retiring] = {}]
      BY Zenon, <2>1 DEF RetireRouter
    <3>2. retiring \in RouterIds /\ NoRouter \in 0..MaxGenerations /\ retiring \in 0..MaxGenerations
      BY <2>0, <3>1 DEF RouterType, RouterIds, NoRouter
    <3> HIDE DEF retiring
    <3>3. revoked' \subseteq RouterIds /\ router' \in 0..MaxGenerations /\ draining' \in 0..MaxGenerations
      BY Zenon, <2>0, <3>1, <3>2 DEF RouterType
    <3>4. faults' \in [RouterIds -> SUBSET Writes] /\ receipts' \in [RouterIds -> SUBSET Writes]
      BY Zenon, <2>0, <3>1 DEF RouterType
    <3> QED
      BY Zenon, <2>0, <3>1, <3>3, <3>4 DEF RouterType
  <2>2. CASE PublishRouter
    <3>1. PICK F \in SUBSET Writes : faults' = [faults EXCEPT ![generations + 1] = F]
      BY Zenon, <2>2 DEF PublishRouter, list_unresolved_outcomes, UnresolvedIn
    <3>2. generations < MaxGenerations /\ generations' = generations + 1 /\ router' = generations + 1
          /\ UNCHANGED <<draining, revoked, receipts>>
      BY Zenon, <2>2 DEF PublishRouter
    <3>3. faults' \in [RouterIds -> SUBSET Writes]
      BY Zenon, <2>0, <3>1 DEF RouterType
    <3> QED
      BY <2>0, <3>2, <3>3 DEF RouterType
  <2> QED
    BY Zenon, <2>1, <2>2
<1> QED
  BY Zenon, <1>2, <1>3 DEF TypeInv

LEMMA TypeSnapshot ==
    ASSUME TypeInv, SnapshotStep
    PROVE  TypeInv'
<1>0. LedgerType /\ SnapshotType /\ MaxSnapshots[faulty] \in Nat /\ WorldType
  BY Zenon, SnapshotBound DEF TypeInv, WorldType
<1>1. RouterType' /\ WriteType'
  <2>1. UNCHANGED <<routerVars, writeVars>>
    BY Zenon DEF SnapshotStep, StampSnapshot, ReadOrderBook, RecordSnapshot, LeaveBook
  <2> QED
    BY Zenon, <2>1 DEF TypeInv, RouterType, WriteType, routerVars, writeVars
<1>2. WorldType' /\ UNCHANGED faulty
  <2>1. UNCHANGED <<proof, crashes, faulty, emergency, entered, applied>>
    BY Zenon DEF SnapshotStep, StampSnapshot, ReadOrderBook, RecordSnapshot, LeaveBook, worldVars,
       settings,
                 brokerVars
  <2>2. book' \subseteq book
    BY Zenon DEF SnapshotStep, StampSnapshot, ReadOrderBook, RecordSnapshot, LeaveBook, brokerVars
  <2> QED
    BY Zenon, <1>0, <2>1, <2>2 DEF WorldType
<1>3. CASE StampSnapshot
  <2>1. UNCHANGED ledgerVars /\ resolver' = resolver /\ Len(snapshots) < MaxSnapshots[faulty]
    BY Zenon, <1>3 DEF StampSnapshot
  <2>2. LedgerType'
    BY Zenon, <1>0, <1>2, <2>1 DEF LedgerType, ledgerVars
  <2>3. runner' \in [at : {"idle", "stamped", "read"}, forced : BOOLEAN, invoked : SUBSET Writes,
                     completed : SUBSET Writes, orders : SUBSET Writes]
    <3>1. PICK a \in {"stamped", "read"}, b \in BOOLEAN, o \in SUBSET Writes :
            runner' = [at |-> a, forced |-> b, invoked |-> InvokedAttempts,
                       completed |-> CompletedAttempts, orders |-> o]
      <4>1. book \in SUBSET Writes /\ {} \in SUBSET Writes
        BY Zenon, <1>0 DEF WorldType
      <4> QED
        BY Zenon, <1>3, <4>1 DEF StampSnapshot
    <3> QED
      BY Zenon, <3>1 DEF InvokedAttempts, CompletedAttempts
  <2>4. UNCHANGED snapshots
    BY Zenon, <2>1 DEF ledgerVars
  <2> QED
    BY Zenon, <1>0, <1>1, <1>2, <2>1, <2>2, <2>3, <2>4 DEF TypeInv, SnapshotType
<1>4. CASE ReadOrderBook
  <2>1. UNCHANGED ledgerVars /\ resolver' = resolver /\ runner.at = "stamped"
        /\ runner' = [runner EXCEPT !.at = "read", !.orders = book]
    BY Zenon, <1>4 DEF ReadOrderBook
  <2>2. LedgerType'
    BY Zenon, <1>0, <1>2, <2>1 DEF LedgerType, ledgerVars
  <2>3. runner' \in [at : {"idle", "stamped", "read"}, forced : BOOLEAN, invoked : SUBSET Writes,
                     completed : SUBSET Writes, orders : SUBSET Writes]
    <3>1. book \in SUBSET Writes
      BY Zenon, <1>0 DEF WorldType
    <3> QED
      BY Zenon, <3>1, <2>1, <1>0 DEF SnapshotType
  <2>4. UNCHANGED snapshots /\ Len(snapshots) < MaxSnapshots[faulty]
    BY Zenon, <2>1, <1>0 DEF ledgerVars, SnapshotType
  <2> QED
    BY Zenon, <1>0, <1>1, <1>2, <2>1, <2>2, <2>3, <2>4 DEF TypeInv, SnapshotType
<1>5. CASE RecordSnapshot
  <2>0. runner.at # "idle" /\ Len(snapshots) < MaxSnapshots[faulty]
        /\ runner.completed \in SUBSET Writes /\ runner.orders \in SUBSET Writes
        /\ runner.invoked \in SUBSET Writes
    BY Zenon, <1>5, <1>0 DEF RecordSnapshot, SnapshotType
  <2>1. PICK adopted \in BOOLEAN, answered \in BOOLEAN :
          /\ snapshots' = IF adopted
                          THEN Append(snapshots, [completed |-> runner.completed, orders |-> runner.orders])
                          ELSE snapshots
          /\ firstSeen' = IF adopted
                          THEN [o \in Writes |-> IF o \in runner.orders \ Observed THEN runner.invoked
                                                 ELSE firstSeen[o]]
                          ELSE firstSeen
          /\ resolver' = IF ~runner.forced THEN resolver
                         ELSE IF answered
                              THEN [resolver EXCEPT !.at = "prepare", !.required = Len(snapshots) + 1]
                              ELSE IdleResolver
    BY Zenon, <1>5 DEF RecordSnapshot
  <2>2. snapshots' \in Seq(Snapshots) /\ Len(snapshots') <= MaxSnapshots[faulty]
    <3>1. [completed |-> runner.completed, orders |-> runner.orders] \in Snapshots
      BY Zenon, <2>0 DEF Snapshots
    <3> QED
      BY <2>0, <2>1, <3>1, <1>0 DEF SnapshotType
  <2>3. firstSeen' \in [Writes -> SUBSET Writes]
    BY Zenon, <2>0, <2>1, <1>0 DEF LedgerType
  <2>4. resolver' \in [at : {"idle", "trigger", "prepare", "audit", "finalize", "clear", "complete"},
                       attempt : Writes \cup {None}, decision : Writes \cup {None},
                       required : 0..MaxSnapshots[faulty]]
    <3>1. Len(snapshots) + 1 \in 0..MaxSnapshots[faulty] /\ 0 \in 0..MaxSnapshots[faulty]
      BY <2>0, <1>0 DEF SnapshotType
    <3>2. \/ resolver' = resolver \/ resolver' = IdleResolver
          \/ resolver' = [resolver EXCEPT !.at = "prepare", !.required = Len(snapshots) + 1]
      BY Zenon, <2>1
    <3>3. CASE resolver' = resolver \/ resolver' = IdleResolver
      BY <3>1, <3>3, <1>0 DEF SnapshotType, IdleResolver
    <3>4. CASE resolver' = [resolver EXCEPT !.at = "prepare", !.required = Len(snapshots) + 1]
      <4>1. resolver \in [at : {"idle", "trigger", "prepare", "audit", "finalize", "clear", "complete"},
                          attempt : Writes \cup {None}, decision : Writes \cup {None},
                          required : 0..MaxSnapshots[faulty]]
        BY Zenon, <1>0 DEF SnapshotType
      <4> QED
        BY Zenon, <4>1, <3>1, <3>4
    <3> QED
      BY Zenon, <3>2, <3>3, <3>4
  <2>5. runner' = IdleRunner /\ UNCHANGED <<state, claim, resolution, health>>
    BY Zenon, <1>5 DEF RecordSnapshot
  <2>6. LedgerType'
    BY Zenon, <1>0, <1>2, <2>3, <2>5 DEF LedgerType
  <2>7. runner' \in [at : {"idle", "stamped", "read"}, forced : BOOLEAN, invoked : SUBSET Writes,
                     completed : SUBSET Writes, orders : SUBSET Writes] /\ runner'.at = "idle"
    BY Zenon, <2>5 DEF IdleRunner
  <2> QED
    BY Zenon, <1>1, <1>2, <2>2, <2>4, <2>6, <2>7 DEF TypeInv, SnapshotType
<1>6. CASE LeaveBook
  <2>1. UNCHANGED <<ledgerVars, runner, resolver>>
    BY Zenon, <1>6 DEF LeaveBook
  <2> QED
    BY Zenon, <1>0, <1>1, <1>2, <2>1 DEF TypeInv, LedgerType, SnapshotType, ledgerVars
<1> QED
  BY Zenon, <1>3, <1>4, <1>5, <1>6 DEF SnapshotStep

ResolverType ==
    resolver \in [at : {"idle", "trigger", "prepare", "audit", "finalize", "clear", "complete"},
                  attempt : Writes \cup {None}, decision : Writes \cup {None},
                  required : 0..MaxSnapshots[faulty]]
ResolutionType ==
    resolution \in [Writes -> [status : {"none", "PENDING_AUDIT", "PENDING_ROUTER_CLEAR", "COMMITTED"},
                               decision : Writes \cup {None}, snapshot : 0..MaxSnapshots[faulty]]]

\* The request moves on, or ends.
LEMMA ResolverMoves ==
    ASSUME TypeInv, UNCHANGED faulty,
           NEW p \in {"prepare", "audit", "finalize", "clear", "complete"}, EndResolution \/ ResolverGoto(p)
    PROVE  /\ ResolverType'
           /\ EndResolution => resolver'.at = "idle"
           /\ ResolverGoto(p) => /\ resolver'.at = p /\ resolver'.attempt = resolver.attempt
                                 /\ resolver'.decision = resolver.decision
                                 /\ resolver'.required = resolver.required
<1>1. ResolverType /\ 0 \in 0..MaxSnapshots[faulty]
  BY SnapshotBound DEF TypeInv, SnapshotType, ResolverType, WorldType
<1>2. CASE EndResolution
  <2>1. resolver' = IdleResolver
    BY Zenon, <1>2 DEF EndResolution
  <2>2. ResolverType' /\ resolver'.at = "idle"
    BY Zenon, <2>1, <1>1 DEF ResolverType, IdleResolver
  <2>3. ~ResolverGoto(p)
    <3>1. ASSUME ResolverGoto(p) PROVE resolver'.at = p
      BY Zenon, <3>1, <1>1 DEF ResolverGoto, ResolverType
    <3> QED
      BY Zenon, <3>1, <2>2
  <2> QED
    BY Zenon, <2>2, <2>3
<1>3. CASE ResolverGoto(p)
  <2>1. resolver' = [resolver EXCEPT !.at = p]
    BY Zenon, <1>3 DEF ResolverGoto
  <2>2. ResolverType'
    BY Zenon, <2>1, <1>1 DEF ResolverType
  <2>3. /\ resolver'.at = p /\ resolver'.attempt = resolver.attempt
        /\ resolver'.decision = resolver.decision /\ resolver'.required = resolver.required
    BY Zenon, <2>1, <1>1 DEF ResolverType
  <2>4. ~EndResolution
    BY <2>3 DEF EndResolution, IdleResolver
  <2> QED
    BY Zenon, <2>2, <2>3, <2>4
<1> QED
  BY Zenon, <1>2, <1>3

\* The steps of a resolution leave the snapshots, the writes, the broker and the
\* published generation alone.
LEMMA ResolutionFrame ==
    ASSUME ResolutionStep
    PROVE  /\ UNCHANGED <<snapshots, firstSeen, router, draining, generations, revoked, pc, held, attempt,
                          proof, crashes, faulty, emergency, entered, applied, book>>
           /\ AbandonTrigger \/ UNCHANGED runner
           /\ ClearFault \/ UNCHANGED <<faults, receipts>>
           /\ FinalizeResolution \/ UNCHANGED <<state, claim>>
           /\ FinalizeResolution \/ CompleteResolution \/ UNCHANGED health
           /\ PrepareResolution \/ FinalizeResolution \/ CompleteResolution \/ UNCHANGED resolution
<1> USE DEF ledgerVars, routerVars, writeVars, worldVars, settings, brokerVars
<1>1. CASE BeginResolution
  BY Zenon, <1>1 DEF BeginResolution
<1>2. CASE AbandonTrigger
  BY Zenon, <1>2 DEF AbandonTrigger
<1>3. CASE PrepareResolution
  BY Zenon, <1>3 DEF PrepareResolution
<1>4. CASE AuditResolution
  BY Zenon, <1>4 DEF AuditResolution
<1>5. CASE FinalizeResolution
  BY Zenon, <1>5 DEF FinalizeResolution
<1>6. CASE ClearFault
  BY Zenon, <1>6 DEF ClearFault
<1>7. CASE CompleteResolution
  BY Zenon, <1>7 DEF CompleteResolution
<1> QED
  BY Zenon, <1>1, <1>2, <1>3, <1>4, <1>5, <1>6, <1>7 DEF ResolutionStep

\* The resolution of w, and no other, gets this status.
Restated(w, s) ==
    ResolutionType' /\ resolution'[w].status = s /\ \A u \in Writes \ {w} : resolution'[u] = resolution[u]

\* prepare_outcome_resolution records a decision for an attempt that has none to clear.
LEMMA PrepareResolutionMoves ==
    ASSUME TypeInv, GenerationInv, PrepareResolution
    PROVE  LET w == resolver.attempt IN
           /\ w \in Writes /\ ResolverType' /\ resolver'.at \in {"idle", "finalize", "audit"}
           /\ resolver'.at # "idle" => resolver'.attempt = w
           /\ \/ UNCHANGED resolution
              \/ /\ resolution[w].status \in {"none", "PENDING_AUDIT"}
                 /\ state[w] \in {"OUTCOME_UNKNOWN"} \cup Confirmed
                 /\ Restated(w, "PENDING_AUDIT")
<1> DEFINE w == resolver.attempt
<1>1. w \in Writes /\ UNCHANGED faulty /\ resolver.at = "prepare"
  BY Zenon DEF GenerationInv, PrepareResolution, worldVars, settings
<1>2. \/ ResolverGoto("finalize") /\ UNCHANGED resolution
      \/ EndResolution /\ UNCHANGED resolution
      \/ /\ state[w] \in {"OUTCOME_UNKNOWN"} \cup Confirmed /\ resolution[w].status \in {"none", "PENDING_AUDIT"}
         /\ \/ UNCHANGED resolution
            \/ resolution' = [resolution EXCEPT ![w] = [status |-> "PENDING_AUDIT", decision |-> resolver.decision,
                                                        snapshot |-> resolver.required]]
         /\ EndResolution \/ ResolverGoto("audit")
  BY Zenon DEF PrepareResolution
<1>3. ResolverType' /\ resolver'.at \in {"idle", "finalize", "audit"}
      /\ (resolver'.at # "idle" => resolver'.attempt = w)
  BY Zenon, <1>1, <1>2, ResolverMoves
<1>4. ASSUME resolution' = [resolution EXCEPT ![w] = [status |-> "PENDING_AUDIT", decision |-> resolver.decision,
                                                      snapshot |-> resolver.required]]
      PROVE  Restated(w, "PENDING_AUDIT")
  <2>1. [status |-> "PENDING_AUDIT", decision |-> resolver.decision, snapshot |-> resolver.required]
           \in [status : {"none", "PENDING_AUDIT", "PENDING_ROUTER_CLEAR", "COMMITTED"},
                decision : Writes \cup {None}, snapshot : 0..MaxSnapshots[faulty]]
    BY Zenon DEF TypeInv, SnapshotType
  <2>2. ResolutionType
    BY Zenon DEF TypeInv, LedgerType, ResolutionType
  <2>3. ResolutionType'
    BY Zenon, <1>1, <1>4, <2>1, <2>2 DEF ResolutionType
  <2>4. resolution'[w].status = "PENDING_AUDIT" /\ \A u \in Writes \ {w} : resolution'[u] = resolution[u]
    BY Zenon, <1>1, <1>4, <2>1, <2>2 DEF ResolutionType
  <2> QED
    BY Zenon, <2>3, <2>4 DEF Restated
<1> QED
  BY Zenon, <1>1, <1>2, <1>3, <1>4

\* A status that is overwritten.
LEMMA RestatedBy ==
    ASSUME TypeInv, UNCHANGED faulty, NEW w \in Writes,
           NEW s \in {"PENDING_ROUTER_CLEAR", "COMMITTED"}, resolution' = [resolution EXCEPT ![w].status = s]
    PROVE  Restated(w, s)
<1>1. ResolutionType
  BY Zenon DEF TypeInv, LedgerType, ResolutionType
<1>2. ResolutionType'
  BY Zenon, <1>1 DEF ResolutionType
<1>3. resolution'[w].status = s /\ \A u \in Writes \ {w} : resolution'[u] = resolution[u]
  BY Zenon, <1>1 DEF ResolutionType
<1> QED
  BY Zenon, <1>2, <1>3 DEF Restated

\* finalize_outcome_resolution applies a pending decision whose evidence holds, to an
\* attempt of unknown outcome and an order nobody else has, or changes nothing.
LEMMA FinalizeMoves ==
    ASSUME TypeInv, GenerationInv, ResolutionInv, FinalizeResolution
    PROVE  LET w == resolver.attempt
               d == resolution[w].decision
               target == IF d = None THEN "CONFIRMED_NOT_APPLIED" ELSE "CONFIRMED_APPLIED"
           IN
           /\ w \in Writes /\ d \in Writes \cup {None}
           /\ ResolverType' /\ resolver'.at \in {"idle", "clear"}
           /\ resolver'.at = "clear" =>
                resolver'.attempt = w /\ resolution'[w].status = "PENDING_ROUTER_CLEAR"
           /\ \/ UNCHANGED <<state, claim, resolution, health>>
              \/ /\ resolution[w].status = "PENDING_AUDIT" /\ state[w] = "OUTCOME_UNKNOWN"
                 /\ Fresh(w, resolution[w].snapshot) /\ Evidence(w, d, resolution[w].snapshot)
                 /\ d # None => Unclaimed(w, d)
                 /\ state' \in [Writes -> DispatchStates] /\ state'[w] = target
                 /\ \A u \in Writes \ {w} : state'[u] = state[u]
                 /\ Restated(w, "PENDING_ROUTER_CLEAR")
                 /\ claim' = IF d # None THEN [claim EXCEPT ![w] = d] ELSE claim
                 /\ health' = Refreshed(state', resolution')
<1> DEFINE w == resolver.attempt
           r == resolution[w]
           d == r.decision
           target == IF d = None THEN "CONFIRMED_NOT_APPLIED" ELSE "CONFIRMED_APPLIED"
<1>1. w \in Writes /\ UNCHANGED faulty
  BY Zenon DEF GenerationInv, FinalizeResolution, worldVars, settings
<1>2. d \in Writes \cup {None} /\ target \in Confirmed
  BY Zenon, <1>1 DEF TypeInv, LedgerType, Confirmed
<1>3. r.status = "PENDING_AUDIT" => state[w] = "OUTCOME_UNKNOWN" /\ state[w] # target
  BY Zenon, <1>1, <1>2 DEF ResolutionInv, Confirmed
<1>4. \/ /\ r.status = "PENDING_AUDIT" /\ Fresh(w, r.snapshot) /\ Evidence(w, d, r.snapshot)
         /\ \/ state[w] = target
            \/ state[w] = "OUTCOME_UNKNOWN" /\ (d # None => Unclaimed(w, d))
         /\ state' = [state EXCEPT ![w] = target]
         /\ resolution' = [resolution EXCEPT ![w].status = "PENDING_ROUTER_CLEAR"]
         /\ claim' = IF d # None THEN [claim EXCEPT ![w] = d] ELSE claim
         /\ health' = Refreshed(state', resolution')
         /\ EndResolution \/ ResolverGoto("clear")
      \/ /\ r.status = "PENDING_ROUTER_CLEAR" /\ ResolverGoto("clear")
         /\ UNCHANGED <<state, claim, resolution, health>>
      \/ EndResolution /\ UNCHANGED <<state, claim, resolution, health>>
  BY Zenon DEF FinalizeResolution
<1>5. ResolverType' /\ resolver'.at \in {"idle", "clear"}
      /\ (resolver'.at = "clear" => ResolverGoto("clear") /\ resolver'.attempt = w)
  BY Zenon, <1>1, <1>4, ResolverMoves
<1>6. CASE UNCHANGED <<state, claim, resolution, health>>
  <2>1. ResolverGoto("clear") => resolution'[w].status = "PENDING_ROUTER_CLEAR"
    <3>1. ~(resolver'.at = "clear" /\ EndResolution)
      BY Zenon, <1>1, ResolverMoves
    <3>2. ResolverGoto("clear") => resolver'.at = "clear"
      BY Zenon, <1>1, ResolverMoves
    <3>3. r.status = "PENDING_AUDIT" /\ resolution' = [resolution EXCEPT ![w].status = "PENDING_ROUTER_CLEAR"]
            => resolution'[w].status = "PENDING_ROUTER_CLEAR"
      BY Zenon, <1>1, RestatedBy DEF Restated
    <3> QED
      BY Zenon, <1>4, <1>6, <3>1, <3>2, <3>3
  <2> QED
    BY Zenon, <1>1, <1>2, <1>5, <1>6, <2>1
<1>7. CASE ~UNCHANGED <<state, claim, resolution, health>>
  <2>1. /\ r.status = "PENDING_AUDIT" /\ Fresh(w, r.snapshot) /\ Evidence(w, d, r.snapshot)
        /\ state[w] = "OUTCOME_UNKNOWN" /\ (d # None => Unclaimed(w, d))
        /\ state' = [state EXCEPT ![w] = target]
        /\ resolution' = [resolution EXCEPT ![w].status = "PENDING_ROUTER_CLEAR"]
        /\ claim' = IF d # None THEN [claim EXCEPT ![w] = d] ELSE claim
        /\ health' = Refreshed(state', resolution')
    BY Zenon, <1>3, <1>4, <1>7
  <2>2. Restated(w, "PENDING_ROUTER_CLEAR")
    BY Zenon, <1>1, <2>1, RestatedBy
  <2>3. state' \in [Writes -> DispatchStates] /\ state'[w] = target /\ \A u \in Writes \ {w} : state'[u] = state[u]
    <3>1. state \in [Writes -> DispatchStates] /\ target \in DispatchStates
      BY Zenon, <1>2 DEF TypeInv, LedgerType, DispatchStates
    <3> HIDE DEF target, w
    <3> QED
      BY Zenon, <3>1, <1>1, <2>1
  <2> QED
    BY Zenon, <1>1, <1>2, <1>5, <2>1, <2>2, <2>3 DEF Restated
<1> QED
  BY Zenon, <1>6, <1>7

\* complete_outcome_resolution commits a resolution that has its receipt and no fault, or
\* changes nothing; the request ends.
LEMMA CompleteMoves ==
    ASSUME TypeInv, GenerationInv, CompleteResolution
    PROVE  LET w == resolver.attempt IN
           /\ w \in Writes /\ ResolverType' /\ resolver'.at = "idle"
           /\ \/ UNCHANGED <<resolution, health>>
              \/ /\ w \in receipts[router] \ faults[router]
                 /\ Restated(w, "COMMITTED") /\ health' = Refreshed(state, resolution')
<1> DEFINE w == resolver.attempt
<1>1. w \in Writes /\ UNCHANGED faulty /\ EndResolution
  BY Zenon DEF GenerationInv, CompleteResolution, worldVars, settings
<1>2. ResolverType' /\ resolver'.at = "idle"
  BY Zenon, <1>1, ResolverMoves
<1>3. \/ UNCHANGED <<resolution, health>>
      \/ /\ w \in receipts[router] \ faults[router]
         /\ resolution' = [resolution EXCEPT ![w].status = "COMMITTED"]
         /\ health' = Refreshed(state, resolution')
  BY Zenon DEF CompleteResolution
<1> QED
  BY Zenon, <1>1, <1>2, <1>3, RestatedBy

\* clear_lifecycle_fault turns a fault of the published generation into a receipt.
LEMMA ClearMoves ==
    ASSUME TypeInv, GenerationInv, ClearFault
    PROVE  LET w == resolver.attempt IN
           /\ w \in Writes /\ router \in RouterIds /\ ResolverType' /\ resolver'.at \in {"idle", "complete"}
           /\ resolver'.at = "complete" => resolver'.attempt = w
           /\ \/ UNCHANGED <<faults, receipts>>
              \/ /\ w \in faults[router]
                 /\ faults' = [faults EXCEPT ![router] = @ \ {w}]
                 /\ receipts' = [receipts EXCEPT ![router] = @ \cup {w}]
<1> DEFINE w == resolver.attempt
<1>1. w \in Writes /\ UNCHANGED faulty /\ router # NoRouter
  BY Zenon DEF GenerationInv, ClearFault, worldVars, settings
<1>2. router \in RouterIds
  BY <1>1, BoundsAssumption DEF TypeInv, RouterType, RouterIds, NoRouter
<1>3. /\ EndResolution \/ ResolverGoto("complete")
      /\ \/ UNCHANGED <<faults, receipts>>
         \/ /\ w \in faults[router]
            /\ faults' = [faults EXCEPT ![router] = @ \ {w}]
            /\ receipts' = [receipts EXCEPT ![router] = @ \cup {w}]
  BY Zenon DEF ClearFault, Clearable
<1>4. ResolverType' /\ resolver'.at \in {"idle", "complete"} /\ (resolver'.at = "complete" => resolver'.attempt = w)
  BY Zenon, <1>1, <1>3, ResolverMoves
<1> QED
  BY Zenon, <1>1, <1>2, <1>3, <1>4

\* The steps that only move the request: begun for a recorded attempt, given up or audited.
LEMMA RequestMoves ==
    ASSUME TypeInv, GenerationInv, BeginResolution \/ AbandonTrigger \/ AuditResolution
    PROVE  /\ ResolverType' /\ resolver'.at \in {"idle", "trigger", "prepare", "finalize"}
           /\ resolver'.at # "idle" => resolver'.attempt \in Writes /\ router # NoRouter
<1>0. UNCHANGED faulty /\ ResolverType /\ 0 \in 0..MaxSnapshots[faulty]
  <2>1. UNCHANGED faulty
    BY Zenon DEF BeginResolution, AbandonTrigger, AuditResolution, worldVars, settings
  <2> QED
    BY <2>1, SnapshotBound DEF TypeInv, SnapshotType, ResolverType, WorldType
<1>1. CASE BeginResolution
  <2>1. PICK w \in Writes, d \in Writes \cup {None}, p \in {"prepare", "trigger"} :
          resolver' = [at |-> p, attempt |-> w, decision |-> d, required |-> 0]
    BY Zenon, <1>1 DEF BeginResolution, list_unresolved_outcomes, UnresolvedIn
  <2>2. ResolverType' /\ resolver'.at \in {"prepare", "trigger"} /\ resolver'.attempt \in Writes
    BY Zenon, <2>1, <1>0 DEF ResolverType
  <2>3. router # NoRouter
    BY Zenon, <1>1 DEF BeginResolution
  <2> QED
    BY Zenon, <2>2, <2>3
<1>2. CASE AbandonTrigger
  <2>1. resolver' = IdleResolver
    BY Zenon, <1>2 DEF AbandonTrigger
  <2> QED
    BY Zenon, <2>1, <1>0 DEF ResolverType, IdleResolver
<1>3. CASE AuditResolution
  <2>1. ResolverGoto("finalize") \/ EndResolution
    BY Zenon, <1>3 DEF AuditResolution
  <2>2. resolver.attempt \in Writes /\ router # NoRouter
    BY Zenon, <1>3 DEF AuditResolution, GenerationInv
  <2> QED
    BY Zenon, <2>1, <2>2, <1>0, ResolverMoves
<1> QED
  BY Zenon, <1>1, <1>2, <1>3

LEMMA TypeResolution ==
    ASSUME TypeInv, GenerationInv, ResolutionInv, ResolutionStep
    PROVE  TypeInv'
<1>0. /\ UNCHANGED <<snapshots, firstSeen, router, draining, generations, revoked, pc, held, attempt,
                     proof, crashes, faulty, emergency, entered, applied, book>>
      /\ AbandonTrigger \/ UNCHANGED runner
      /\ ClearFault \/ UNCHANGED <<faults, receipts>>
      /\ FinalizeResolution \/ UNCHANGED <<state, claim>>
      /\ FinalizeResolution \/ CompleteResolution \/ UNCHANGED health
      /\ PrepareResolution \/ FinalizeResolution \/ CompleteResolution \/ UNCHANGED resolution
  BY Zenon, ResolutionFrame
<1>1. ResolverType'
  BY Zenon, PrepareResolutionMoves, FinalizeMoves, CompleteMoves, ClearMoves, RequestMoves
     DEF ResolutionStep
<1>2. ResolutionType'
  <2>1. ResolutionType
    BY Zenon DEF TypeInv, LedgerType, ResolutionType
  <2>2. CASE UNCHANGED resolution
    BY Zenon, <2>1, <2>2, <1>0 DEF ResolutionType
  <2> QED
    BY Zenon, <2>2, <1>0, PrepareResolutionMoves, FinalizeMoves, CompleteMoves DEF Restated
<1>3. LedgerType'
  <2>0. LedgerType
    BY Zenon DEF TypeInv
  <2>1. state' \in [Writes -> DispatchStates]
    BY Zenon, <2>0, <1>0, FinalizeMoves DEF LedgerType
  <2>2. claim' \in [Writes -> Writes \cup {None}]
    <3>1. claim \in [Writes -> Writes \cup {None}]
      BY Zenon, <2>0 DEF LedgerType
    <3>2. claim' = claim \/ \E w \in Writes, d \in Writes \cup {None} : claim' = [claim EXCEPT ![w] = d]
      BY Zenon, <1>0, FinalizeMoves
    <3> QED
      BY Zenon, <3>1, <3>2
  <2>3. health' \in {"HEALTHY", "outcome_unknown", "manual_critical"}
    <3>1. health \in {"HEALTHY", "outcome_unknown", "manual_critical"}
      BY Zenon, <2>0 DEF LedgerType
    <3>2. health' = health \/ \E s, q : health' = Refreshed(s, q)
      BY Zenon, <1>0, FinalizeMoves, CompleteMoves
    <3> QED
      BY Zenon, <3>1, <3>2 DEF Refreshed
  <2> QED
    BY Zenon, <2>0, <2>1, <2>2, <2>3, <1>0, <1>2 DEF LedgerType, ResolutionType
<1>4. SnapshotType'
  <2>0. SnapshotType
    BY Zenon DEF TypeInv
  <2>1. runner' \in [at : {"idle", "stamped", "read"}, forced : BOOLEAN, invoked : SUBSET Writes,
                     completed : SUBSET Writes, orders : SUBSET Writes] /\ runner'.at = runner.at
    <3>1. CASE AbandonTrigger
      <4>1. runner' = [runner EXCEPT !.forced = FALSE]
        BY Zenon, <3>1 DEF AbandonTrigger
      <4> QED
        BY Zenon, <4>1, <2>0 DEF SnapshotType
    <3> QED
      BY Zenon, <3>1, <1>0, <2>0 DEF SnapshotType
  <2> QED
    BY Zenon, <2>0, <2>1, <1>0, <1>1 DEF SnapshotType, ResolverType
<1>5. RouterType'
  <2>0. RouterType
    BY Zenon DEF TypeInv
  <2>1. faults' \in [RouterIds -> SUBSET Writes] /\ receipts' \in [RouterIds -> SUBSET Writes]
    <3>1. CASE UNCHANGED <<faults, receipts>>
      BY Zenon, <3>1, <2>0 DEF RouterType
    <3>2. CASE ~UNCHANGED <<faults, receipts>>
      <4>1. PICK w \in Writes : /\ faults' = [faults EXCEPT ![router] = @ \ {w}]
                                /\ receipts' = [receipts EXCEPT ![router] = @ \cup {w}]
        BY Zenon, <3>2, <1>0, ClearMoves
      <4> QED
        BY Zenon, <4>1, <2>0 DEF RouterType
    <3> QED
      BY Zenon, <3>1, <3>2
  <2> QED
    BY Zenon, <2>0, <2>1, <1>0 DEF RouterType
<1>6. WriteType' /\ WorldType'
  BY Zenon, <1>0 DEF TypeInv, WriteType, WorldType
<1> QED
  BY Zenon, <1>3, <1>4, <1>5, <1>6 DEF TypeInv

\* What a restart leaves of a row.
LEMMA RecoveredRow ==
    ASSUME TypeInv, NEW w \in Writes
    PROVE  /\ state[w] = "PREPARED" => Recovered(w) = "FAILED_BEFORE_INVOKE"
           /\ state[w] = "INVOKED" => Recovered(w) = "OUTCOME_UNKNOWN"
           /\ state[w] \notin {"PREPARED", "INVOKED"} => Recovered(w) = state[w]
           /\ Recovered(w) \in DispatchStates
<1>1. state[w] \in DispatchStates
  BY Zenon DEF TypeInv, LedgerType
<1>2. /\ state[w] = "PREPARED" => Recovered(w) = "FAILED_BEFORE_INVOKE"
      /\ state[w] = "INVOKED" => Recovered(w) = "OUTCOME_UNKNOWN"
      /\ state[w] \notin {"PREPARED", "INVOKED"} => Recovered(w) = state[w]
  BY Zenon DEF Recovered
<1> QED
  BY Zenon, <1>1, <1>2 DEF DispatchStates

LEMMA CrashMoves ==
    ASSUME TypeInv, CrashAndRestart
    PROVE  /\ WriteType' /\ state' \in [Writes -> DispatchStates]
           /\ \A w \in Writes : /\ state'[w] = Recovered(w)
                                /\ pc'[w] = IF pc[w] = "start" THEN "start" ELSE "done"
                                /\ held'[w] = NoRouter /\ attempt'[w] = FALSE
           /\ router' = NoRouter /\ draining' = NoRouter /\ revoked' = 1..generations
           /\ runner' = IdleRunner /\ resolver' = IdleResolver
           /\ faults' = [g \in RouterIds |-> {}] /\ receipts' = [g \in RouterIds |-> {}]
           /\ UNCHANGED <<claim, resolution, snapshots, firstSeen, generations, faulty, emergency,
                          entered, applied, book>>
<1>1. /\ router' = NoRouter /\ draining' = NoRouter /\ revoked' = 1..generations
      /\ runner' = IdleRunner /\ resolver' = IdleResolver
      /\ faults' = [g \in RouterIds |-> {}] /\ receipts' = [g \in RouterIds |-> {}]
      /\ UNCHANGED <<claim, resolution, snapshots, firstSeen, generations, faulty, emergency,
                     entered, applied, book>>
  BY Zenon DEF CrashAndRestart, settings, brokerVars
<1>2. state' = [w \in Writes |-> Recovered(w)] /\ held' = [w \in Writes |-> NoRouter]
      /\ pc' = [w \in Writes |-> IF pc[w] = "start" THEN "start" ELSE "done"]
      /\ attempt' = [w \in Writes |-> FALSE]
  BY Zenon DEF CrashAndRestart
<1>3. \A w \in Writes : /\ state'[w] = Recovered(w)
                        /\ pc'[w] = IF pc[w] = "start" THEN "start" ELSE "done"
                        /\ held'[w] = NoRouter /\ attempt'[w] = FALSE
  BY Zenon, <1>2
<1>4. state' \in [Writes -> DispatchStates]
  BY Zenon, <1>2, RecoveredRow
<1>5. WriteType'
  BY <1>2, BoundsAssumption DEF WriteType, NoRouter
<1> QED
  BY Zenon, <1>1, <1>3, <1>4, <1>5

LEMMA TypeProcess ==
    ASSUME TypeInv, LoseProof \/ CrashAndRestart
    PROVE  TypeInv'
<1>1. CASE LoseProof
  <2>1. UNCHANGED <<ledgerVars, routerVars, writeVars, runner, resolver, crashes, settings, brokerVars>>
        /\ proof' = FALSE
    BY Zenon, <1>1 DEF LoseProof
  <2>2. LedgerType' /\ SnapshotType'
    BY Zenon, <2>1 DEF TypeInv, LedgerType, SnapshotType, ledgerVars, settings
  <2>3. RouterType' /\ WriteType'
    BY Zenon, <2>1 DEF TypeInv, RouterType, WriteType, routerVars, writeVars
  <2>4. WorldType'
    BY Zenon, <2>1 DEF TypeInv, WorldType, settings, brokerVars
  <2> QED
    BY Zenon, <2>2, <2>3, <2>4 DEF TypeInv
<1>2. CASE CrashAndRestart
  <2>0. /\ WriteType' /\ state' \in [Writes -> DispatchStates]
        /\ router' = NoRouter /\ draining' = NoRouter /\ revoked' = 1..generations
        /\ runner' = IdleRunner /\ resolver' = IdleResolver
        /\ faults' = [g \in RouterIds |-> {}] /\ receipts' = [g \in RouterIds |-> {}]
        /\ UNCHANGED <<claim, resolution, snapshots, firstSeen, generations, faulty, emergency,
                       entered, applied, book>>
    BY Zenon, <1>2, CrashMoves
  <2>1. LedgerType'
    <3>1. health' \in {"HEALTHY", "outcome_unknown", "manual_critical"}
      <4>1. health' = "outcome_unknown" \/ health' = health
        BY Zenon, <1>2 DEF CrashAndRestart
      <4> QED
        BY Zenon, <4>1 DEF TypeInv, LedgerType
    <3> QED
      BY Zenon, <3>1, <2>0 DEF TypeInv, LedgerType
  <2>2. SnapshotType'
    <3>1. 0 \in 0..MaxSnapshots[faulty]
      BY SnapshotBound DEF TypeInv, WorldType
    <3>2. ResolverType'
      BY Zenon, <2>0, <3>1 DEF IdleResolver, ResolverType
    <3>3. runner' \in [at : {"idle", "stamped", "read"}, forced : BOOLEAN, invoked : SUBSET Writes,
                       completed : SUBSET Writes, orders : SUBSET Writes] /\ runner'.at = "idle"
      BY Zenon, <2>0 DEF IdleRunner
    <3> QED
      BY Zenon, <2>0, <3>2, <3>3 DEF TypeInv, SnapshotType, ResolverType
  <2>3. RouterType'
    <3>1. generations \in 0..MaxGenerations
      BY Zenon DEF TypeInv, RouterType
    <3> QED
      BY <2>0, <3>1, BoundsAssumption DEF RouterType, RouterIds, NoRouter
  <2>4. WorldType'
    <3>1. crashes' \in 0..MaxCrashes
      BY <1>2, BoundsAssumption DEF CrashAndRestart, RestartsLeft, TypeInv, WorldType
    <3>2. proof' = TRUE
      BY Zenon, <1>2 DEF CrashAndRestart
    <3> QED
      BY Zenon, <3>1, <3>2, <2>0 DEF TypeInv, WorldType
  <2> QED
    BY Zenon, <2>0, <2>1, <2>2, <2>3, <2>4 DEF TypeInv
<1> QED
  BY Zenon, <1>1, <1>2

LEMMA TypeNext ==
    ASSUME TypeInv, GenerationInv, DispatchInv, ResolutionInv, [Next]_vars
    PROVE  TypeInv'
<1>1. CASE UNCHANGED vars
  <2>1. UNCHANGED <<ledgerVars, routerVars, writeVars, runner, resolver, worldVars, brokerVars>>
    BY Zenon, <1>1 DEF vars
  <2>2. LedgerType' /\ SnapshotType'
    BY Zenon, <2>1 DEF TypeInv, LedgerType, SnapshotType, ledgerVars, worldVars, settings
  <2>3. RouterType' /\ WriteType'
    BY Zenon, <2>1 DEF TypeInv, RouterType, WriteType, routerVars, writeVars
  <2>4. WorldType'
    BY Zenon, <2>1 DEF TypeInv, WorldType, worldVars, settings, brokerVars
  <2> QED
    BY Zenon, <2>2, <2>3, <2>4 DEF TypeInv
<1> QED
  BY Zenon, <1>1, TypeWrite, TypeRouter, TypeSnapshot, TypeResolution, TypeProcess DEF Next

-----------------------------------------------------------------------------
(* One generation writes *)

LEMMA GenerationInit ==
    ASSUME Init
    PROVE  GenerationInv
<1>1. router = 0 /\ draining = 0 /\ generations = 0 /\ resolver = IdleResolver
      /\ runner = IdleRunner /\ pc = [w \in Writes |-> "start"]
  BY Zenon DEF Init, NoRouter
<1> QED
  BY <1>1 DEF GenerationInv, NoRouter, IdleResolver, IdleRunner, InFlight

\* The clauses on one write.
HeldOf(w) ==
    /\ pc[w] \notin {"start", "done"} => held[w] \in 1..generations
    /\ pc[w] \in InFlight => held[w] \in {router, draining}

LEMMA GenerationWrite ==
    ASSUME TypeInv, GenerationInv, DispatchInv, NEW w \in Writes, WriteStep(w)
    PROVE  GenerationInv'
<1>0. /\ UNCHANGED <<router, draining, generations, resolver, runner>>
      /\ ((AdmitWrite(w) \/ Preempt(w) \/ EnterAdapter(w)) /\ RequireProof(w)) \/ UNCHANGED revoked
  BY Zenon, WriteFrame
<1>1. \A u \in Writes \ {w} : HeldOf(u)'
  <2>1. \A u \in Writes \ {w} : HeldOf(u)
    BY Zenon DEF GenerationInv, HeldOf
  <2>2. \A u \in Writes \ {w} : pc'[u] = pc[u] /\ held'[u] = held[u]
    BY Zenon, WriteMoves
  <2> QED
    BY Zenon, <2>1, <2>2, <1>0 DEF HeldOf
<1>2. HeldOf(w)'
  <2>0. HeldOf(w) /\ router \in 0..generations /\ generations \in 0..MaxGenerations
        /\ \A g \in 1..generations : g \notin revoked => g = router
    BY Zenon DEF GenerationInv, HeldOf, TypeInv, RouterType
  <2>1. CASE Obtain(w)
    <3>1. pc'[w] = "held" /\ held'[w] = router /\ router # NoRouter
      BY Zenon, <2>1, ObtainMoves
    <3>2. "held" \notin InFlight /\ router \in 1..generations
      BY <2>0, <3>1 DEF InFlight, NoRouter
    <3> QED
      BY Zenon, <3>1, <3>2, <1>0 DEF HeldOf
  <2>2. CASE AdmitWrite(w)
    <3>1. PICK p \in {"admitted", "done"} :
            /\ Moves(w, p, attempt[w], state[w]) /\ pc[w] = "held"
            /\ p = "admitted" => proof /\ held[w] \notin revoked
      BY Zenon, <2>2, QuietMoves
    <3>2. "done" \notin InFlight /\ held[w] \in 1..generations
      BY Zenon, <2>0, <3>1 DEF InFlight, HeldOf
    <3>3. pc'[w] = p /\ (p # "done" => held'[w] = held[w])
      BY Zenon, <3>1 DEF Moves
    <3> QED
      BY Zenon, <3>1, <3>2, <3>3, <2>0, <1>0 DEF HeldOf
  <2>3. CASE ~Obtain(w) /\ ~AdmitWrite(w)
    <3>1. pc[w] \in InFlight /\ (pc'[w] = "done" \/ held'[w] = held[w])
      <4>1. CASE \/ Refuse(w) \/ CheckFaults(w) \/ AssertWriteReady(w) \/ Preempt(w) \/ EnterAdapter(w)
                 \/ AdapterReturns(w) \/ RefreshHealth(w) \/ MarkHealthCritical(w) \/ AddFault(w)
        <5>1. \E p, a, s : Moves(w, p, a, s)
          BY Zenon, <4>1, QuietMoves
        <5>2. pc[w] \in InFlight
          BY Zenon, <4>1 DEF InFlight, Refuse, CheckFaults, AssertWriteReady, Preempt,
             EnterAdapter, AdapterReturns,
                      RefreshHealth, MarkHealthCritical, AddFault
        <5> QED
          BY Zenon, <5>1, <5>2 DEF Moves
      <4>2. CASE \/ PrepareDispatch(w) \/ MarkInvoked(w) \/ RecordFailedBeforeInvoke(w)
                 \/ MarkOutcomeUnknown(w) \/ Acknowledge(w)
        <5>1. \E p, a, s : Moves(w, p, a, s)
          BY Zenon, <4>2, PrepareMoves, MarkInvokedMoves, RecordFailedMoves, MarkUnknownMoves,
             AcknowledgeMoves
        <5>2. pc[w] \in InFlight
          BY Zenon, <4>2 DEF InFlight, PrepareDispatch, MarkInvoked, RecordFailedBeforeInvoke,
             MarkOutcomeUnknown,
                      Acknowledge
        <5> QED
          BY Zenon, <5>1, <5>2 DEF Moves
      <4> QED
        BY Zenon, <4>1, <4>2, <2>3 DEF WriteStep
    <3>2. pc[w] \notin {"start", "done"} /\ "done" \notin InFlight
      BY Zenon, <3>1 DEF InFlight
    <3> QED
      BY Zenon, <3>1, <3>2, <2>0, <1>0 DEF HeldOf
  <2> QED
    BY Zenon, <2>1, <2>2, <2>3
<1>3. revoked \subseteq revoked'
  BY Zenon, <1>0 DEF RequireProof
<1>4. \A u \in Writes : HeldOf(u)'
  BY Zenon, <1>1, <1>2
<1> QED
  BY Zenon, <1>0, <1>3, <1>4 DEF GenerationInv, HeldOf

LEMMA GenerationRouter ==
    ASSUME TypeInv, GenerationInv, RetireRouter \/ PublishRouter
    PROVE  GenerationInv'
<1>0. UNCHANGED <<pc, held, resolver, runner>> /\ resolver.at = "idle" /\ generations \in Nat /\ NoRouter = 0
  <2>1. UNCHANGED <<pc, held, resolver, runner>> /\ resolver.at = "idle"
    BY Zenon DEF RetireRouter, PublishRouter, writeVars
  <2> QED
    BY <2>1, BoundsAssumption DEF TypeInv, RouterType, NoRouter
<1>1. CASE RetireRouter
  <2> DEFINE retiring == IF router # NoRouter THEN router ELSE draining
  <2>1. /\ retiring # NoRouter /\ revoked' = revoked \cup {retiring} /\ router' = NoRouter
        /\ generations' = generations
        /\ draining' = IF Admitted(retiring) = {} THEN NoRouter ELSE retiring
    BY Zenon, <1>1 DEF RetireRouter
  <2>2. retiring \in 0..generations /\ \A w \in Writes : pc[w] \in InFlight => held[w] = retiring
    <3>1. \A w \in Writes : pc[w] \in InFlight => held[w] \in 1..generations /\ held[w] \in {router, draining}
      BY Zenon DEF GenerationInv, InFlight
    <3> QED
      BY <3>1, <1>0 DEF GenerationInv
  <2>3. \A g \in 1..generations : g \notin revoked => g = retiring
    BY <1>0 DEF GenerationInv
  <2> HIDE DEF retiring
  <2>4. \A w \in Writes : pc[w] \in InFlight => draining' = retiring
    BY Zenon, <2>1, <2>2 DEF Admitted
  <2>5. router' \in 0..generations' /\ draining' \in 0..generations'
    BY <2>1, <2>2, <1>0
  <2>6. \A g \in 1..generations' : g \notin revoked' => g = router'
    BY Zenon, <2>1, <2>3
  <2>7. \A w \in Writes : /\ pc'[w] \notin {"start", "done"} => held'[w] \in 1..generations'
                          /\ pc'[w] \in InFlight => held'[w] \in {router', draining'}
    BY Zenon, <2>1, <2>2, <2>4, <1>0 DEF GenerationInv
  <2> QED
    BY Zenon, <2>1, <2>5, <2>6, <2>7, <1>0 DEF GenerationInv
<1>2. CASE PublishRouter
  <2>1. /\ router = NoRouter /\ draining = NoRouter /\ draining' = draining /\ revoked' = revoked
        /\ generations' = generations + 1 /\ router' = generations + 1
    BY Zenon, <1>2 DEF PublishRouter
  <2>2. \A w \in Writes : pc[w] \notin InFlight
    BY <2>1, <1>0 DEF GenerationInv, InFlight
  <2>3. router' \in 0..generations' /\ draining' \in 0..generations'
    BY <2>1, <1>0
  <2>4. \A g \in 1..generations' : g \notin revoked' => g = router'
    BY <2>1, <1>0 DEF GenerationInv
  <2>5. \A w \in Writes : /\ pc'[w] \notin {"start", "done"} => held'[w] \in 1..generations'
                          /\ pc'[w] \in InFlight => held'[w] \in {router', draining'}
    BY <2>1, <2>2, <1>0 DEF GenerationInv
  <2> QED
    BY Zenon, <2>1, <2>3, <2>4, <2>5, <1>0 DEF GenerationInv
<1> QED
  BY Zenon, <1>1, <1>2

\* The other steps leave the generations alone; what they do to the request.
LEMMA GenerationRequest ==
    ASSUME TypeInv, GenerationInv, ResolutionInv, SnapshotStep \/ ResolutionStep
    PROVE  GenerationInv'
<1>1. UNCHANGED <<router, draining, generations, revoked, pc, held>>
  <2>1. CASE SnapshotStep
    BY Zenon, <2>1 DEF SnapshotStep, StampSnapshot, ReadOrderBook, RecordSnapshot,
       LeaveBook, routerVars, writeVars
  <2> QED
    BY Zenon, <2>1, ResolutionFrame
<1>2. /\ resolver'.at # "idle" => router' # NoRouter /\ resolver'.attempt \in Writes
      /\ runner'.forced => resolver'.at = "trigger"
  <2>0. /\ resolver.at # "idle" => router # NoRouter /\ resolver.attempt \in Writes
        /\ runner.forced => resolver.at = "trigger"
        /\ SnapshotType
    BY Zenon DEF GenerationInv, TypeInv
  <2>1. CASE StampSnapshot
    <3>1. resolver' = resolver
      BY Zenon, <2>1 DEF StampSnapshot
    <3>2. runner'.forced => resolver.at = "trigger"
      BY Zenon, <2>1 DEF StampSnapshot
    <3> QED
      BY Zenon, <3>1, <3>2, <2>0, <1>1
  <2>2. CASE ReadOrderBook
    <3>1. resolver' = resolver
      BY Zenon, <2>2 DEF ReadOrderBook
    <3>2. runner'.forced = runner.forced
      BY Zenon, <2>2, <2>0 DEF ReadOrderBook, SnapshotType
    <3> QED
      BY Zenon, <3>1, <3>2, <2>0, <1>1
  <2>3. CASE RecordSnapshot
    <3>1. runner'.forced = FALSE
      BY Zenon, <2>3 DEF RecordSnapshot, IdleRunner
    <3>2. \/ resolver' = resolver \/ resolver' = IdleResolver
          \/ runner.forced /\ resolver' = [resolver EXCEPT !.at = "prepare", !.required = Len(snapshots) + 1]
      BY Zenon, <2>3 DEF RecordSnapshot
    <3>3. CASE resolver' = resolver
      BY Zenon, <3>1, <3>3, <2>0, <1>1
    <3>4. CASE resolver' = IdleResolver
      BY Zenon, <3>1, <3>4 DEF IdleResolver
    <3>5. CASE runner.forced /\ resolver' = [resolver EXCEPT !.at = "prepare", !.required = Len(snapshots) + 1]
      <4>1. resolver'.attempt = resolver.attempt
        BY Zenon, <3>5, <2>0 DEF SnapshotType
      <4>2. resolver.at # "idle"
        BY Zenon, <3>5, <2>0
      <4> QED
        BY Zenon, <4>1, <4>2, <3>1, <2>0, <1>1
    <3> QED
      BY Zenon, <3>2, <3>3, <3>4, <3>5
  <2>4. CASE LeaveBook
    BY Zenon, <2>4, <2>0, <1>1 DEF LeaveBook
  <2>5. CASE AbandonTrigger
    <3>1. runner'.forced = FALSE
      BY Zenon, <2>5, <2>0 DEF AbandonTrigger, SnapshotType
    <3>2. resolver'.at = "idle"
      BY Zenon, <2>5 DEF AbandonTrigger, IdleResolver
    <3> QED
      BY Zenon, <3>1, <3>2
  <2>6. CASE ResolutionStep /\ ~AbandonTrigger
    <3>1. runner' = runner
      BY Zenon, <2>6, ResolutionFrame
    <3>2. ~runner.forced
      <4>1. resolver.at # "trigger"
        BY Zenon, <2>6 DEF ResolutionStep, BeginResolution, PrepareResolution, AuditResolution,
           FinalizeResolution,
                    ClearFault, CompleteResolution
      <4> QED
        BY Zenon, <4>1, <2>0
    <3>3. resolver'.at # "idle" => router # NoRouter /\ resolver'.attempt \in Writes
      <4>1. CASE BeginResolution \/ AuditResolution
        BY Zenon, <4>1, RequestMoves
      <4>2. CASE PrepareResolution \/ FinalizeResolution \/ ClearFault \/ CompleteResolution
        <5>1. router # NoRouter
          <6>1. resolver.at # "idle"
            BY Zenon, <4>2 DEF PrepareResolution, FinalizeResolution, ClearFault, CompleteResolution
          <6> QED
            BY Zenon, <6>1, <2>0
        <5> QED
          BY Zenon, <5>1, <4>2, PrepareResolutionMoves, FinalizeMoves, ClearMoves, CompleteMoves,
             Zenon
      <4> QED
        BY Zenon, <4>1, <4>2, <2>6 DEF ResolutionStep
    <3> QED
      BY Zenon, <3>1, <3>2, <3>3, <1>1
  <2> QED
    BY Zenon, <2>1, <2>2, <2>3, <2>4, <2>5, <2>6 DEF SnapshotStep
<1> QED
  BY Zenon, <1>1, <1>2 DEF GenerationInv

LEMMA GenerationNext ==
    ASSUME TypeInv, GenerationInv, DispatchInv, ResolutionInv, [Next]_vars
    PROVE  GenerationInv'
<1>1. CASE UNCHANGED vars \/ LoseProof
  <2>1. UNCHANGED <<router, draining, generations, revoked, pc, held, resolver, runner>>
    BY Zenon, <1>1 DEF vars, LoseProof, routerVars, writeVars
  <2> QED
    BY Zenon, <2>1 DEF GenerationInv
<1>2. CASE CrashAndRestart
  <2>1. /\ \A w \in Writes : pc'[w] \in {"start", "done"}
        /\ router' = NoRouter /\ draining' = NoRouter /\ revoked' = 1..generations
        /\ runner' = IdleRunner /\ resolver' = IdleResolver /\ generations' = generations
    BY Zenon, <1>2, CrashMoves
  <2>2. resolver'.at = "idle" /\ runner'.forced = FALSE /\ "start" \notin InFlight /\ "done" \notin InFlight
    BY Zenon, <2>1 DEF IdleResolver, IdleRunner, InFlight
  <2>3. NoRouter \in 0..generations
    BY BoundsAssumption DEF TypeInv, RouterType, NoRouter
  <2> QED
    BY Zenon, <2>1, <2>2, <2>3 DEF GenerationInv
<1> QED
  BY Zenon, <1>1, <1>2, GenerationWrite, GenerationRouter, GenerationRequest DEF Next

-----------------------------------------------------------------------------
(* Where a write is, against its row and its adapter *)

LEMMA DispatchInit ==
    ASSUME Init
    PROVE  DispatchInv /\ FaithfulInv
<1>1. pc = [w \in Writes |-> "start"] /\ state = [w \in Writes |-> "none"] /\ entered = {}
  BY Zenon DEF Init
<1> QED
  BY Zenon, <1>1 DEF DispatchInv, DispatchOf, FaithfulInv, FaithfulOf, Early

\* Only the adapter's entry adds to what was sent, and only its own write.
LEMMA EnteredMoves ==
    ASSUME NEW w \in Writes, WriteStep(w)
    PROVE  /\ \A u \in Writes \ {w} : u \in entered' <=> u \in entered
           /\ w \in entered' <=> w \in entered \/ (EnterAdapter(w) /\ proof)
<1>1. CASE EnterAdapter(w)
  BY Zenon, <1>1 DEF EnterAdapter, brokerVars
<1>2. CASE ~EnterAdapter(w)
  BY Zenon, <1>2, WriteFrame
<1> QED
  BY Zenon, <1>1, <1>2

LEMMA DispatchWrite ==
    ASSUME TypeInv, DispatchInv, NEW w \in Writes, WriteStep(w)
    PROVE  DispatchInv'
<1>0. UNCHANGED emergency /\ DispatchOf(w)
  BY Zenon, WriteFrame DEF DispatchInv
<1>1. \A u \in Writes \ {w} : DispatchOf(u)'
  <2> SUFFICES ASSUME NEW u \in Writes \ {w}
               PROVE  DispatchOf(u)'
    BY Zenon
  <2>1. DispatchOf(u) /\ pc'[u] = pc[u] /\ attempt'[u] = attempt[u] /\ state'[u] = state[u]
        /\ (u \in entered' <=> u \in entered) /\ (u \in Normal' <=> u \in Normal)
    BY Zenon, <1>0, WriteMoves, EnteredMoves DEF DispatchInv, Normal
  <2> QED
    BY Zenon, <2>1 DEF DispatchOf
<1>2. DispatchOf(w)'
  <2>0. w \in Normal' <=> w \in Normal
    BY Zenon, <1>0 DEF Normal
  <2>1. CASE EnterAdapter(w)
    <3>1. PICK p \in {"inside", "failed"} :
            Moves(w, p, attempt[w], state[w]) /\ pc[w] = "invoked" /\ (p = "inside" <=> proof)
      BY Zenon, <2>1, QuietMoves
    <3>2. pc'[w] = p /\ state'[w] = state[w] /\ (p = "failed" => w \notin entered')
      BY Zenon, <3>1, <2>1, <1>0, EnteredMoves DEF Moves, DispatchOf
    <3> QED
      BY Zenon, <3>1, <3>2, <2>0, <1>0 DEF DispatchOf, Early
  <2>2. CASE ~EnterAdapter(w)
    <3>0. w \in entered' <=> w \in entered
      BY Zenon, <2>2, EnteredMoves
    <3>1. CASE Obtain(w)
      <4>1. pc[w] = "start" /\ pc'[w] = "held" /\ state'[w] = state[w]
        BY Zenon, <3>1, ObtainMoves
      <4> QED
        BY Zenon, <4>1, <3>0, <2>0, <1>0 DEF DispatchOf, Early
    <3>2. CASE \/ AdmitWrite(w) \/ Refuse(w) \/ CheckFaults(w) \/ AssertWriteReady(w)
      <4>1. PICK p \in Early \cup {"done"} : Moves(w, p, attempt[w], state[w]) /\ pc[w] \in Early
        <5>1. {"held", "admitted", "fault_free", "ready"} \subseteq Early
          BY Zenon DEF Early
        <5> QED
          BY Zenon, <3>2, <5>1, QuietMoves
      <4>2. pc'[w] = p /\ state'[w] = state[w]
        BY Zenon, <4>1 DEF Moves
      <4> QED
        BY Zenon, <4>1, <4>2, <3>0, <2>0, <1>0 DEF DispatchOf, Early
    <3>3. CASE Preempt(w)
      <4>1. pc[w] = "prepared" /\ pc'[w] = "failed" /\ state'[w] = state[w]
        BY Zenon, <3>3, QuietMoves DEF Moves
      <4> QED
        BY Zenon, <4>1, <3>0, <2>0, <1>0 DEF DispatchOf, Early
    <3>4. CASE AdapterReturns(w) \/ RefreshHealth(w) \/ MarkHealthCritical(w) \/ AddFault(w)
      <4>1. PICK p \in {"returned", "unknown", "critical", "fault", "done"} : Moves(w, p, attempt[w], state[w])
        BY Zenon, <3>4, QuietMoves
      <4>2. pc'[w] = p /\ state'[w] = state[w]
        BY Zenon, <4>1 DEF Moves
      <4> QED
        BY Zenon, <4>2, <3>0, <2>0, <1>0 DEF DispatchOf, Early
    <3>5. CASE PrepareDispatch(w)
      <4>1. PICK f \in Outcomes : /\ pc[w] = "ready"
              /\ Moves(w, IF Raised(f) /\ w \in Normal THEN "done" ELSE "prepared", ~Raised(f),
                       IF Committed(f) THEN "PREPARED" ELSE state[w])
        BY Zenon, <3>5, PrepareMoves
      <4>2. /\ pc'[w] = IF Raised(f) /\ w \in Normal THEN "done" ELSE "prepared"
            /\ state'[w] = IF Committed(f) THEN "PREPARED" ELSE state[w]
            /\ pc'[w] = "prepared" => attempt'[w] = ~Raised(f)
        BY Zenon, <4>1 DEF Moves
      <4>3. state[w] = "none" /\ w \notin entered' /\ (~Raised(f) => Committed(f))
        BY Zenon, <4>1, <3>0, <1>0, OutcomeKinds DEF DispatchOf, Early
      <4>4. pc'[w] \in {"done", "prepared"} /\ state'[w] \in {"none", "PREPARED"}
            /\ (pc'[w] = "prepared" => /\ attempt'[w] => state'[w] = "PREPARED"
                                       /\ w \in Normal => attempt'[w])
        BY Zenon, <4>2, <4>3
      <4> QED
        BY Zenon, <4>3, <4>4, <2>0 DEF DispatchOf, Early
    <3>6. CASE MarkInvoked(w)
      <4>1. PICK f \in Outcomes : /\ pc[w] = "prepared"
              /\ Moves(w, IF attempt[w] /\ Raised(f) /\ w \in Normal THEN "failed" ELSE "invoked",
                       attempt[w], IF attempt[w] /\ Committed(f) THEN "INVOKED" ELSE state[w])
        BY Zenon, <3>6, MarkInvokedMoves
      <4>2. /\ pc'[w] = IF attempt[w] /\ Raised(f) /\ w \in Normal THEN "failed" ELSE "invoked"
            /\ state'[w] = IF attempt[w] /\ Committed(f) THEN "INVOKED" ELSE state[w]
        BY Zenon, <4>1 DEF Moves
      <4>3. /\ w \notin entered' /\ (w \in Normal => attempt[w]) /\ (~Raised(f) => Committed(f))
            /\ state[w] \in {"none", "PREPARED"}
        BY Zenon, <4>1, <3>0, <1>0, OutcomeKinds DEF DispatchOf
      <4>4. /\ pc'[w] \in {"failed", "invoked"} /\ state'[w] \in {"none", "PREPARED", "INVOKED"}
            /\ pc'[w] = "invoked" /\ w \in Normal => state'[w] = "INVOKED"
        BY Zenon, <4>2, <4>3
      <4> QED
        BY Zenon, <4>3, <4>4, <2>0 DEF DispatchOf, Early
    <3>7. CASE RecordFailedBeforeInvoke(w)
      <4>1. pc[w] = "failed" /\ pc'[w] = "done"
        BY Zenon, <3>7, RecordFailedMoves DEF Moves
      <4> QED
        BY Zenon, <4>1, <3>0, <2>0, <1>0 DEF DispatchOf, Early
    <3>8. CASE MarkOutcomeUnknown(w) \/ Acknowledge(w)
      <4>1. pc'[w] \in {"done", "late_refresh", "refresh", "critical", "fault", "unpersisted"}
            /\ (state'[w] = state[w] \/ state'[w] \in {"OUTCOME_UNKNOWN", "ACKNOWLEDGED"})
        BY ZenonT(30), <3>8, MarkUnknownMoves, AcknowledgeMoves DEF Moves
      <4> QED
        BY Zenon, <4>1, <3>0, <2>0, <1>0 DEF DispatchOf, Early
    <3> QED
      BY Zenon, <2>2, <3>1, <3>2, <3>3, <3>4, <3>5, <3>6, <3>7, <3>8 DEF WriteStep
  <2> QED
    BY Zenon, <2>1, <2>2
<1> QED
  BY Zenon, <1>1, <1>2 DEF DispatchInv

LEMMA FaithfulWrite ==
    ASSUME TypeInv, DispatchInv, FaithfulInv, NEW w \in Writes, WriteStep(w)
    PROVE  FaithfulInv'
<1>0. UNCHANGED faulty /\ DispatchOf(w)
  BY Zenon, WriteFrame DEF DispatchInv
<1> SUFFICES ASSUME ~faulty
             PROVE  \A u \in Writes : FaithfulOf(u)'
  BY Zenon, <1>0 DEF FaithfulInv
<1>1. \A u \in Writes \ {w} : FaithfulOf(u)'
  <2> SUFFICES ASSUME NEW u \in Writes \ {w}
               PROVE  FaithfulOf(u)'
    BY Zenon
  <2>1. FaithfulOf(u) /\ pc'[u] = pc[u] /\ attempt'[u] = attempt[u] /\ state'[u] = state[u]
        /\ (u \in entered' <=> u \in entered)
    BY Zenon, WriteMoves, EnteredMoves DEF FaithfulInv
  <2> QED
    BY Zenon, <2>1 DEF FaithfulOf
<1>2. FaithfulOf(w)'
  <2>0. FaithfulOf(w) /\ \A f \in Outcomes : ~Raised(f) /\ Committed(f)
    BY Zenon, OutcomeKinds DEF FaithfulInv
  <2>1. CASE EnterAdapter(w)
    <3>1. PICK p \in {"inside", "failed"} : Moves(w, p, attempt[w], state[w]) /\ pc[w] = "invoked"
      BY Zenon, <2>1, QuietMoves
    <3>2. pc'[w] = p /\ state'[w] = "INVOKED" /\ attempt'[w]
      BY Zenon, <3>1, <2>0 DEF Moves, FaithfulOf
    <3> QED
      BY Zenon, <3>2 DEF FaithfulOf
  <2>2. CASE ~EnterAdapter(w)
    <3>0. w \in entered' <=> w \in entered
      BY Zenon, <2>2, EnteredMoves
    <3>1. CASE \/ Obtain(w) \/ AdmitWrite(w) \/ Refuse(w) \/ CheckFaults(w) \/ AssertWriteReady(w)
      <4>1. pc[w] \in Early /\ pc'[w] \in {"held", "admitted", "done", "ready", "fault_free"}
        BY Zenon, <3>1, ObtainMoves, QuietMoves DEF Moves, Early
      <4> QED
        BY Zenon, <4>1, <3>0, <1>0 DEF DispatchOf, FaithfulOf
    <3>2. CASE PrepareDispatch(w)
      <4>1. PICK f \in Outcomes : /\ pc[w] = "ready"
              /\ Moves(w, IF Raised(f) /\ w \in Normal THEN "done" ELSE "prepared", ~Raised(f),
                       IF Committed(f) THEN "PREPARED" ELSE state[w])
        BY Zenon, <3>2, PrepareMoves
      <4>2. pc'[w] = "prepared" /\ attempt'[w]
        BY Zenon, <4>1, <2>0 DEF Moves
      <4> QED
        BY Zenon, <4>2 DEF FaithfulOf
    <3>3. CASE MarkInvoked(w)
      <4>1. PICK f \in Outcomes : /\ pc[w] = "prepared"
              /\ Moves(w, IF attempt[w] /\ Raised(f) /\ w \in Normal THEN "failed" ELSE "invoked",
                       attempt[w], IF attempt[w] /\ Committed(f) THEN "INVOKED" ELSE state[w])
        BY Zenon, <3>3, MarkInvokedMoves
      <4>2. pc'[w] = "invoked" /\ attempt'[w] /\ state'[w] = "INVOKED"
        BY Zenon, <4>1, <2>0 DEF Moves, FaithfulOf
      <4> QED
        BY Zenon, <4>2 DEF FaithfulOf
    <3>4. CASE Preempt(w)
      <4>1. pc'[w] = "failed"
        BY Zenon, <3>4, QuietMoves DEF Moves
      <4> QED
        BY Zenon, <4>1 DEF FaithfulOf
    <3>5. CASE RecordFailedBeforeInvoke(w)
      <4>1. pc[w] = "failed" /\ pc'[w] = "done"
        BY Zenon, <3>5, RecordFailedMoves DEF Moves
      <4> QED
        BY Zenon, <4>1, <3>0, <1>0 DEF DispatchOf, FaithfulOf
    <3>6. CASE AdapterReturns(w)
      <4>1. PICK p \in {"returned", "unknown"} : Moves(w, p, attempt[w], state[w]) /\ pc[w] = "inside"
        BY Zenon, <3>6, QuietMoves
      <4>2. pc'[w] = p /\ state'[w] = "INVOKED" /\ attempt'[w]
        BY Zenon, <4>1, <2>0 DEF Moves, FaithfulOf
      <4> QED
        BY Zenon, <4>2 DEF FaithfulOf
    <3>7. CASE MarkOutcomeUnknown(w)
      <4>1. PICK f \in Outcomes, p \in {"done", "late_refresh", "refresh", "critical", "fault"} :
              /\ pc[w] \in {"unknown", "unpersisted"} /\ (p = "done" <=> ~attempt[w])
              /\ Moves(w, p, attempt[w], IF attempt[w] /\ state[w] = "INVOKED" /\ Committed(f)
                                         THEN "OUTCOME_UNKNOWN" ELSE state[w])
        BY Zenon, <3>7, MarkUnknownMoves
      <4>2. pc'[w] \in {"late_refresh", "refresh", "critical", "fault"} /\ state'[w] = "OUTCOME_UNKNOWN"
        BY Zenon, <4>1, <2>0 DEF Moves, FaithfulOf
      <4> QED
        BY Zenon, <4>2 DEF FaithfulOf
    <3>8. CASE Acknowledge(w)
      <4>1. PICK f \in Outcomes, p \in {"done", "unpersisted"} :
              LET legal == state[w] = "INVOKED" /\ Unclaimed(w, w)
                  written == attempt[w] /\ legal /\ Committed(f)
              IN  /\ pc[w] = "returned" /\ (p = "done" <=> ~attempt[w] \/ (legal /\ ~Raised(f)))
                  /\ Moves(w, p, attempt[w], IF written THEN "ACKNOWLEDGED" ELSE state[w])
        BY Zenon, <3>8, AcknowledgeMoves
      <4>2. attempt[w] /\ state[w] = "INVOKED"
        BY Zenon, <4>1, <2>0 DEF FaithfulOf
      <4>3. \/ pc'[w] = "done" /\ state'[w] = "ACKNOWLEDGED"
            \/ pc'[w] = "unpersisted" /\ state'[w] = "INVOKED" /\ attempt'[w]
        BY Zenon, <4>1, <4>2, <2>0 DEF Moves
      <4> QED
        BY Zenon, <4>3 DEF FaithfulOf
    <3>9. CASE RefreshHealth(w) \/ MarkHealthCritical(w) \/ AddFault(w)
      <4>1. /\ pc[w] \in {"refresh", "late_refresh", "critical", "fault"}
            /\ pc'[w] \in {"critical", "fault", "done"} /\ state'[w] = state[w]
        BY Zenon, <3>9, QuietMoves DEF Moves
      <4> QED
        BY Zenon, <4>1, <2>0 DEF FaithfulOf
    <3> QED
      BY Zenon, <2>2, <3>1, <3>2, <3>3, <3>4, <3>5, <3>6, <3>7, <3>8, <3>9 DEF WriteStep
  <2> QED
    BY Zenon, <2>1, <2>2
<1> QED
  BY Zenon, <1>1, <1>2

\* A decision that is applied meets an attempt of unknown outcome, which has left its
\* dispatch; a restart ends every dispatch and marks the invoked ones.
LEMMA DispatchNext ==
    ASSUME TypeInv, GenerationInv, DispatchInv, FaithfulInv, ResolutionInv, [Next]_vars
    PROVE  DispatchInv' /\ FaithfulInv'
<1>1. CASE \E w \in Writes : WriteStep(w)
  BY Zenon, <1>1, DispatchWrite, FaithfulWrite
<1>2. CASE UNCHANGED <<pc, state, attempt, entered, faulty, emergency>>
  BY Zenon, <1>2 DEF DispatchInv, DispatchOf, FaithfulInv, FaithfulOf, Normal
<1>3. CASE FinalizeResolution
  <2>1. UNCHANGED <<pc, attempt, entered, faulty, emergency>>
    BY Zenon, <1>3 DEF FinalizeResolution, writeVars, worldVars, settings, brokerVars
  <2>2. \A u \in Writes : \/ state'[u] = state[u]
                          \/ state[u] = "OUTCOME_UNKNOWN" /\ state'[u] \in Confirmed
    BY Zenon, <1>3, FinalizeMoves DEF Confirmed
  <2>3. "OUTCOME_UNKNOWN" \notin {"none", "PREPARED", "INVOKED"}
        /\ {"none", "PREPARED", "FAILED_BEFORE_INVOKE"} \cap Confirmed = {}
    BY Zenon DEF Confirmed
  <2>4. \A u \in Writes : DispatchOf(u)'
    BY Zenon, <2>1, <2>2, <2>3 DEF DispatchInv, DispatchOf, Normal
  <2>5. FaithfulInv'
    BY Zenon, <2>1, <2>2, <2>3 DEF FaithfulInv, FaithfulOf
  <2> QED
    BY Zenon, <2>4, <2>5 DEF DispatchInv
<1>4. CASE CrashAndRestart
  <2>1. UNCHANGED <<entered, faulty, emergency>>
    BY Zenon, <1>4, CrashMoves
  <2>2. ASSUME NEW u \in Writes
        PROVE  DispatchOf(u)' /\ (~faulty => FaithfulOf(u)')
    <3>1. /\ state'[u] = Recovered(u) /\ pc'[u] = IF pc[u] = "start" THEN "start" ELSE "done"
          /\ (u \in entered' <=> u \in entered) /\ (u \in Normal' <=> u \in Normal)
      BY Zenon, <1>4, <2>1, CrashMoves DEF Normal
    <3>2. /\ state[u] = "PREPARED" => Recovered(u) = "FAILED_BEFORE_INVOKE"
          /\ state[u] = "INVOKED" => Recovered(u) = "OUTCOME_UNKNOWN"
          /\ state[u] \notin {"PREPARED", "INVOKED"} => Recovered(u) = state[u]
      BY Zenon, RecoveredRow
    <3>3. DispatchOf(u) /\ (~faulty => FaithfulOf(u)) /\ pc[u] \in Stages
      BY Zenon DEF DispatchInv, FaithfulInv, TypeInv, WriteType, Stages
    <3>4. DispatchOf(u)'
      BY Zenon, <3>1, <3>2, <3>3 DEF DispatchOf, Early
    <3>5. ASSUME ~faulty
          PROVE  FaithfulOf(u)'
      <4>1. u \in entered => pc[u] \notin Early \cup {"prepared", "invoked", "failed"}
        BY Zenon, <3>3 DEF DispatchOf
      <4>2. u \in entered => state[u] \in {"INVOKED", "ACKNOWLEDGED", "OUTCOME_UNKNOWN"} \cup Confirmed
        BY Zenon, <4>1, <3>3, <3>5 DEF FaithfulOf, Stages, InFlight, Early
      <4>3. pc'[u] \in {"start", "done"}
        BY Zenon, <3>1
      <4>4. u \in entered' => state'[u] \in {"ACKNOWLEDGED", "OUTCOME_UNKNOWN"} \cup Confirmed
        BY Zenon, <4>2, <3>1, <3>2 DEF Confirmed
      <4> QED
        BY Zenon, <4>3, <4>4 DEF FaithfulOf
    <3> QED
      BY Zenon, <3>4, <3>5
  <2> QED
    BY Zenon, <2>1, <2>2 DEF DispatchInv, FaithfulInv
<1>5. CASE UNCHANGED vars \/ LoseProof \/ RetireRouter \/ PublishRouter
  <2>1. UNCHANGED <<pc, state, attempt, entered, faulty, emergency>>
    BY Zenon, <1>5 DEF vars, LoseProof, RetireRouter, PublishRouter, ledgerVars, writeVars,
       worldVars, settings,
                       brokerVars
  <2> QED
    BY Zenon, <2>1, <1>2
<1>6. CASE SnapshotStep
  <2>1. UNCHANGED <<pc, state, attempt, entered, faulty, emergency>>
    BY Zenon, <1>6 DEF SnapshotStep, StampSnapshot, ReadOrderBook, RecordSnapshot,
       LeaveBook, ledgerVars, writeVars,
                       worldVars, settings, brokerVars
  <2> QED
    BY Zenon, <2>1, <1>2
<1>7. CASE ResolutionStep /\ ~FinalizeResolution
  <2>1. UNCHANGED <<pc, state, attempt, entered, faulty, emergency>>
    BY Zenon, <1>7, ResolutionFrame
  <2> QED
    BY Zenon, <2>1, <1>2
<1> QED
  BY Zenon, <1>1, <1>3, <1>4, <1>5, <1>6, <1>7 DEF Next

-----------------------------------------------------------------------------
(* Decisions and the rows they settle *)

LEMMA ResolutionInit ==
    ASSUME Init
    PROVE  ResolutionInv /\ OneAttemptPerOrder /\ CriticalIsResolvable
<1>1. state = [w \in Writes |-> "none"] /\ resolution = [w \in Writes |-> NoResolution]
      /\ claim = [w \in Writes |-> None] /\ health = "HEALTHY" /\ resolver = IdleResolver
  BY Zenon DEF Init
<1>2. ResolutionInv
  BY Zenon, <1>1 DEF ResolutionInv, NoResolution, IdleResolver, Confirmed
<1>3. OneAttemptPerOrder /\ CriticalIsResolvable
  BY Zenon, <1>1 DEF OneAttemptPerOrder, CriticalIsResolvable
<1> QED
  BY Zenon, <1>2, <1>3

\* The clauses on one attempt.
SettledOf(w) ==
    /\ resolution[w].status = "PENDING_AUDIT" => state[w] = "OUTCOME_UNKNOWN"
    /\ state[w] \in Confirmed <=> resolution[w].status \in {"PENDING_ROUTER_CLEAR", "COMMITTED"}

\* What a step of a write or a restart may do to the rows: settled and unknown ones stay.
KeepsSettled ==
    \A u \in Writes : /\ state[u] \in {"OUTCOME_UNKNOWN"} \cup Confirmed => state'[u] = state[u]
                      /\ state[u] \notin Confirmed => state'[u] \notin Confirmed

LEMMA RowsKept ==
    ASSUME TypeInv, DispatchInv, (\E w \in Writes : WriteStep(w)) \/ CrashAndRestart
    PROVE  KeepsSettled /\ UNCHANGED resolution
<1>1. ASSUME NEW w \in Writes, WriteStep(w)
      PROVE  KeepsSettled /\ UNCHANGED resolution
  <2>1. Advances(state[w], state'[w]) /\ \A u \in Writes \ {w} : state'[u] = state[u]
    BY Zenon, <1>1, WriteMoves
  <2>2. KeepsSettled
    BY Zenon, <2>1 DEF Advances, KeepsSettled, Confirmed
  <2> QED
    BY Zenon, <2>2, <1>1, WriteFrame
<1>2. ASSUME CrashAndRestart
      PROVE  KeepsSettled /\ UNCHANGED resolution
  <2>1. UNCHANGED resolution /\ \A u \in Writes : state'[u] = Recovered(u)
    BY Zenon, <1>2, CrashMoves
  <2>2. \A u \in Writes : /\ state[u] = "PREPARED" => Recovered(u) = "FAILED_BEFORE_INVOKE"
                          /\ state[u] = "INVOKED" => Recovered(u) = "OUTCOME_UNKNOWN"
                          /\ state[u] \notin {"PREPARED", "INVOKED"} => Recovered(u) = state[u]
    BY Zenon, RecoveredRow
  <2> QED
    BY Zenon, <2>1, <2>2 DEF KeepsSettled, Confirmed
<1> QED
  BY Zenon, <1>1, <1>2

LEMMA ResolutionNext ==
    ASSUME TypeInv, GenerationInv, DispatchInv, ResolutionInv, [Next]_vars
    PROVE  ResolutionInv'
<1>0. /\ \A u \in Writes : SettledOf(u)
      /\ resolver.at \in {"clear", "complete"} => resolution[resolver.attempt].status = "PENDING_ROUTER_CLEAR"
  BY Zenon DEF ResolutionInv, SettledOf
<1> SUFFICES /\ \A u \in Writes : SettledOf(u)'
             /\ resolver'.at \in {"clear", "complete"} => resolution'[resolver'.attempt].status = "PENDING_ROUTER_CLEAR"
  BY Zenon DEF ResolutionInv, SettledOf
<1>1. CASE (\E w \in Writes : WriteStep(w)) \/ CrashAndRestart
  <2>1. KeepsSettled /\ UNCHANGED resolution
    BY Zenon, <1>1, RowsKept
  <2>2. \A u \in Writes : SettledOf(u)'
    BY Zenon, <2>1, <1>0 DEF KeepsSettled, SettledOf, Confirmed
  <2>3. UNCHANGED resolver \/ resolver'.at = "idle"
    <3>1. ASSUME CrashAndRestart PROVE resolver'.at = "idle"
      BY Zenon, <3>1 DEF CrashAndRestart, IdleResolver
    <3> QED
      BY Zenon, <1>1, <3>1, WriteFrame
  <2> QED
    BY Zenon, <2>1, <2>2, <2>3, <1>0
<1>2. CASE UNCHANGED <<state, resolution, resolver>>
  BY Zenon, <1>2, <1>0 DEF SettledOf
<1>3. CASE UNCHANGED vars \/ LoseProof \/ RetireRouter \/ PublishRouter
  <2>1. UNCHANGED <<state, resolution, resolver>>
    BY Zenon, <1>3 DEF vars, LoseProof, RetireRouter, PublishRouter, ledgerVars
  <2> QED
    BY Zenon, <2>1, <1>2
<1>4. CASE SnapshotStep
  <2>1. UNCHANGED <<state, resolution>>
    BY Zenon, <1>4 DEF SnapshotStep, StampSnapshot, ReadOrderBook, RecordSnapshot,
       LeaveBook, ledgerVars
  <2>2. UNCHANGED resolver \/ resolver'.at \in {"idle", "prepare"}
    <3>1. \/ resolver' = resolver \/ resolver' = IdleResolver
          \/ resolver' = [resolver EXCEPT !.at = "prepare", !.required = Len(snapshots) + 1]
      BY Zenon, <1>4 DEF SnapshotStep, StampSnapshot, ReadOrderBook, RecordSnapshot,
         LeaveBook
    <3>2. ResolverType
      BY Zenon DEF TypeInv, SnapshotType, ResolverType
    <3>3. ASSUME resolver' = [resolver EXCEPT !.at = "prepare", !.required = Len(snapshots) + 1]
          PROVE  resolver'.at = "prepare"
      BY Zenon, <3>2, <3>3 DEF ResolverType
    <3>4. IdleResolver.at = "idle"
      BY Zenon DEF IdleResolver
    <3> QED
      BY Zenon, <3>1, <3>3, <3>4
  <2> QED
    BY Zenon, <2>1, <2>2, <1>0 DEF SettledOf
<1>5. CASE BeginResolution \/ AbandonTrigger \/ AuditResolution
  <2>1. UNCHANGED <<state, resolution>> /\ resolver'.at \in {"idle", "trigger", "prepare", "finalize"}
    BY Zenon, <1>5, RequestMoves DEF BeginResolution, AbandonTrigger, AuditResolution,
       ledgerVars
  <2> QED
    BY Zenon, <2>1, <1>0 DEF SettledOf
<1>6. CASE PrepareResolution
  <2>1. PICK w \in Writes :
        /\ resolver'.at \in {"idle", "finalize", "audit"}
        /\ \/ UNCHANGED resolution
           \/ /\ resolution[w].status \in {"none", "PENDING_AUDIT"}
              /\ state[w] \in {"OUTCOME_UNKNOWN"} \cup Confirmed
              /\ Restated(w, "PENDING_AUDIT")
    BY Zenon, <1>6, PrepareResolutionMoves
  <2>2. UNCHANGED state
    BY Zenon, <1>6 DEF PrepareResolution
  <2>3. CASE UNCHANGED resolution
    BY Zenon, <2>1, <2>2, <2>3, <1>0 DEF SettledOf
  <2>4. CASE /\ resolution[w].status \in {"none", "PENDING_AUDIT"}
             /\ state[w] \in {"OUTCOME_UNKNOWN"} \cup Confirmed
             /\ Restated(w, "PENDING_AUDIT")
    <3>1. state[w] = "OUTCOME_UNKNOWN" /\ state[w] \notin Confirmed
      BY Zenon, <2>1, <2>4, <1>0 DEF SettledOf, Confirmed
    <3>2. SettledOf(w)'
      BY Zenon, <3>1, <2>2, <2>4 DEF SettledOf, Restated
    <3>3. \A u \in Writes \ {w} : SettledOf(u)'
      BY Zenon, <2>2, <2>4, <1>0 DEF SettledOf, Restated
    <3> QED
      BY Zenon, <3>2, <3>3, <2>1
  <2> QED
    BY Zenon, <2>1, <2>3, <2>4
<1>7. CASE FinalizeResolution
  <2>1. PICK w \in Writes :
        /\ resolver'.at \in {"idle", "clear"}
        /\ resolver'.at = "clear" =>
             resolver'.attempt = w /\ resolution'[w].status = "PENDING_ROUTER_CLEAR"
        /\ \/ UNCHANGED <<state, claim, resolution, health>>
           \/ /\ state'[w] \in Confirmed
              /\ \A u \in Writes \ {w} : state'[u] = state[u]
              /\ Restated(w, "PENDING_ROUTER_CLEAR")
    BY Zenon, <1>7, FinalizeMoves DEF Confirmed
  <2>2. CASE UNCHANGED <<state, claim, resolution, health>>
    BY Zenon, <2>1, <2>2, <1>0 DEF SettledOf
  <2>3. CASE /\ state'[w] \in Confirmed
             /\ \A u \in Writes \ {w} : state'[u] = state[u]
             /\ Restated(w, "PENDING_ROUTER_CLEAR")
    <3>1. SettledOf(w)'
      BY Zenon, <2>3 DEF SettledOf, Restated
    <3>2. \A u \in Writes \ {w} : SettledOf(u)'
      BY Zenon, <2>3, <1>0 DEF SettledOf, Restated
    <3> QED
      BY Zenon, <3>1, <3>2, <2>1
  <2> QED
    BY Zenon, <2>1, <2>2, <2>3
<1>8. CASE ClearFault
  <2>1. UNCHANGED <<state, resolution>> /\ resolver.at = "clear"
        /\ resolver'.at \in {"idle", "complete"} /\ (resolver'.at = "complete" => resolver'.attempt = resolver.attempt)
    BY Zenon, <1>8, ClearMoves DEF ClearFault, ledgerVars
  <2> QED
    BY Zenon, <2>1, <1>0 DEF SettledOf
<1>9. CASE CompleteResolution
  <2>1. PICK w \in Writes :
        /\ w = resolver.attempt /\ resolver'.at = "idle" /\ UNCHANGED state
        /\ UNCHANGED resolution \/ Restated(w, "COMMITTED")
    BY Zenon, <1>9, CompleteMoves DEF CompleteResolution
  <2>2. resolution[w].status = "PENDING_ROUTER_CLEAR"
    BY Zenon, <1>9, <2>1, <1>0 DEF CompleteResolution
  <2>3. CASE UNCHANGED resolution
    BY Zenon, <2>1, <2>3, <1>0 DEF SettledOf
  <2>4. CASE Restated(w, "COMMITTED")
    <3>1. SettledOf(w)'
      BY Zenon, <2>1, <2>2, <2>4, <1>0 DEF SettledOf, Restated
    <3>2. \A u \in Writes \ {w} : SettledOf(u)'
      BY Zenon, <2>1, <2>4, <1>0 DEF SettledOf, Restated
    <3> QED
      BY Zenon, <3>1, <3>2, <2>1
  <2> QED
    BY Zenon, <2>1, <2>3, <2>4
<1> QED
  BY Zenon, <1>1, <1>3, <1>4, <1>5, <1>6, <1>7, <1>8, <1>9 DEF Next, ResolutionStep

\* Every order that is claimed was free: an acknowledgement and a decision both look.
LEMMA ClaimNext ==
    ASSUME TypeInv, GenerationInv, DispatchInv, ResolutionInv, OneAttemptPerOrder, [Next]_vars
    PROVE  OneAttemptPerOrder'
<1>0. claim \in [Writes -> Writes \cup {None}]
  BY Zenon DEF TypeInv, LedgerType
<1>1. CASE UNCHANGED claim
  BY Zenon, <1>1 DEF OneAttemptPerOrder
<1>2. ASSUME NEW w \in Writes, NEW d \in Writes, Unclaimed(w, d), claim' = [claim EXCEPT ![w] = d]
      PROVE  OneAttemptPerOrder'
  <2>1. claim'[w] = d /\ \A u \in Writes \ {w} : claim'[u] = claim[u] /\ claim[u] # d
    BY Zenon, <1>0, <1>2 DEF Unclaimed
  <2> QED
    BY Zenon, <2>1 DEF OneAttemptPerOrder
<1>3. ASSUME NEW w \in Writes, WriteStep(w)
      PROVE  OneAttemptPerOrder'
  <2>1. CASE Acknowledge(w)
    <3>1. UNCHANGED claim \/ (Unclaimed(w, w) /\ claim' = [claim EXCEPT ![w] = w])
      BY Zenon, <2>1, AcknowledgeMoves
    <3> QED
      BY Zenon, <3>1, <1>1, <1>2
  <2> QED
    BY Zenon, <2>1, <1>3, <1>1, WriteFrame
<1>4. CASE FinalizeResolution
  <2>1. UNCHANGED claim \/ \E w, d \in Writes : Unclaimed(w, d) /\ claim' = [claim EXCEPT ![w] = d]
    BY Zenon, <1>4, FinalizeMoves
  <2> QED
    BY Zenon, <2>1, <1>1, <1>2
<1>5. CASE UNCHANGED vars \/ LoseProof \/ RetireRouter \/ PublishRouter \/ CrashAndRestart
  BY Zenon, <1>5, <1>1 DEF vars, LoseProof, RetireRouter, PublishRouter, CrashAndRestart,
     ledgerVars
<1>6. CASE SnapshotStep
  BY Zenon, <1>6, <1>1 DEF SnapshotStep, StampSnapshot, ReadOrderBook, RecordSnapshot,
     LeaveBook, ledgerVars
<1>7. CASE ResolutionStep /\ ~FinalizeResolution
  BY Zenon, <1>7, <1>1, ResolutionFrame
<1> QED
  BY Zenon, <1>3, <1>4, <1>5, <1>6, <1>7 DEF Next

\* The health row is computed over the rows, or what it warns of is still there.
LEMMA HealthKept ==
    ASSUME CriticalIsResolvable, list_unresolved_outcomes \subseteq list_unresolved_outcomes',
           health' \in {health, "manual_critical", Refreshed(state', resolution')}
    PROVE  CriticalIsResolvable'
<1>1. list_unresolved_outcomes' = UnresolvedIn(state', resolution')
  BY Zenon DEF list_unresolved_outcomes
<1>2. CASE health' = Refreshed(state', resolution')
  BY Zenon, <1>1, <1>2 DEF CriticalIsResolvable, Refreshed
<1>3. CASE health' = health \/ health' = "manual_critical"
  BY Zenon, <1>3 DEF CriticalIsResolvable
<1> QED
  BY Zenon, <1>2, <1>3

LEMMA HealthNext ==
    ASSUME TypeInv, GenerationInv, DispatchInv, ResolutionInv, CriticalIsResolvable, [Next]_vars
    PROVE  CriticalIsResolvable'
<1>0. /\ list_unresolved_outcomes = {u \in Writes : \/ state[u] = "OUTCOME_UNKNOWN"
           \/ resolution[u].status \in {"PENDING_AUDIT", "PENDING_ROUTER_CLEAR"}}
      /\ list_unresolved_outcomes' = {u \in Writes : \/ state'[u] = "OUTCOME_UNKNOWN"
           \/ resolution'[u].status \in {"PENDING_AUDIT", "PENDING_ROUTER_CLEAR"}}
  BY Zenon DEF list_unresolved_outcomes, UnresolvedIn
<1>1. CASE UNCHANGED <<state, resolution, health>>
  BY Zenon, <1>1 DEF CriticalIsResolvable, list_unresolved_outcomes, UnresolvedIn
<1>2. CASE \E w \in Writes : WriteStep(w)
  <2>1. KeepsSettled /\ UNCHANGED resolution
    BY Zenon, <1>2, RowsKept
  <2>2. list_unresolved_outcomes \subseteq list_unresolved_outcomes'
    BY Zenon, <1>0, <2>1 DEF KeepsSettled
  <2>3. PICK w \in Writes : WriteStep(w)
    BY Zenon, <1>2
  <2>4. CASE RefreshHealth(w)
    <3>1. UNCHANGED <<state, resolution>> /\ health' \in {health, Refreshed(state, resolution)}
      BY Zenon, <2>4 DEF RefreshHealth
    <3>2. Refreshed(state', resolution') = Refreshed(state, resolution)
      BY Zenon, <3>1
    <3> QED
      BY Zenon, <2>2, <3>1, <3>2, HealthKept
  <2>5. CASE MarkHealthCritical(w)
    <3>1. health' \in {health, "manual_critical"}
      BY Zenon, <2>5 DEF MarkHealthCritical
    <3> QED
      BY Zenon, <2>2, <3>1, HealthKept
  <2>6. CASE UNCHANGED health
    BY Zenon, <2>2, <2>6, HealthKept
  <2> QED
    BY Zenon, <2>3, <2>4, <2>5, <2>6, WriteFrame
<1>3. CASE CrashAndRestart
  <2>1. KeepsSettled /\ UNCHANGED resolution
    BY Zenon, <1>3, RowsKept
  <2>2. list_unresolved_outcomes \subseteq list_unresolved_outcomes'
    BY Zenon, <1>0, <2>1 DEF KeepsSettled
  <2>3. health' = health \/ list_unresolved_outcomes' # {}
    BY Zenon, <1>3, <2>1 DEF CrashAndRestart, list_unresolved_outcomes
  <2> QED
    BY Zenon, <2>2, <2>3 DEF CriticalIsResolvable
<1>4. CASE UNCHANGED vars \/ LoseProof \/ RetireRouter \/ PublishRouter
  BY Zenon, <1>4, <1>1 DEF vars, LoseProof, RetireRouter, PublishRouter, ledgerVars
<1>5. CASE SnapshotStep
  BY Zenon, <1>5, <1>1 DEF SnapshotStep, StampSnapshot, ReadOrderBook, RecordSnapshot,
     LeaveBook, ledgerVars
<1>6. CASE PrepareResolution
  <2>1. UNCHANGED <<state, health>>
    BY Zenon, <1>6 DEF PrepareResolution
  <2>2. PICK w \in Writes : UNCHANGED resolution \/ Restated(w, "PENDING_AUDIT")
    BY Zenon, <1>6, PrepareResolutionMoves
  <2>3. list_unresolved_outcomes \subseteq list_unresolved_outcomes'
    BY Zenon, <1>0, <2>1, <2>2 DEF Restated
  <2> QED
    BY Zenon, <2>1, <2>3, HealthKept
<1>7. CASE FinalizeResolution
  <2>1. \/ UNCHANGED <<state, resolution, health>>
        \/ /\ health' = Refreshed(state', resolution')
           /\ \E w \in Writes : /\ \A u \in Writes \ {w} : state'[u] = state[u]
                                /\ Restated(w, "PENDING_ROUTER_CLEAR")
    BY Zenon, <1>7, FinalizeMoves
  <2>2. CASE /\ health' = Refreshed(state', resolution')
             /\ \E w \in Writes : /\ \A u \in Writes \ {w} : state'[u] = state[u]
                                  /\ Restated(w, "PENDING_ROUTER_CLEAR")
    <3>1. list_unresolved_outcomes \subseteq list_unresolved_outcomes'
      BY Zenon, <1>0, <2>2 DEF Restated
    <3> QED
      BY Zenon, <2>2, <3>1, HealthKept
  <2> QED
    BY Zenon, <1>1, <2>1, <2>2
<1>8. CASE CompleteResolution
  <2>1. UNCHANGED state /\ (UNCHANGED <<resolution, health>> \/ health' = Refreshed(state, resolution'))
    BY Zenon, <1>8, CompleteMoves DEF CompleteResolution
  <2>2. CASE health' = Refreshed(state, resolution')
    <3>1. list_unresolved_outcomes' = UnresolvedIn(state, resolution')
      BY Zenon, <2>1 DEF list_unresolved_outcomes
    <3>2. health' = "outcome_unknown" => UnresolvedIn(state, resolution') # {} \/ health = "manual_critical"
      BY Zenon, <2>2 DEF Refreshed
    <3>3. health = "manual_critical" => health' = "manual_critical"
      BY Zenon, <2>2 DEF Refreshed
    <3> QED
      BY Zenon, <3>1, <3>2, <3>3 DEF CriticalIsResolvable
  <2> QED
    BY Zenon, <1>1, <2>1, <2>2
<1>9. CASE ResolutionStep /\ ~PrepareResolution /\ ~FinalizeResolution /\ ~CompleteResolution
  <2>1. UNCHANGED <<state, resolution, health>>
    BY Zenon, <1>9, ResolutionFrame
  <2> QED
    BY Zenon, <2>1, <1>1
<1> QED
  BY Zenon, <1>2, <1>3, <1>4, <1>5, <1>6, <1>7, <1>8, <1>9 DEF Next

-----------------------------------------------------------------------------
(* Faults and receipts of the generations *)

LEMMA FaultInit ==
    ASSUME Init
    PROVE  FaultInv
<1>1. faults = [g \in RouterIds |-> {}] /\ receipts = [g \in RouterIds |-> {}] /\ router = NoRouter
      /\ resolution = [w \in Writes |-> NoResolution]
  BY Zenon DEF Init
<1> QED
  BY Zenon, <1>1 DEF FaultInv, SettledStaysClear, NoResolution

\* A write that has ended stays ended.
LEMMA EndedStays ==
    ASSUME TypeInv, DispatchInv, [Next]_vars, NEW u \in Writes, pc[u] = "done"
    PROVE  pc'[u] = "done"
<1>1. ASSUME NEW w \in Writes, WriteStep(w)
      PROVE  pc'[u] = "done"
  BY Zenon, <1>1, WriteMoves
<1>2. CASE CrashAndRestart
  BY Zenon, <1>2, CrashMoves
<1>3. CASE UNCHANGED vars \/ LoseProof \/ RetireRouter \/ PublishRouter
  BY Zenon, <1>3 DEF vars, LoseProof, RetireRouter, PublishRouter, writeVars
<1>4. CASE SnapshotStep
  BY Zenon, <1>4 DEF SnapshotStep, StampSnapshot, ReadOrderBook, RecordSnapshot, LeaveBook,
     writeVars
<1>5. CASE ResolutionStep
  BY Zenon, <1>5, ResolutionFrame
<1> QED
  BY Zenon, <1>1, <1>2, <1>3, <1>4, <1>5 DEF Next

\* Where the faults, the router and the decisions that committed stay, so does the rest.
LEMMA FaultKept ==
    ASSUME TypeInv, DispatchInv, FaultInv, [Next]_vars,
           \A g \in RouterIds : faults'[g] \cup receipts'[g] \subseteq faults[g] \cup receipts[g],
           \A w \in Writes : resolution'[w].status = "COMMITTED" => resolution[w].status = "COMMITTED",
           router' = NoRouter \/ (router' = router /\ faults'[router] \subseteq faults[router])
    PROVE  FaultInv'
<1>1. \A g \in RouterIds : \A w \in faults'[g] \cup receipts'[g] : pc'[w] = "done"
  <2>1. \A g \in RouterIds : faults[g] \cup receipts[g] \subseteq Writes
    BY Zenon DEF TypeInv, RouterType
  <2> QED
    BY Zenon, <2>1, EndedStays DEF FaultInv
<1>2. \A w \in Writes : resolution'[w].status = "COMMITTED" => pc'[w] = "done"
  BY Zenon, EndedStays DEF FaultInv
<1>3. SettledStaysClear'
  BY Zenon DEF FaultInv, SettledStaysClear
<1> QED
  BY Zenon, <1>1, <1>2, <1>3 DEF FaultInv

LEMMA FaultNext ==
    ASSUME TypeInv, GenerationInv, DispatchInv, ResolutionInv, FaultInv, [Next]_vars
    PROVE  FaultInv'
<1>0. RouterType /\ MaxGenerations \in Nat
  BY Zenon, BoundsAssumption DEF TypeInv
<1>1. CASE UNCHANGED <<faults, receipts, resolution, router>>
  <2>1. \A g \in RouterIds : faults'[g] \cup receipts'[g] \subseteq faults[g] \cup receipts[g]
    BY Zenon, <1>1
  <2> QED
    BY Zenon, <1>1, <2>1, FaultKept
<1>2. ASSUME NEW w \in Writes, AddFault(w)
      PROVE  FaultInv'
  <2>1. UNCHANGED <<receipts, resolution, router>> /\ pc[w] # "done" /\ pc'[w] = "done"
        /\ (faults' = faults \/ faults' = [faults EXCEPT ![held[w]] = @ \cup {w}])
    <3>1. pc[w] = "fault" /\ pc'[w] = "done"
      BY Zenon, <1>2, QuietMoves DEF Moves
    <3> QED
      BY Zenon, <3>1, <1>2 DEF AddFault, ledgerVars
  <2>2. \A g \in RouterIds : faults'[g] \subseteq faults[g] \cup {w}
    BY Zenon, <2>1, <1>0 DEF RouterType
  <2>3. \A g \in RouterIds : faults[g] \cup receipts[g] \subseteq Writes
    BY Zenon, <1>0 DEF RouterType
  <2>4. \A g \in RouterIds : \A u \in faults'[g] \cup receipts'[g] : pc'[u] = "done"
    BY Zenon, <2>1, <2>2, <2>3, EndedStays DEF FaultInv
  <2>5. \A u \in Writes : resolution'[u].status = "COMMITTED" => pc'[u] = "done" /\ u # w
    BY Zenon, <2>1, EndedStays DEF FaultInv
  <2>6. SettledStaysClear'
    <3>1. router # NoRouter => router \in RouterIds
      BY <1>0 DEF RouterType, RouterIds, NoRouter
    <3> QED
      BY Zenon, <3>1, <2>1, <2>2, <2>5 DEF FaultInv, SettledStaysClear
  <2> QED
    BY Zenon, <2>4, <2>5, <2>6 DEF FaultInv
<1>3. CASE \E w \in Writes : WriteStep(w)
  BY Zenon, <1>1, <1>2, <1>3, WriteFrame
<1>4. CASE RetireRouter
  <2> DEFINE retiring == IF router # NoRouter THEN router ELSE draining
  <2>1. router' = NoRouter /\ UNCHANGED resolution
        /\ \/ UNCHANGED <<faults, receipts>>
           \/ faults' = [faults EXCEPT ![retiring] = {}] /\ receipts' = [receipts EXCEPT ![retiring] = {}]
    BY Zenon, <1>4 DEF RetireRouter, ledgerVars
  <2> HIDE DEF retiring
  <2>2. \A g \in RouterIds : faults'[g] \cup receipts'[g] \subseteq faults[g] \cup receipts[g]
    BY Zenon, <2>1, <1>0 DEF RouterType
  <2> QED
    BY Zenon, <2>1, <2>2, FaultKept
<1>5. CASE PublishRouter
  <2>1. PICK F \in SUBSET list_unresolved_outcomes : faults' = [faults EXCEPT ![generations + 1] = F]
    BY Zenon, <1>5 DEF PublishRouter
  <2>2. /\ router = NoRouter /\ draining = NoRouter /\ generations < MaxGenerations
        /\ router' = generations + 1 /\ UNCHANGED <<receipts, resolution, pc>>
    BY Zenon, <1>5 DEF PublishRouter, ledgerVars, writeVars
  <2>3. generations + 1 \in RouterIds /\ router' # NoRouter
    BY <2>2, <1>0 DEF RouterType, RouterIds, NoRouter
  <2>4. faults'[generations + 1] = F /\ \A g \in RouterIds \ {generations + 1} : faults'[g] = faults[g]
    BY Zenon, <2>1, <2>3, <1>0 DEF RouterType
  <2>5. ASSUME NEW u \in F
        PROVE  u \in Writes /\ pc[u] = "done" /\ resolution[u].status # "COMMITTED"
    <3>1. u \in Writes /\ (state[u] = "OUTCOME_UNKNOWN"
                           \/ resolution[u].status \in {"PENDING_AUDIT", "PENDING_ROUTER_CLEAR"})
      BY Zenon, <2>1, <2>5 DEF list_unresolved_outcomes, UnresolvedIn
    <3>2. state[u] \in {"OUTCOME_UNKNOWN"} \cup Confirmed /\ resolution[u].status # "COMMITTED"
      BY Zenon, <3>1 DEF ResolutionInv, Confirmed
    <3>3. pc[u] \notin Early
      BY Zenon, <3>1, <3>2 DEF DispatchInv, DispatchOf, Confirmed
    <3>4. pc[u] \notin InFlight
      BY <2>2, <3>1, <1>0 DEF GenerationInv, InFlight, NoRouter
    <3>5. pc[u] \in InFlight \cup {"start", "held", "done"}
      BY Zenon, <3>1 DEF TypeInv, WriteType
    <3> QED
      BY Zenon, <3>1, <3>2, <3>3, <3>4, <3>5 DEF Early
  <2>6. \A g \in RouterIds : \A u \in faults'[g] \cup receipts'[g] : pc'[u] = "done"
    BY Zenon, <2>2, <2>4, <2>5 DEF FaultInv
  <2>7. SettledStaysClear'
    BY Zenon, <2>2, <2>4, <2>5 DEF SettledStaysClear
  <2> QED
    BY Zenon, <2>2, <2>6, <2>7 DEF FaultInv
<1>6. CASE CrashAndRestart
  <2>1. router' = NoRouter /\ UNCHANGED resolution
        /\ faults' = [g \in RouterIds |-> {}] /\ receipts' = [g \in RouterIds |-> {}]
    BY Zenon, <1>6, CrashMoves
  <2>2. \A g \in RouterIds : faults'[g] \cup receipts'[g] \subseteq faults[g] \cup receipts[g]
    BY Zenon, <2>1
  <2> QED
    BY Zenon, <2>1, <2>2, FaultKept
<1>7. CASE UNCHANGED vars \/ LoseProof
  BY Zenon, <1>7, <1>1 DEF vars, LoseProof, ledgerVars, routerVars
<1>8. CASE SnapshotStep
  BY Zenon, <1>8, <1>1 DEF SnapshotStep, StampSnapshot, ReadOrderBook, RecordSnapshot,
     LeaveBook, ledgerVars,
                           routerVars
<1>9. CASE PrepareResolution \/ FinalizeResolution
  <2>1. UNCHANGED <<faults, receipts, router>>
    BY Zenon, <1>9 DEF PrepareResolution, FinalizeResolution, routerVars
  <2>2. \A g \in RouterIds : faults'[g] \cup receipts'[g] \subseteq faults[g] \cup receipts[g]
    BY Zenon, <2>1
  <2>3. UNCHANGED resolution
        \/ \E w \in Writes, s \in {"PENDING_AUDIT", "PENDING_ROUTER_CLEAR"} : Restated(w, s)
    BY Zenon, <1>9, PrepareResolutionMoves, FinalizeMoves
  <2>4. \A w \in Writes : resolution'[w].status = "COMMITTED" => resolution[w].status = "COMMITTED"
    BY Zenon, <2>3 DEF Restated
  <2> QED
    BY Zenon, <2>1, <2>2, <2>4, FaultKept
<1>10. CASE ClearFault
  <2>1. PICK w \in Writes :
          \/ UNCHANGED <<faults, receipts>>
          \/ /\ w \in faults[router]
             /\ faults' = [faults EXCEPT ![router] = @ \ {w}]
             /\ receipts' = [receipts EXCEPT ![router] = @ \cup {w}]
    BY Zenon, <1>10, ClearMoves
  <2>2. router \in RouterIds /\ UNCHANGED <<router, resolution>>
    BY Zenon, <1>10, ClearMoves DEF ClearFault, ledgerVars
  <2>3. CASE UNCHANGED <<faults, receipts>>
    BY Zenon, <2>2, <2>3, <1>1
  <2>4. CASE ~UNCHANGED <<faults, receipts>>
    <3>1. /\ w \in faults[router] /\ faults'[router] = faults[router] \ {w}
          /\ receipts'[router] = receipts[router] \cup {w}
          /\ \A g \in RouterIds \ {router} : faults'[g] = faults[g] /\ receipts'[g] = receipts[g]
      BY Zenon, <2>1, <2>2, <2>4, <1>0 DEF RouterType
    <3>2. \A g \in RouterIds : faults'[g] \cup receipts'[g] \subseteq faults[g] \cup receipts[g]
      BY Zenon, <3>1
    <3>3. faults'[router] \subseteq faults[router]
      BY Zenon, <3>1
    <3> QED
      BY Zenon, <3>2, <3>3, <2>2, FaultKept
  <2> QED
    BY Zenon, <2>3, <2>4
<1>11. CASE CompleteResolution
  <2>1. PICK w \in Writes : \/ UNCHANGED resolution
                            \/ w \in receipts[router] \ faults[router] /\ Restated(w, "COMMITTED")
    BY Zenon, <1>11, CompleteMoves
  <2>2. UNCHANGED <<faults, receipts, router, pc>> /\ router \in RouterIds
    <3>1. UNCHANGED <<faults, receipts, router, pc>> /\ router # NoRouter
      BY Zenon, <1>11 DEF CompleteResolution, routerVars, writeVars, GenerationInv
    <3> QED
      BY <3>1, <1>0 DEF RouterType, RouterIds, NoRouter
  <2>3. CASE UNCHANGED resolution
    BY Zenon, <2>2, <2>3, <1>1
  <2>4. CASE w \in receipts[router] \ faults[router] /\ Restated(w, "COMMITTED")
    <3>1. pc[w] = "done" /\ \A u \in Writes \ {w} : resolution'[u] = resolution[u]
      BY Zenon, <2>2, <2>4 DEF FaultInv, Restated
    <3>2. \A u \in Writes : resolution'[u].status = "COMMITTED" => pc'[u] = "done"
      BY Zenon, <2>2, <3>1 DEF FaultInv
    <3>3. \A g \in RouterIds : \A u \in faults'[g] \cup receipts'[g] : pc'[u] = "done"
      BY Zenon, <2>2 DEF FaultInv
    <3>4. SettledStaysClear'
      BY Zenon, <2>2, <2>4, <3>1 DEF FaultInv, SettledStaysClear
    <3> QED
      BY Zenon, <3>2, <3>3, <3>4 DEF FaultInv
  <2> QED
    BY Zenon, <2>1, <2>3, <2>4
<1>12. CASE BeginResolution \/ AbandonTrigger \/ AuditResolution
  BY Zenon, <1>12, <1>1 DEF BeginResolution, AbandonTrigger, AuditResolution, ledgerVars,
     routerVars
<1> QED
  BY Zenon, <1>3, <1>4, <1>5, <1>6, <1>7, <1>8, <1>9, <1>10, <1>11, <1>12 DEF Next,
     ResolutionStep

-----------------------------------------------------------------------------
(* What the snapshots have seen *)

LEMMA SeenIn ==
    ASSUME NEW s, NEW o
    PROVE  o \in Seen(s) <=> \E i \in 1..s : o \in snapshots[i].orders
  BY Zenon DEF Seen

LEMMA ObservedIsSeen ==
    ASSUME TypeInv
    PROVE  Observed = Seen(Len(snapshots))
<1>1. DOMAIN snapshots = 1..Len(snapshots)
  BY DEF TypeInv, SnapshotType
<1> QED
  BY Zenon, <1>1 DEF Observed, Seen

LEMMA ObservedInit ==
    ASSUME Init
    PROVE  ObservedInv /\ WitnessInv
<1>1. runner = IdleRunner /\ snapshots = <<>> /\ applied = {} /\ book = {} /\ state = [w \in Writes |-> "none"]
  BY Zenon DEF Init
<1>2. runner.at = "idle" /\ runner.completed = {} /\ runner.orders = {} /\ Len(snapshots) = 0
  BY Zenon, <1>1 DEF IdleRunner
<1>3. 1..Len(snapshots) = {}
  BY <1>2
<1>4. Seen(Len(snapshots)) = {}
  BY Zenon, <1>3, SeenIn
<1> QED
  BY Zenon, <1>1, <1>2, <1>3, <1>4 DEF ObservedInv, WitnessInv, OnlyPredatedIsDenied

\* A completed attempt stays completed.
LEMMA CompletedGrows ==
    ASSUME TypeInv, GenerationInv, DispatchInv, ResolutionInv, [Next]_vars
    PROVE  CompletedAttempts \subseteq CompletedAttempts'
<1>0. \A u \in Writes :
        /\ u \in CompletedAttempts <=>
             state[u] \in {"ACKNOWLEDGED", "FAILED_BEFORE_INVOKE", "OUTCOME_UNKNOWN"} \cup Confirmed
        /\ u \in CompletedAttempts' <=>
             state'[u] \in {"ACKNOWLEDGED", "FAILED_BEFORE_INVOKE", "OUTCOME_UNKNOWN"} \cup Confirmed
  BY Zenon DEF CompletedAttempts
<1>1. ASSUME \A u \in Writes : u \in CompletedAttempts => state'[u] = state[u] \/ state'[u] \in Confirmed
      PROVE  CompletedAttempts \subseteq CompletedAttempts'
  BY Zenon, <1>0, <1>1 DEF CompletedAttempts
<1>2. ASSUME NEW w \in Writes, WriteStep(w)
      PROVE  \A u \in Writes : u \in CompletedAttempts => state'[u] = state[u] \/ state'[u] \in Confirmed
  <2>1. Advances(state[w], state'[w]) /\ \A u \in Writes \ {w} : state'[u] = state[u]
    BY Zenon, <1>2, WriteMoves
  <2> QED
    BY Zenon, <2>1, <1>0 DEF Advances, Confirmed
<1>3. ASSUME CrashAndRestart
      PROVE  \A u \in Writes : u \in CompletedAttempts => state'[u] = state[u] \/ state'[u] \in Confirmed
  <2>1. \A u \in Writes : state'[u] = Recovered(u)
    BY Zenon, <1>3, CrashMoves
  <2> QED
    BY Zenon, <2>1, <1>0, RecoveredRow DEF Confirmed
<1>4. ASSUME FinalizeResolution
      PROVE  \A u \in Writes : u \in CompletedAttempts => state'[u] = state[u] \/ state'[u] \in Confirmed
  BY Zenon, <1>4, FinalizeMoves DEF Confirmed
<1>5. ASSUME UNCHANGED vars \/ LoseProof \/ RetireRouter \/ PublishRouter \/ SnapshotStep
      PROVE  UNCHANGED state
  <2>1. CASE SnapshotStep
    BY Zenon, <2>1 DEF SnapshotStep, StampSnapshot, ReadOrderBook, RecordSnapshot,
       LeaveBook, ledgerVars
  <2> QED
    BY Zenon, <2>1, <1>5 DEF vars, LoseProof, RetireRouter, PublishRouter, ledgerVars
<1>6. ASSUME ResolutionStep
      PROVE  FinalizeResolution \/ UNCHANGED state
  BY Zenon, <1>6, ResolutionFrame
<1> QED
  BY Zenon, <1>1, <1>2, <1>3, <1>4, <1>5, <1>6 DEF Next

\* What leaves the runner and the snapshots alone.
LEMMA WatchFrame ==
    ASSUME [Next]_vars, ~SnapshotStep
    PROVE  /\ UNCHANGED <<snapshots, firstSeen>>
           /\ AbandonTrigger \/ CrashAndRestart \/ UNCHANGED runner
           /\ (\E w \in Writes : EnterAdapter(w)) \/ UNCHANGED <<applied, book>>
<1>1. ASSUME NEW w \in Writes, WriteStep(w)
      PROVE  /\ UNCHANGED <<snapshots, firstSeen, runner>>
             /\ EnterAdapter(w) \/ UNCHANGED <<applied, book>>
  BY Zenon, <1>1, WriteFrame
<1>2. ASSUME ResolutionStep
      PROVE  UNCHANGED <<snapshots, firstSeen, applied, book>> /\ (AbandonTrigger \/ UNCHANGED runner)
  BY Zenon, <1>2, ResolutionFrame
<1>3. ASSUME UNCHANGED vars \/ LoseProof \/ RetireRouter \/ PublishRouter
      PROVE  UNCHANGED <<snapshots, firstSeen, applied, book, runner>>
  BY Zenon, <1>3 DEF vars, LoseProof, RetireRouter, PublishRouter, ledgerVars, brokerVars
<1>4. ASSUME CrashAndRestart
      PROVE  UNCHANGED <<snapshots, firstSeen, applied, book>>
  BY Zenon, <1>4 DEF CrashAndRestart, brokerVars
<1> QED
  BY Zenon, <1>1, <1>2, <1>3, <1>4 DEF Next

\* A recorded snapshot is the last of a sequence that keeps the others.
LEMMA RecordMoves ==
    ASSUME TypeInv, RecordSnapshot
    PROVE  /\ runner' = IdleRunner /\ UNCHANGED <<state, applied, book, faulty>>
           /\ \/ UNCHANGED <<snapshots, firstSeen>>
              \/ /\ Len(snapshots') = Len(snapshots) + 1
                 /\ \A i \in 1..Len(snapshots) : snapshots'[i] = snapshots[i]
                 /\ snapshots'[Len(snapshots) + 1].completed = runner.completed
                 /\ snapshots'[Len(snapshots) + 1].orders = runner.orders
                 /\ \A o \in Writes : firstSeen'[o] = IF o \in runner.orders \ Observed THEN runner.invoked
                                                      ELSE firstSeen[o]
<1>1. runner' = IdleRunner /\ UNCHANGED <<state, applied, book, faulty>>
  BY Zenon DEF RecordSnapshot, worldVars, settings, brokerVars
<1>2. \/ UNCHANGED <<snapshots, firstSeen>>
      \/ /\ snapshots' = Append(snapshots, [completed |-> runner.completed, orders |-> runner.orders])
         /\ firstSeen' = [o \in Writes |-> IF o \in runner.orders \ Observed THEN runner.invoked
                                           ELSE firstSeen[o]]
  BY Zenon DEF RecordSnapshot
<1>3. snapshots \in Seq(Snapshots)
  BY Zenon DEF TypeInv, SnapshotType
<1>4. CASE /\ snapshots' = Append(snapshots, [completed |-> runner.completed, orders |-> runner.orders])
           /\ firstSeen' = [o \in Writes |-> IF o \in runner.orders \ Observed THEN runner.invoked
                                             ELSE firstSeen[o]]
  <2>1. [completed |-> runner.completed, orders |-> runner.orders] \in Snapshots
    BY Zenon DEF TypeInv, SnapshotType, Snapshots
  <2>2. /\ Len(snapshots') = Len(snapshots) + 1
        /\ \A i \in 1..Len(snapshots) : snapshots'[i] = snapshots[i]
        /\ snapshots'[Len(snapshots) + 1] = [completed |-> runner.completed, orders |-> runner.orders]
    BY <1>3, <1>4, <2>1
  <2>3. /\ snapshots'[Len(snapshots) + 1].completed = runner.completed
        /\ snapshots'[Len(snapshots) + 1].orders = runner.orders
    BY <2>2
  <2> QED
    BY Zenon, <1>1, <1>4, <2>2, <2>3
<1> QED
  BY Zenon, <1>1, <1>2, <1>4

LEMMA ObservedNext ==
    ASSUME TypeInv, GenerationInv, DispatchInv, ResolutionInv, ObservedInv, [Next]_vars
    PROVE  ObservedInv'
<1>0. CompletedAttempts \subseteq CompletedAttempts'
  BY Zenon, CompletedGrows
<1>1. ASSUME UNCHANGED snapshots, runner'.completed \subseteq runner.completed \cup CompletedAttempts,
             applied' \ book' \subseteq (applied \ book) \cup Seen(Len(snapshots))
      PROVE  ObservedInv'
  <2>1. Seen(Len(snapshots))' = Seen(Len(snapshots))
    BY Zenon, <1>1 DEF Seen
  <2>2. applied' \subseteq book' \cup Seen(Len(snapshots))'
    BY Zenon, <1>1, <2>1 DEF ObservedInv
  <2>3. runner'.completed \subseteq CompletedAttempts'
    BY Zenon, <1>0, <1>1 DEF ObservedInv
  <2>4. \A i \in 1..Len(snapshots') : snapshots'[i].completed \subseteq CompletedAttempts'
    BY Zenon, <1>0, <1>1 DEF ObservedInv
  <2> QED
    BY Zenon, <2>2, <2>3, <2>4 DEF ObservedInv
<1>2. CASE ~SnapshotStep
  <2>1. /\ UNCHANGED snapshots
        /\ AbandonTrigger \/ CrashAndRestart \/ UNCHANGED runner
        /\ (\E w \in Writes : EnterAdapter(w)) \/ UNCHANGED <<applied, book>>
    BY Zenon, <1>2, WatchFrame
  <2>2. runner'.completed \subseteq runner.completed
    <3>1. CASE AbandonTrigger
      <4>1. runner'.completed = runner.completed
        BY Zenon, <3>1 DEF AbandonTrigger, TypeInv, SnapshotType
      <4> QED
        BY Zenon, <4>1
    <3>2. CASE CrashAndRestart
      BY Zenon, <3>2 DEF CrashAndRestart, IdleRunner
    <3> QED
      BY Zenon, <3>1, <3>2, <2>1
  <2>3. applied' \ book' \subseteq applied \ book
    <3>1. ASSUME NEW w \in Writes, EnterAdapter(w)
          PROVE  applied' \ book' \subseteq applied \ book
      <4>1. UNCHANGED <<applied, book>> \/ (applied' = applied \cup {w} /\ book' = book \cup {w})
        BY Zenon, <3>1 DEF EnterAdapter, brokerVars
      <4> QED
        BY Zenon, <4>1
    <3> QED
      BY Zenon, <3>1, <2>1
  <2> QED
    BY Zenon, <1>1, <2>1, <2>2, <2>3
<1>3. CASE StampSnapshot
  <2>1. UNCHANGED <<snapshots, applied, book>>
    BY Zenon, <1>3 DEF StampSnapshot, ledgerVars, brokerVars
  <2>2. runner'.completed = CompletedAttempts
    BY Zenon, <1>3 DEF StampSnapshot
  <2> QED
    BY Zenon, <1>1, <2>1, <2>2
<1>4. CASE ReadOrderBook
  <2>1. UNCHANGED <<snapshots, applied, book>>
    BY Zenon, <1>4 DEF ReadOrderBook, ledgerVars, brokerVars
  <2>2. runner'.completed = runner.completed
    BY Zenon, <1>4 DEF ReadOrderBook, TypeInv, SnapshotType
  <2> QED
    BY Zenon, <1>1, <2>1, <2>2
<1>5. CASE LeaveBook
  <2>1. UNCHANGED <<snapshots, applied, runner>> /\ \E o \in book \cap Observed : book' = book \ {o}
    BY Zenon, <1>5 DEF LeaveBook, ledgerVars
  <2>2. PICK o \in book \cap Observed : book' = book \ {o}
    BY Zenon, <2>1
  <2>3. o \in Seen(Len(snapshots))
    BY Zenon, <2>2, ObservedIsSeen
  <2>4. applied' \ book' \subseteq (applied \ book) \cup Seen(Len(snapshots))
    BY Zenon, <2>1, <2>2, <2>3
  <2> QED
    BY Zenon, <1>1, <2>1, <2>4
<1>6. CASE RecordSnapshot
  <2>0. runner'.completed = {} /\ UNCHANGED <<applied, book>>
    <3>1. runner' = IdleRunner /\ UNCHANGED <<applied, book>>
      BY Zenon, <1>6, RecordMoves
    <3> QED
      BY Zenon, <3>1 DEF IdleRunner
  <2>1. CASE UNCHANGED snapshots
    BY Zenon, <1>1, <2>0, <2>1
  <2>2. CASE ~UNCHANGED snapshots
    <3>1. /\ Len(snapshots') = Len(snapshots) + 1
          /\ \A i \in 1..Len(snapshots) : snapshots'[i] = snapshots[i]
          /\ snapshots'[Len(snapshots) + 1].completed = runner.completed
      BY Zenon, <1>6, <2>2, RecordMoves
    <3>2. Len(snapshots) \in Nat
      BY DEF TypeInv, SnapshotType
    <3>3. 1..Len(snapshots') = (1..Len(snapshots)) \cup {Len(snapshots) + 1}
      BY <3>1, <3>2
    <3>4. \A i \in 1..Len(snapshots') : snapshots'[i].completed \subseteq CompletedAttempts'
      BY Zenon, <3>1, <3>3, <1>0 DEF ObservedInv
    <3>5. Seen(Len(snapshots)) \subseteq Seen(Len(snapshots))'
      <4>1. ASSUME NEW o \in Seen(Len(snapshots))
            PROVE  o \in Seen(Len(snapshots))'
        <5>1. PICK i \in 1..Len(snapshots) : o \in snapshots[i].orders
          BY Zenon, <4>1, SeenIn
        <5>2. i \in 1..Len(snapshots') /\ o \in snapshots'[i].orders
          BY Zenon, <5>1, <3>1, <3>3
        <5> QED
          BY Zenon, <5>2 DEF Seen
      <4> QED
        BY Zenon, <4>1
    <3> QED
      BY Zenon, <2>0, <3>4, <3>5 DEF ObservedInv
  <2> QED
    BY Zenon, <2>1, <2>2
<1> QED
  BY Zenon, <1>2, <1>3, <1>4, <1>5, <1>6 DEF SnapshotStep

\* The evidence for "not applied" fails in one way only for an order the broker accepted:
\* the decision's snapshot says the attempt was over, so its order had been observed by
\* then, with its own intent; the ledger must hold it as seen before the invocation.
LEMMA NotAppliedEvidence ==
    ASSUME TypeInv, WitnessInv, NEW w \in applied, w \in Writes, NEW s, Fresh(w, s), Evidence(w, None, s)
    PROVE  Predated(w)
<1>1. s \in 1..Len(snapshots) /\ w \in snapshots[s].completed /\ Len(snapshots) \in Nat
  BY DEF Fresh, TypeInv, SnapshotType
<1>2. w \in Seen(s)
  BY Zenon, <1>1 DEF WitnessInv
<1>3. w \in Seen(Len(snapshots))
  <2>1. PICK i \in 1..s : w \in snapshots[i].orders
    BY Zenon, <1>2, SeenIn
  <2>2. s \in 1..Len(snapshots) /\ Len(snapshots) \in Nat /\ i \in 1..s
    BY Zenon, <1>1, <2>1
  <2>3. i \in 1..Len(snapshots)
    BY ONLY <2>2, SMT
  <2> QED
    BY Zenon, <2>1, <2>3, SeenIn
<1>4. ASSUME w \in firstSeen[w]
      PROVE  FALSE
  <2>1. w \in HistoricalOrders(w, s)
    BY Zenon, <1>2, <1>4 DEF HistoricalOrders, Seen
  <2> QED
    BY Zenon, <2>1 DEF Evidence
<1> QED
  BY Zenon, <1>3, <1>4, ObservedIsSeen DEF Predated

\* The broker accepts no order of an attempt that is over.
LEMMA AppliedMoves ==
    ASSUME DispatchInv, [Next]_vars, ~SnapshotStep
    PROVE  \A u \in applied' : \/ u \in applied
                               \/ /\ u \in Writes /\ state'[u] = state[u]
                                  /\ state[u] \in {"none", "PREPARED", "INVOKED"}
<1>1. (\E w \in Writes : EnterAdapter(w)) \/ UNCHANGED applied
  BY Zenon, WatchFrame
<1>2. ASSUME NEW w \in Writes, EnterAdapter(w)
      PROVE  /\ applied' \subseteq applied \cup {w} /\ state'[w] = state[w]
             /\ state[w] \in {"none", "PREPARED", "INVOKED"}
  <2>1. pc[w] = "invoked" /\ state' = state /\ applied' \subseteq applied \cup {w}
    BY Zenon, <1>2 DEF EnterAdapter, ledgerVars, brokerVars
  <2> QED
    BY Zenon, <2>1 DEF DispatchInv, DispatchOf
<1> QED
  BY Zenon, <1>1, <1>2

LEMMA WitnessNext ==
    ASSUME TypeInv, GenerationInv, DispatchInv, ResolutionInv, ObservedInv, WitnessInv, [Next]_vars
    PROVE  WitnessInv'
<1>1. /\ runner.at = "read" => runner.completed \cap applied \subseteq runner.orders \cup Seen(Len(snapshots))
      /\ \A i \in 1..Len(snapshots) : snapshots[i].completed \cap applied \subseteq Seen(i)
      /\ \A w \in Writes : state[w] = "CONFIRMED_NOT_APPLIED" /\ w \in applied => Predated(w)
  BY Zenon DEF WitnessInv, OnlyPredatedIsDenied
<1>2. ASSUME UNCHANGED <<snapshots, firstSeen>>
      PROVE  /\ Seen(Len(snapshots))' = Seen(Len(snapshots)) /\ \A i : Seen(i)' = Seen(i)
             /\ \A w : Predated(w)' <=> Predated(w)
  BY Zenon, <1>2 DEF Seen, Predated, Observed
<1>3. CASE ~SnapshotStep
  <2>1. /\ UNCHANGED <<snapshots, firstSeen>>
        /\ AbandonTrigger \/ CrashAndRestart \/ UNCHANGED runner
    BY Zenon, <1>3, WatchFrame
  <2>2. \/ runner'.at = "idle"
        \/ /\ runner'.at = runner.at
           /\ runner'.completed = runner.completed /\ runner'.orders = runner.orders
    <3>1. CASE AbandonTrigger
      BY Zenon, <3>1 DEF AbandonTrigger, TypeInv, SnapshotType
    <3>2. CASE CrashAndRestart
      BY Zenon, <3>2 DEF CrashAndRestart, IdleRunner
    <3> QED
      BY Zenon, <3>1, <3>2, <2>1
  <2>3. \A u \in applied' : u \in CompletedAttempts => u \in applied
    BY Zenon, <1>3, AppliedMoves DEF CompletedAttempts, Confirmed
  <2>4. runner'.at = "read" => runner'.completed \cap applied' \subseteq runner'.orders \cup Seen(Len(snapshots))
    BY Zenon, <2>2, <2>3, <1>1 DEF ObservedInv
  <2>5. \A i \in 1..Len(snapshots) : snapshots[i].completed \cap applied' \subseteq Seen(i)
    BY Zenon, <2>3, <1>1 DEF ObservedInv
  <2>6. \A w \in Writes : state'[w] = "CONFIRMED_NOT_APPLIED" /\ w \in applied' => Predated(w)
    <3>1. CASE FinalizeResolution
      <4>1. UNCHANGED applied
        BY Zenon, <3>1 DEF FinalizeResolution, brokerVars
      <4>2. ASSUME NEW w \in Writes, state'[w] = "CONFIRMED_NOT_APPLIED", state'[w] # state[w]
            PROVE  \E s : Fresh(w, s) /\ Evidence(w, None, s)
        <5>1. "CONFIRMED_NOT_APPLIED" # "CONFIRMED_APPLIED"
          BY Zenon
        <5> QED
          BY Zenon, <3>1, <4>2, <5>1, FinalizeMoves
      <4> QED
        BY Zenon, <4>1, <4>2, <1>1, NotAppliedEvidence
    <3>2. CASE ~FinalizeResolution
      <4>1. \A w \in Writes : state'[w] = "CONFIRMED_NOT_APPLIED" => state[w] = "CONFIRMED_NOT_APPLIED"
        <5>1. CASE (\E w \in Writes : WriteStep(w)) \/ CrashAndRestart
          BY Zenon, <5>1, RowsKept DEF KeepsSettled, Confirmed
        <5>2. CASE ResolutionStep
          BY Zenon, <5>2, <3>2, ResolutionFrame
        <5>3. CASE UNCHANGED vars \/ LoseProof \/ RetireRouter \/ PublishRouter
          BY Zenon, <5>3 DEF vars, LoseProof, RetireRouter, PublishRouter, ledgerVars
        <5> QED
          BY Zenon, <1>3, <5>1, <5>2, <5>3 DEF Next
      <4>2. \A w \in applied' : w \in applied \/ state'[w] # "CONFIRMED_NOT_APPLIED"
        BY Zenon, <1>3, AppliedMoves
      <4> QED
        BY Zenon, <4>1, <4>2, <1>1
    <3> QED
      BY Zenon, <3>1, <3>2
  <2> QED
    BY Zenon, <2>1, <2>4, <2>5, <2>6, <1>2 DEF WitnessInv, OnlyPredatedIsDenied
<1>4. CASE StampSnapshot
  <2>1. UNCHANGED <<snapshots, firstSeen, applied, state>> /\ runner'.at = "stamped"
    BY Zenon, <1>4 DEF StampSnapshot, ledgerVars, brokerVars
  <2> QED
    BY Zenon, <2>1, <1>1, <1>2 DEF WitnessInv, OnlyPredatedIsDenied
<1>5. CASE ReadOrderBook
  <2>1. UNCHANGED <<snapshots, firstSeen, applied, state>> /\ runner'.orders = book
    BY Zenon, <1>5 DEF ReadOrderBook, ledgerVars, brokerVars, TypeInv, SnapshotType
  <2>2. applied \subseteq book \cup Seen(Len(snapshots))
    BY Zenon DEF ObservedInv
  <2> QED
    BY Zenon, <2>1, <2>2, <1>1, <1>2 DEF WitnessInv, OnlyPredatedIsDenied
<1>6. CASE LeaveBook
  <2>1. UNCHANGED <<snapshots, firstSeen, applied, state, runner>>
    BY Zenon, <1>6 DEF LeaveBook, ledgerVars
  <2> QED
    BY Zenon, <2>1, <1>1, <1>2 DEF WitnessInv, OnlyPredatedIsDenied
<1>7. CASE RecordSnapshot
  <2>0. runner'.at = "idle" /\ UNCHANGED <<applied, state>> /\ runner.at = "read"
    <3>1. runner' = IdleRunner /\ UNCHANGED <<applied, state>>
      BY Zenon, <1>7, RecordMoves
    <3>2. runner.at = "read"
      BY Zenon, <1>7 DEF RecordSnapshot
    <3> QED
      BY Zenon, <3>1, <3>2 DEF IdleRunner
  <2>1. CASE UNCHANGED <<snapshots, firstSeen>>
    BY Zenon, <2>0, <2>1, <1>1, <1>2 DEF WitnessInv, OnlyPredatedIsDenied
  <2>2. CASE ~UNCHANGED <<snapshots, firstSeen>>
    <3>0. Len(snapshots) \in Nat /\ snapshots \in Seq(Snapshots)
      BY DEF TypeInv, SnapshotType
    <3>last. PICK last \in Nat : last = Len(snapshots) + 1
      BY <3>0
    <3>1. /\ Len(snapshots') = last
          /\ \A i \in 1..Len(snapshots) : snapshots'[i] = snapshots[i]
          /\ snapshots'[last].completed = runner.completed /\ snapshots'[last].orders = runner.orders
          /\ \A o \in Writes : firstSeen'[o] = IF o \in runner.orders \ Observed THEN runner.invoked
                                               ELSE firstSeen[o]
      BY Zenon, <1>7, <2>2, <3>last, RecordMoves
    <3>3. 1..last = (1..Len(snapshots)) \cup {last} /\ \A i \in 1..Len(snapshots) : 1..i \subseteq 1..Len(snapshots)
      BY <3>0, <3>last
    <3>4. \A i \in 1..Len(snapshots) : \A o : o \in Seen(i) => o \in Seen(i)'
      <4>1. SUFFICES ASSUME NEW i \in 1..Len(snapshots), NEW o, o \in Seen(i)
                     PROVE  o \in Seen(i)'
        BY Zenon
      <4>2. PICK j \in 1..i : o \in snapshots[j].orders
        BY Zenon, <4>1, SeenIn
      <4>3. o \in snapshots'[j].orders
        BY Zenon, <4>2, <3>1, <3>3
      <4> QED
        BY Zenon, <4>3 DEF Seen
    <3>5. \A o : o \in Seen(Len(snapshots))' <=> o \in runner.orders \/ o \in Seen(Len(snapshots))
      <4>1. SUFFICES ASSUME NEW o
                     PROVE  o \in Seen(Len(snapshots))' <=> o \in runner.orders \/ o \in Seen(Len(snapshots))
        BY Zenon
      <4>2. o \in Seen(Len(snapshots))' <=> \E i \in 1..last : o \in snapshots'[i].orders
        BY Zenon, <3>1 DEF Seen
      <4>3. o \in Seen(Len(snapshots)) <=> \E i \in 1..Len(snapshots) : o \in snapshots[i].orders
        BY Zenon, SeenIn
      <4> QED
        BY Zenon, <4>2, <4>3, <3>1, <3>3
    <3>6. \A i \in 1..Len(snapshots') : snapshots'[i].completed \cap applied' \subseteq Seen(i)'
      <4>1. \A i \in 1..Len(snapshots) : snapshots'[i].completed \cap applied' \subseteq Seen(i)'
        BY Zenon, <2>0, <3>1, <3>4, <1>1
      <4>2. Seen(last)' = Seen(Len(snapshots))'
        BY Zenon, <3>1 DEF Seen
      <4> QED
        BY Zenon, <4>1, <4>2, <2>0, <3>1, <3>3, <3>5, <1>1
    <3>7. \A w \in Writes : Predated(w) => Predated(w)'
      <4>1. Observed = Seen(Len(snapshots)) /\ Observed' = Seen(Len(snapshots))'
        <5>1. TypeInv'
          BY Zenon, TypeNext
        <5>2. DOMAIN snapshots' = 1..Len(snapshots')
          BY <5>1 DEF TypeInv, SnapshotType
        <5>3. Observed' = Seen(Len(snapshots))'
          BY Zenon, <5>2 DEF Observed, Seen
        <5> QED
          BY Zenon, <5>3, ObservedIsSeen
      <4> QED
        BY Zenon, <4>1, <3>1, <3>5 DEF Predated
    <3> QED
      BY Zenon, <2>0, <3>6, <3>7, <1>1 DEF WitnessInv, OnlyPredatedIsDenied
  <2> QED
    BY Zenon, <2>1, <2>2
<1> QED
  BY Zenon, <1>3, <1>4, <1>5, <1>6, <1>7 DEF SnapshotStep

-----------------------------------------------------------------------------
(* The invariant and what it gives *)

LifecycleInv ==
    /\ TypeInv /\ GenerationInv /\ DispatchInv /\ FaithfulInv /\ ResolutionInv
    /\ OneAttemptPerOrder /\ CriticalIsResolvable /\ FaultInv /\ ObservedInv /\ WitnessInv

LEMMA LifecycleInit == Init => LifecycleInv
  BY Zenon, TypeInit, GenerationInit, DispatchInit, ResolutionInit, FaultInit, ObservedInit
     DEF LifecycleInv

LEMMA LifecycleNext == LifecycleInv /\ [Next]_vars => LifecycleInv'
<1> SUFFICES ASSUME LifecycleInv, [Next]_vars
             PROVE  LifecycleInv'
  BY Zenon
<1>1. /\ TypeInv /\ GenerationInv /\ DispatchInv /\ FaithfulInv /\ ResolutionInv
      /\ OneAttemptPerOrder /\ CriticalIsResolvable /\ FaultInv /\ ObservedInv /\ WitnessInv
  BY Zenon DEF LifecycleInv
<1>2. TypeInv' /\ GenerationInv' /\ DispatchInv' /\ FaithfulInv' /\ ResolutionInv'
  BY Zenon, <1>1, TypeNext, GenerationNext, DispatchNext, ResolutionNext
<1>3. OneAttemptPerOrder' /\ CriticalIsResolvable' /\ FaultInv' /\ ObservedInv' /\ WitnessInv'
  BY Zenon, <1>1, ClaimNext, HealthNext, FaultNext, ObservedNext, WitnessNext
<1> QED
  BY Zenon, <1>2, <1>3 DEF LifecycleInv

\* The inductive invariant holds in every reachable state.
THEOREM LifecycleInvariant == Spec => []LifecycleInv
  BY LifecycleInit, LifecycleNext, PTL DEF Spec

\* The ledger's rows, the router generations, the write threads and the requests keep
\* their types, whatever the ledger does.
THEOREM LifecycleTypes == Spec => []TypeOK
<1>1. LifecycleInv => TypeOK
  <2> SUFFICES ASSUME TypeInv
               PROVE  TypeOK
    BY Zenon DEF LifecycleInv
  <2>1. \A i \in DOMAIN snapshots : snapshots[i] \in [completed : SUBSET Writes, orders : SUBSET Writes]
    <3>1. snapshots \in Seq(Snapshots)
      BY Zenon DEF TypeInv, SnapshotType
    <3>2. \A i \in DOMAIN snapshots : snapshots[i] \in Snapshots
      BY <3>1
    <3> QED
      BY Zenon, <3>2 DEF Snapshots
  <2>2. {router, draining, generations} \subseteq 0..MaxGenerations
    BY Zenon DEF TypeInv, RouterType
  <2>3. LedgerType /\ SnapshotType /\ RouterType /\ WriteType /\ WorldType
    BY Zenon DEF TypeInv
  <2> QED
    BY Zenon, <2>1, <2>2, <2>3 DEF TypeOK, LedgerType, SnapshotType, RouterType, WriteType,
       WorldType
<1> QED
  BY <1>1, LifecycleInvariant, PTL

\* No two router generations write at once, through retirements, drains that time out,
\* lapsed leases, rebuilds and restarts: admit_write, retire_broker_router_generation.
THEOREM SingleWritingGeneration == Spec => []OneWritingGeneration
<1>1. LifecycleInv => OneWritingGeneration
  <2> SUFFICES ASSUME GenerationInv
               PROVE  OneWritingGeneration
    BY Zenon DEF LifecycleInv
  <2> DEFINE writing == IF router # NoRouter THEN router ELSE draining
  <2>1. \A w \in Writes : pc[w] \in InFlight => held[w] = writing
    <3>1. \A w \in Writes : pc[w] \in InFlight => held[w] \in 1..generations /\ held[w] \in {router, draining}
      BY Zenon DEF GenerationInv, InFlight
    <3>2. \A w \in Writes : pc[w] \in InFlight => held[w] # NoRouter
      BY <3>1 DEF NoRouter
    <3> QED
      BY Zenon, <3>1, <3>2 DEF GenerationInv
  <2> HIDE DEF writing
  <2> QED
    BY Zenon, <2>1 DEF OneWritingGeneration, Admitted
<1> QED
  BY <1>1, LifecycleInvariant, PTL

\* An attempt that the ledger says failed before invocation was never sent, though a
\* transaction may commit and raise and the process may stop anywhere: prepare_dispatch,
\* mark_invoked, _recover_interrupted_dispatches.
THEOREM FailedWasNeverSent == Spec => []FailedMeansNotEntered
<1>1. LifecycleInv => FailedMeansNotEntered
  BY Zenon DEF LifecycleInv, DispatchInv, DispatchOf, FailedMeansNotEntered, Normal
<1> QED
  BY <1>1, LifecycleInvariant, PTL

\* No broker order is given to two attempts by acknowledge or finalize_outcome_resolution.
THEOREM OrdersHaveOneAttempt == Spec => []OneAttemptPerOrder
<1>1. LifecycleInv => OneAttemptPerOrder
  BY Zenon DEF LifecycleInv
<1> QED
  BY <1>1, LifecycleInvariant, PTL

\* A resolution that completed leaves no fault in the published router, and no late
\* failure handler adds one: clear_lifecycle_fault, complete_outcome_resolution.
THEOREM ResolvedStaysClear == Spec => []SettledStaysClear
<1>1. LifecycleInv => SettledStaysClear
  BY Zenon DEF LifecycleInv, FaultInv
<1> QED
  BY <1>1, LifecycleInvariant, PTL

\* A critical outcome_unknown health row always comes with an attempt to resolve:
\* _refresh_outcome_health.
THEOREM CriticalHasAttempt == Spec => []CriticalIsResolvable
<1>1. LifecycleInv => CriticalIsResolvable
  BY Zenon DEF LifecycleInv
<1> QED
  BY <1>1, LifecycleInvariant, PTL

\* The only accepted orders ever confirmed as not applied are those a snapshot stamped
\* before their own write has found: every other accepted order of a completed attempt is
\* among the orders the decision's evidence is checked against, whatever the ledger's
\* transactions do.
THEOREM OnlyPredatedAreDenied == Spec => []OnlyPredatedIsDenied
<1>1. LifecycleInv => OnlyPredatedIsDenied
  BY Zenon DEF LifecycleInv, WitnessInv
<1> QED
  BY <1>1, LifecycleInvariant, PTL

\* No normal write passes assert_write_ready while an attempt whose adapter was called is
\* neither acknowledged nor resolved, over a ledger that keeps what it is told.
THEOREM UnsettledBlocks == Spec => UnknownBlocksWrites
<1>1. LifecycleInv /\ [Next]_vars =>
        [~faulty => \A w \in Normal :
            pc[w] = "fault_free" /\ pc'[w] = "ready" => \A v \in Writes : ~Unsettled(v)]_vars
  <2> SUFFICES ASSUME LifecycleInv, Next, ~faulty, NEW w \in Normal, pc[w] = "fault_free", pc'[w] = "ready",
                      NEW v \in Writes, Unsettled(v)
               PROVE  FALSE
    BY Zenon DEF LifecycleInv
  <2>0. w \in Writes /\ TypeInv /\ DispatchInv /\ FaithfulInv /\ ResolutionInv
    BY Zenon DEF LifecycleInv, Normal
  <2>1. AssertWriteReady(w)
    <3>1. ASSUME NEW u \in Writes, WriteStep(u)
          PROVE  AssertWriteReady(w)
      <4>1. u = w
        BY Zenon, <3>1, <2>0, WriteMoves
      <4>2. ~Obtain(w) /\ ~AdmitWrite(w) /\ ~PrepareDispatch(w) /\ ~MarkInvoked(w) /\ ~Preempt(w)
            /\ ~EnterAdapter(w) /\ ~AdapterReturns(w) /\ ~RecordFailedBeforeInvoke(w) /\ ~MarkOutcomeUnknown(w)
            /\ ~RefreshHealth(w) /\ ~Acknowledge(w) /\ ~MarkHealthCritical(w) /\ ~AddFault(w)
            /\ ~Refuse(w) /\ ~CheckFaults(w)
        BY Zenon DEF Obtain, AdmitWrite, PrepareDispatch, MarkInvoked, Preempt, EnterAdapter,
           AdapterReturns,
               RecordFailedBeforeInvoke, MarkOutcomeUnknown, RefreshHealth, Acknowledge, MarkHealthCritical,
               AddFault, Refuse, CheckFaults
      <4> QED
        BY Zenon, <4>1, <4>2, <3>1 DEF WriteStep
    <3>2. ~CrashAndRestart
      BY Zenon, <2>0, CrashMoves
    <3>3. pc' # pc
      BY Zenon
    <3>4. ~(LoseProof \/ RetireRouter \/ PublishRouter)
      BY Zenon, <3>3 DEF LoseProof, RetireRouter, PublishRouter, writeVars
    <3>5. ~SnapshotStep
      BY Zenon, <3>3 DEF SnapshotStep, StampSnapshot, ReadOrderBook, RecordSnapshot,
         LeaveBook, writeVars
    <3>6. ~ResolutionStep
      BY Zenon, <3>3, ResolutionFrame
    <3> QED
      BY Zenon, <3>1, <3>2, <3>4, <3>5, <3>6 DEF Next
  <2>2. WriteReady
    <3>1. \E p \in {"ready", "done"} : Moves(w, p, attempt[w], state[w]) /\ (p = "ready" => WriteReady)
      BY Zenon, <2>0, <2>1, QuietMoves
    <3> QED
      BY Zenon, <3>1 DEF Moves
  <2>3. state[v] \in {"ACKNOWLEDGED", "OUTCOME_UNKNOWN"} \cup Confirmed
    BY Zenon, <2>0 DEF FaithfulInv, FaithfulOf, Unsettled
  <2>4. state[v] # "OUTCOME_UNKNOWN" /\ resolution[v].status # "PENDING_ROUTER_CLEAR"
    BY Zenon, <2>2 DEF WriteReady, list_unresolved_outcomes, UnresolvedIn
  <2> QED
    BY Zenon, <2>0, <2>3, <2>4 DEF ResolutionInv, Unsettled
<1> QED
  BY <1>1, LifecycleInvariant, PTL DEF Spec, UnknownBlocksWrites
=============================================================================
