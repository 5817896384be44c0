---------------------------- MODULE OrderLifecycle ----------------------------
(***************************************************************************)
(* A broker write from router admission to its durable outcome: BrokerRouter*)
(* (flinttrade_gateway/router.py), the OrderLifecycleLedger it records every*)
(* attempt in (flinttrade_engine/local_state_provider.py), the retirement   *)
(* and rebuild of router generations (flinttrade_core/app.py), broker       *)
(* snapshots, and the operator's resolution of an unknown outcome           *)
(* (flinttrade_core/operations_routes.py).                                  *)
(*                                                                          *)
(* One account; every write places one order, so a write, its dispatch      *)
(* attempt and its broker order share a name.  Baskets, modifications and   *)
(* cancellations have other evidence rules and are left out.  A timestamp   *)
(* of the code is compared only with those of attempts, so it is            *)
(* represented by the set of the attempts it follows.                       *)
(***************************************************************************)
EXTENDS Naturals, Sequences

CONSTANTS
    Writes,         \* broker writes
    Intent,         \* the material fields of each write's order
    None,           \* no order: the decision "not applied"
    LedgersFail,    \* whether the ledger may fail: the values of faulty
    LedgerFaults,   \* how a transaction of it raises: rolled back or committed
    Emergencies,    \* which writes may carry the emergency-reduction intent (by faulty)
    ProofMayLapse,  \* whether the backend lease may be lost (by faulty)
    MaxGenerations, \* bound: router generations
    MaxSnapshots,   \* bound: adopted snapshots (by faulty)
    MaxCrashes      \* bound: process crashes

ASSUME WritesAssumption == /\ None \notin Writes
                           /\ Emergencies \in [BOOLEAN -> SUBSET SUBSET Writes]
ASSUME FaultsAssumption == /\ LedgersFail \subseteq BOOLEAN
                           /\ LedgerFaults \subseteq {"rolled_back", "committed"}
                           /\ ProofMayLapse \in [BOOLEAN -> BOOLEAN]
ASSUME BoundsAssumption == {MaxGenerations, MaxCrashes, MaxSnapshots[TRUE], MaxSnapshots[FALSE]} \subseteq Nat

VARIABLES
    state, claim, resolution, health, snapshots, firstSeen, \* the durable ledger
    router, draining, generations,          \* BROKER_ROUTER, BROKER_ROUTER_DRAINING
    revoked, faults, receipts,              \* of each router generation
    pc, held, attempt,                      \* write threads
    runner, resolver,                       \* reconciliation and operator threads
    proof, crashes,                         \* the backend lease, the process
    faulty, emergency,                      \* whether the ledger may fail, the emergency writes: fixed
    entered, applied, book                  \* the broker

ledgerVars == <<state, claim, resolution, health, snapshots, firstSeen>>
routerVars == <<router, draining, generations, revoked, faults, receipts>>
writeVars == <<pc, held, attempt>>
settings == <<faulty, emergency>>
worldVars == <<proof, crashes, settings>>
brokerVars == <<entered, applied, book>>
vars == <<ledgerVars, routerVars, writeVars, runner, resolver, worldVars, brokerVars>>

Normal == Writes \ emergency
NoRouter == 0
RouterIds == 1..MaxGenerations
Outcomes == {"ok"} \cup (IF faulty THEN LedgerFaults ELSE {})
Committed(f) == f # "rolled_back"       \* the transaction is durable
Raised(f) == f # "ok"                   \* the call raises

NoResolution == [status |-> "none", decision |-> None, snapshot |-> 0]
IdleRunner == [at |-> "idle", forced |-> FALSE, invoked |-> {}, completed |-> {}, orders |-> {}]
IdleResolver == [at |-> "idle", attempt |-> None, decision |-> None, required |-> 0]

Init ==
    /\ state = [w \in Writes |-> "none"] /\ claim = [w \in Writes |-> None]
    /\ resolution = [w \in Writes |-> NoResolution] /\ health = "HEALTHY"
    /\ snapshots = <<>> /\ firstSeen = [w \in Writes |-> {}]
    /\ router = NoRouter /\ draining = NoRouter /\ generations = 0
    /\ revoked = {} /\ faults = [g \in RouterIds |-> {}] /\ receipts = [g \in RouterIds |-> {}]
    /\ pc = [w \in Writes |-> "start"] /\ held = [w \in Writes |-> NoRouter]
    /\ attempt = [w \in Writes |-> FALSE]
    /\ runner = IdleRunner /\ resolver = IdleResolver
    /\ proof = TRUE /\ crashes = 0
    /\ faulty \in LedgersFail /\ emergency \in Emergencies[faulty]
    /\ entered = {} /\ applied = {} /\ book = {}

-----------------------------------------------------------------------------
(* The ledger's readings of its own rows *)

Confirmed == {"CONFIRMED_APPLIED", "CONFIRMED_NOT_APPLIED"}

\* Attempts with an invoked_at and with a completed_at.
InvokedAttempts == {w \in Writes : state[w] \in {"INVOKED", "ACKNOWLEDGED", "OUTCOME_UNKNOWN"} \cup Confirmed}
CompletedAttempts == {w \in Writes : state[w] \in {"ACKNOWLEDGED", "FAILED_BEFORE_INVOKE", "OUTCOME_UNKNOWN"}
                                                    \cup Confirmed}

UnresolvedIn(states, resolutions) ==
    {w \in Writes : \/ states[w] = "OUTCOME_UNKNOWN"
                    \/ resolutions[w].status \in {"PENDING_AUDIT", "PENDING_ROUTER_CLEAR"}}
list_unresolved_outcomes == UnresolvedIn(state, resolution)

\* assert_write_ready: nothing unresolved and no critical health row.
WriteReady == list_unresolved_outcomes = {} /\ health = "HEALTHY"

\* Mutant: the health row is never cleared.
MutRefreshedSticky(states, resolutions) ==
    IF health = "manual_critical" THEN health
    ELSE IF UnresolvedIn(states, resolutions) # {} THEN "outcome_unknown" ELSE health

\* _refresh_outcome_health over the rows the transaction leaves.  A health row of
\* another source is kept either way.
Refreshed(states, resolutions) ==
    IF health = "manual_critical" THEN health
    ELSE IF UnresolvedIn(states, resolutions) # {} THEN "outcome_unknown" ELSE "HEALTHY"

-----------------------------------------------------------------------------
(* A write of the router: place_order, execute_gated *)

InFlight == {"admitted", "fault_free", "ready", "prepared", "invoked", "inside", "failed",
             "unknown", "refresh", "returned", "unpersisted", "late_refresh", "critical", "fault"}
Admitted(g) == {w \in Writes : held[w] = g /\ pc[w] \in InFlight}

\* A thread that ends drops its router and its attempt.
Leave(w) ==
    /\ pc' = [pc EXCEPT ![w] = "done"] /\ held' = [held EXCEPT ![w] = NoRouter]
    /\ attempt' = [attempt EXCEPT ![w] = FALSE]
Goto(w, p) == IF p = "done" THEN Leave(w) ELSE pc' = [pc EXCEPT ![w] = p] /\ UNCHANGED <<held, attempt>>

\* The caller takes the published router; it may keep it past its retirement.
Obtain(w) ==
    /\ pc[w] = "start" /\ router # NoRouter
    /\ held' = [held EXCEPT ![w] = router]
    /\ pc' = [pc EXCEPT ![w] = "held"]
    /\ UNCHANGED <<ledgerVars, routerVars, attempt, runner, resolver, worldVars, brokerVars>>

\* A lapsed backend proof revokes the generation on the way out.
RequireProof(w) == revoked' = IF proof THEN revoked ELSE revoked \cup {held[w]}

AdmitWrite(w) ==
    /\ pc[w] = "held"
    /\ RequireProof(w)
    /\ Goto(w, IF proof /\ held[w] \notin revoked THEN "admitted" ELSE "done")
    /\ UNCHANGED <<ledgerVars, router, draining, generations, faults, receipts,
                   runner, resolver, worldVars, brokerVars>>

\* Routing, the session, the safety context or the throttle refuses the write.
Refuse(w) ==
    /\ pc[w] = "admitted"
    /\ Goto(w, "done")
    /\ UNCHANGED <<ledgerVars, routerVars, runner, resolver, worldVars, brokerVars>>

\* _prepare_lifecycle, first half: emergency writes skip both checks.
CheckFaults(w) ==
    /\ pc[w] = "admitted"
    /\ Goto(w, IF w \in emergency THEN "ready"
               ELSE IF faults[held[w]] = {} THEN "fault_free" ELSE "done")
    /\ UNCHANGED <<ledgerVars, routerVars, runner, resolver, worldVars, brokerVars>>

AssertWriteReady(w) ==
    /\ pc[w] = "fault_free"
    /\ \E f \in Outcomes : Goto(w, IF WriteReady /\ ~Raised(f) THEN "ready" ELSE "done")
    /\ UNCHANGED <<ledgerVars, routerVars, runner, resolver, worldVars, brokerVars>>

\* A normal write whose intent cannot be persisted is refused; an emergency one
\* goes on without an attempt.
PrepareDispatch(w) ==
    /\ pc[w] = "ready"
    /\ \E f \in Outcomes :
        /\ state' = IF Committed(f) THEN [state EXCEPT ![w] = "PREPARED"] ELSE state
        /\ IF Raised(f) /\ w \in Normal THEN Leave(w)
           ELSE /\ pc' = [pc EXCEPT ![w] = "prepared"] /\ UNCHANGED held
                /\ attempt' = [attempt EXCEPT ![w] = ~Raised(f)]
    /\ UNCHANGED <<claim, resolution, health, snapshots, firstSeen, routerVars, runner,
                   resolver, worldVars, brokerVars>>

\* The invocation callback, up to the marker.  The proof, the emergency preflight or
\* the caller's own callback may raise before it.
MarkInvoked(w) ==
    /\ pc[w] = "prepared" /\ proof
    /\ \E f \in Outcomes :
        /\ state' = IF attempt[w] /\ Committed(f) THEN [state EXCEPT ![w] = "INVOKED"] ELSE state
        /\ Goto(w, IF attempt[w] /\ Raised(f) /\ w \in Normal THEN "failed" ELSE "invoked")
    /\ UNCHANGED <<claim, resolution, health, snapshots, firstSeen, routerVars,
                   runner, resolver, worldVars, brokerVars>>

Preempt(w) ==
    /\ pc[w] = "prepared"
    /\ RequireProof(w)
    /\ Goto(w, "failed")
    /\ UNCHANGED <<ledgerVars, router, draining, generations, faults, receipts,
                   runner, resolver, worldVars, brokerVars>>

\* The last proof check, then the adapter call: the broker accepts the order or not.
EnterAdapter(w) ==
    /\ pc[w] = "invoked"
    /\ RequireProof(w)
    /\ \/ proof /\ entered' = entered \cup {w} /\ Goto(w, "inside")
          /\ \/ applied' = applied \cup {w} /\ book' = book \cup {w}
             \/ UNCHANGED <<applied, book>>
       \/ ~proof /\ Goto(w, "failed") /\ UNCHANGED brokerVars
    /\ UNCHANGED <<ledgerVars, router, draining, generations, faults, receipts,
                   runner, resolver, worldVars>>

\* The adapter's answer, or a timeout, a lost connection or a cancelled task: an
\* order that was accepted may raise too.
AdapterReturns(w) ==
    /\ pc[w] = "inside"
    /\ \/ w \in applied /\ Goto(w, "returned")
       \/ Goto(w, "unknown")
    /\ UNCHANGED <<ledgerVars, routerVars, runner, resolver, worldVars, brokerVars>>

\* _record_lifecycle_failure before invocation; the write is released either way.
RecordFailedBeforeInvoke(w) ==
    /\ pc[w] = "failed"
    /\ \E f \in Outcomes :
        state' = IF attempt[w] /\ state[w] = "PREPARED" /\ Committed(f)
                 THEN [state EXCEPT ![w] = "FAILED_BEFORE_INVOKE"] ELSE state
    /\ Goto(w, "done")
    /\ UNCHANGED <<claim, resolution, health, snapshots, firstSeen, routerVars,
                   runner, resolver, worldVars, brokerVars>>

\* mark_outcome_unknown is two transactions: the attempt's row, then the health row.
\* After a failed adapter call an error of either is only logged; after a lost
\* acknowledgement it leads to mark_health_critical.
MarkOutcomeUnknown(w) ==
    /\ pc[w] \in {"unknown", "unpersisted"}
    /\ LET late == pc[w] = "unpersisted" IN
       \E f \in Outcomes :
        /\ state' = IF attempt[w] /\ state[w] = "INVOKED" /\ Committed(f)
                    THEN [state EXCEPT ![w] = "OUTCOME_UNKNOWN"] ELSE state
        /\ Goto(w, IF ~attempt[w] THEN "done"
                   ELSE IF state[w] = "INVOKED" /\ ~Raised(f)
                        THEN IF late THEN "late_refresh" ELSE "refresh"
                        ELSE IF late THEN "critical" ELSE "fault")
    /\ UNCHANGED <<claim, resolution, health, snapshots, firstSeen, routerVars,
                   runner, resolver, worldVars, brokerVars>>

RefreshHealth(w) ==
    /\ pc[w] \in {"refresh", "late_refresh"}
    /\ \E f \in Outcomes :
        /\ health' = IF Committed(f) THEN Refreshed(state, resolution) ELSE health
        /\ Goto(w, IF Raised(f) /\ pc[w] = "late_refresh" THEN "critical" ELSE "fault")
    /\ UNCHANGED <<state, claim, resolution, snapshots, firstSeen, routerVars,
                   runner, resolver, worldVars, brokerVars>>

\* Mutant: the owner of a broker order is not looked at.
MutUnclaimed(w, o) == claim[w] # o

\* The broker order's row in orders_current names no other attempt.
Unclaimed(w, o) == \A v \in Writes \ {w} : claim[v] # o

\* acknowledge: the broker order id may already belong to another attempt.
Acknowledge(w) ==
    /\ pc[w] = "returned"
    /\ \E f \in Outcomes :
        LET legal == state[w] = "INVOKED" /\ Unclaimed(w, w)
            written == attempt[w] /\ legal /\ Committed(f)
        IN  /\ state' = IF written THEN [state EXCEPT ![w] = "ACKNOWLEDGED"] ELSE state
            /\ claim' = IF written THEN [claim EXCEPT ![w] = w] ELSE claim
            /\ Goto(w, IF ~attempt[w] \/ (legal /\ ~Raised(f)) THEN "done" ELSE "unpersisted")
    /\ UNCHANGED <<resolution, health, snapshots, firstSeen, routerVars, runner,
                   resolver, worldVars, brokerVars>>

MarkHealthCritical(w) ==
    /\ pc[w] = "critical"
    /\ \E f \in Outcomes : health' = IF Committed(f) THEN "manual_critical" ELSE health
    /\ Goto(w, "fault")
    /\ UNCHANGED <<state, claim, resolution, snapshots, firstSeen, routerVars,
                   runner, resolver, worldVars, brokerVars>>

\* The in-memory fault of a normal write; then the write is released.
AddFault(w) ==
    /\ pc[w] = "fault"
    /\ faults' = IF w \in Normal THEN [faults EXCEPT ![held[w]] = @ \cup {w}] ELSE faults
    /\ Goto(w, "done")
    /\ UNCHANGED <<ledgerVars, router, draining, generations, revoked, receipts,
                   runner, resolver, worldVars, brokerVars>>

WriteStep(w) ==
    \/ Obtain(w) \/ AdmitWrite(w) \/ Refuse(w) \/ CheckFaults(w) \/ AssertWriteReady(w)
    \/ PrepareDispatch(w) \/ MarkInvoked(w) \/ Preempt(w) \/ EnterAdapter(w) \/ AdapterReturns(w)
    \/ RecordFailedBeforeInvoke(w) \/ MarkOutcomeUnknown(w) \/ RefreshHealth(w)
    \/ Acknowledge(w) \/ MarkHealthCritical(w) \/ AddFault(w)

-----------------------------------------------------------------------------
(* Router generations; the rebuild lock is free while no resolution runs *)

\* Mutant: a drain that times out counts as drained.
MutRetireUndrained ==
    /\ resolver.at = "idle"
    /\ LET retiring == IF router # NoRouter THEN router ELSE draining IN
        /\ retiring # NoRouter
        /\ revoked' = revoked \cup {retiring}
    /\ draining' = NoRouter /\ router' = NoRouter
    /\ UNCHANGED <<ledgerVars, generations, faults, receipts, writeVars, runner, resolver,
                   worldVars, brokerVars>>

\* retire_broker_router_generation: unpublish and revoke, and keep the generation
\* until it drains; its faults go with it.  A retry stands for its bounded wait.
RetireRouter ==
    /\ resolver.at = "idle"
    /\ LET retiring == IF router # NoRouter THEN router ELSE draining IN
        /\ retiring # NoRouter
        /\ revoked' = revoked \cup {retiring}
        /\ IF Admitted(retiring) = {}
           THEN /\ draining' = NoRouter
                /\ faults' = [faults EXCEPT ![retiring] = {}] /\ receipts' = [receipts EXCEPT ![retiring] = {}]
           ELSE draining' = retiring /\ UNCHANGED <<faults, receipts>>
    /\ router' = NoRouter
    /\ UNCHANGED <<ledgerVars, generations, writeVars, runner, resolver,
                   worldVars, brokerVars>>

\* A new generation takes its faults from the ledger; it is published without them
\* when the ledger cannot be read.
PublishRouter ==
    /\ resolver.at = "idle" /\ proof
    /\ router = NoRouter /\ draining = NoRouter /\ generations < MaxGenerations
    /\ generations' = generations + 1 /\ router' = generations + 1
    /\ \E f \in Outcomes :
        faults' = [faults EXCEPT ![generations + 1] = IF Raised(f) THEN {} ELSE list_unresolved_outcomes]
    /\ UNCHANGED <<ledgerVars, draining, revoked, receipts, writeVars, runner, resolver,
                   worldVars, brokerVars>>

-----------------------------------------------------------------------------
(* Broker snapshots: one reconciliation cycle at a time *)

\* The report's timestamp, taken before the order book is read.
StampSnapshot ==
    /\ runner.at = "idle" /\ router # NoRouter /\ Len(snapshots) < MaxSnapshots[faulty]
    /\ runner' = [at |-> "stamped", forced |-> resolver.at = "trigger",
                  invoked |-> InvokedAttempts, completed |-> CompletedAttempts, orders |-> {}]
    /\ UNCHANGED <<ledgerVars, routerVars, writeVars, resolver, worldVars, brokerVars>>

ReadOrderBook ==
    /\ runner.at = "stamped"
    /\ runner' = [runner EXCEPT !.at = "read", !.orders = book]
    /\ UNCHANGED <<ledgerVars, routerVars, writeVars, resolver, worldVars, brokerVars>>

LeaseHeld == resolver.at \in {"audit", "finalize", "clear", "complete"}
Observed == UNION {snapshots[i].orders : i \in DOMAIN snapshots}

\* record_broker_snapshot, and the forced cycle's answer to the resolution; a cycle
\* that fails adopts nothing.
RecordSnapshot ==
    /\ runner.at = "read" /\ ~LeaseHeld
    /\ \E adopted, answered \in BOOLEAN :
        /\ answered => adopted
        /\ adopted /\ ~answered => faulty /\ "committed" \in LedgerFaults
        /\ snapshots' = IF adopted
                        THEN Append(snapshots, [completed |-> runner.completed, orders |-> runner.orders])
                        ELSE snapshots
        /\ firstSeen' = IF adopted
                        THEN [o \in Writes |-> IF o \in runner.orders \ Observed THEN runner.invoked
                                               ELSE firstSeen[o]]
                        ELSE firstSeen
        /\ resolver' = IF ~runner.forced THEN resolver
                       ELSE IF answered
                            THEN [resolver EXCEPT !.at = "prepare", !.required = Len(snapshots) + 1]
                            ELSE IdleResolver
    /\ runner' = IdleRunner
    /\ UNCHANGED <<state, claim, resolution, health, routerVars, writeVars, worldVars, brokerVars>>

\* An observed order leaves the broker's book.
LeaveBook ==
    /\ \E o \in book \cap Observed : book' = book \ {o}
    /\ UNCHANGED <<ledgerVars, routerVars, writeVars, runner, resolver, worldVars, entered, applied>>

SnapshotStep == StampSnapshot \/ ReadOrderBook \/ RecordSnapshot \/ LeaveBook

-----------------------------------------------------------------------------
(* The operator resolves an unknown outcome: reconciliation_outcome_resolve *)

\* A decision is the broker order that carries out the attempt, or None.  Unless it
\* only waits for the router, a new decision needs a forced snapshot.
BeginResolution ==
    /\ resolver.at = "idle" /\ router # NoRouter
    /\ \E w \in list_unresolved_outcomes, d \in Writes \cup {None} :
        resolver' = [at |-> IF resolution[w].status = "PENDING_ROUTER_CLEAR" THEN "prepare" ELSE "trigger",
                     attempt |-> w, decision |-> d, required |-> 0]
    /\ UNCHANGED <<ledgerVars, routerVars, writeVars, runner, worldVars, brokerVars>>

\* The trigger finds another cycle running, or does not wait for its own to end.
AbandonTrigger ==
    /\ resolver.at = "trigger"
    /\ resolver' = IdleResolver
    /\ runner' = [runner EXCEPT !.forced = FALSE]
    /\ UNCHANGED <<ledgerVars, routerVars, writeVars, worldVars, brokerVars>>

\* Mutant: only the newest snapshot's orders count.
MutHistoricalFresh(w, s) == {o \in snapshots[s].orders : w \in firstSeen[o]}

\* Orders that could belong to the attempt: first observed after its invocation, in a
\* snapshot up to the decision's.
HistoricalOrders(w, s) ==
    {o \in UNION {snapshots[i].orders : i \in 1..s} : w \in firstSeen[o]}

\* _fresh_snapshot_evidence and _validate_resolution_evidence for a placement.
Fresh(w, s) == s \in DOMAIN snapshots /\ w \in snapshots[s].completed
Evidence(w, d, s) ==
    IF d = None
    THEN \A o \in HistoricalOrders(w, s) : Intent[o] # Intent[w]
    ELSE d \in snapshots[s].orders /\ Intent[d] = Intent[w] /\ w \in firstSeen[d]

\* Every step that raises, or is refused, ends the request and leaves what is durable.
EndResolution == resolver' = IdleResolver
ResolverGoto(p) == resolver' = [resolver EXCEPT !.at = p]

\* prepare_outcome_resolution: a pending decision is replaced only on a newer
\* snapshot; one that already committed can only be repeated.
PrepareResolution ==
    /\ resolver.at = "prepare"
    /\ LET w == resolver.attempt
           d == resolver.decision
           r == resolution[w]
           newer == state[w] \in {"OUTCOME_UNKNOWN"} \cup Confirmed
                    /\ r.status \in {"none", "PENDING_AUDIT"} /\ resolver.required > r.snapshot
                    /\ Fresh(w, resolver.required) /\ Evidence(w, d, resolver.required)
       IN  \E f \in Outcomes :
            \/ /\ r.status = "PENDING_ROUTER_CLEAR" /\ r.decision = d /\ ~Raised(f)
               /\ ResolverGoto("finalize")
               /\ UNCHANGED resolution
            \/ /\ newer
               /\ resolution' = IF Committed(f)
                                THEN [resolution EXCEPT ![w] = [status |-> "PENDING_AUDIT", decision |-> d,
                                                                snapshot |-> resolver.required]]
                                ELSE resolution
               /\ IF Raised(f) THEN EndResolution ELSE ResolverGoto("audit")
            \/ /\ ~newer /\ ~(r.status = "PENDING_ROUTER_CLEAR" /\ r.decision = d /\ ~Raised(f))
               /\ EndResolution
               /\ UNCHANGED resolution
    /\ UNCHANGED <<state, claim, health, snapshots, firstSeen, routerVars, writeVars, runner,
                   worldVars, brokerVars>>

\* The audit event is written, or the decision stays pending.
AuditResolution ==
    /\ resolver.at = "audit"
    /\ ResolverGoto("finalize") \/ EndResolution
    /\ UNCHANGED <<ledgerVars, routerVars, writeVars, runner, worldVars, brokerVars>>

\* finalize_outcome_resolution: the evidence is checked again, and an applied order
\* must not belong to another attempt.
FinalizeResolution ==
    /\ resolver.at = "finalize"
    /\ LET w == resolver.attempt
           r == resolution[w]
           d == r.decision
           bound == Fresh(w, r.snapshot) /\ Evidence(w, d, r.snapshot)
           target == IF d = None THEN "CONFIRMED_NOT_APPLIED" ELSE "CONFIRMED_APPLIED"
           legal == bound /\ \/ state[w] = target
                             \/ /\ state[w] = "OUTCOME_UNKNOWN"
                                /\ d # None => Unclaimed(w, d)
           states == [state EXCEPT ![w] = target]
           resolutions == [resolution EXCEPT ![w].status = "PENDING_ROUTER_CLEAR"]
       IN  \E f \in Outcomes :
            \/ /\ r.status = "PENDING_AUDIT" /\ legal /\ Committed(f)
               /\ state' = states /\ resolution' = resolutions
               /\ claim' = IF d # None THEN [claim EXCEPT ![w] = d] ELSE claim
               /\ health' = Refreshed(states, resolutions)
               /\ IF Raised(f) THEN EndResolution ELSE ResolverGoto("clear")
            \/ /\ r.status = "PENDING_ROUTER_CLEAR" /\ bound /\ ~Raised(f)
               /\ ResolverGoto("clear")
               /\ UNCHANGED <<state, claim, resolution, health>>
            \/ /\ \/ r.status = "PENDING_AUDIT" /\ ~(legal /\ Committed(f))
                  \/ r.status = "PENDING_ROUTER_CLEAR" /\ (~bound \/ Raised(f))
               /\ EndResolution
               /\ UNCHANGED <<state, claim, resolution, health>>
    /\ UNCHANGED <<snapshots, firstSeen, routerVars, writeVars, runner, worldVars, brokerVars>>

\* Mutant: a receipt for a fault that is not there.
MutClearable(w) == TRUE

Clearable(w) == w \in faults[router]

\* clear_lifecycle_fault: a receipt is issued once, and only for a fault it removes.
ClearFault ==
    /\ resolver.at = "clear"
    /\ LET w == resolver.attempt IN
       \/ w \in receipts[router] /\ ResolverGoto("complete") /\ UNCHANGED <<faults, receipts>>
       \/ /\ w \notin receipts[router] /\ Clearable(w)
          /\ faults' = [faults EXCEPT ![router] = @ \ {w}]
          /\ receipts' = [receipts EXCEPT ![router] = @ \cup {w}]
          /\ ResolverGoto("complete")
       \/ /\ (w \notin receipts[router] /\ ~Clearable(w)) \/ faulty
          /\ EndResolution
          /\ UNCHANGED <<faults, receipts>>
    /\ UNCHANGED <<ledgerVars, router, draining, generations, revoked, writeVars, runner,
                   worldVars, brokerVars>>

\* complete_outcome_resolution with the receipt of the current generation.
CompleteResolution ==
    /\ resolver.at = "complete"
    /\ LET w == resolver.attempt
           r == resolution[w]
           verified == /\ Fresh(w, r.snapshot) /\ Evidence(w, r.decision, r.snapshot)
                       /\ w \in receipts[router] \ faults[router]
           resolutions == [resolution EXCEPT ![w].status = "COMMITTED"]
       IN  \E f \in Outcomes :
            IF verified /\ Committed(f)
            THEN resolution' = resolutions /\ health' = Refreshed(state, resolutions)
            ELSE UNCHANGED <<resolution, health>>
    /\ EndResolution
    /\ UNCHANGED <<state, claim, snapshots, firstSeen, routerVars, writeVars, runner, worldVars,
                   brokerVars>>

ResolutionStep ==
    \/ BeginResolution \/ AbandonTrigger \/ PrepareResolution \/ AuditResolution
    \/ FinalizeResolution \/ ClearFault \/ CompleteResolution

-----------------------------------------------------------------------------
(* The process *)

\* Bound: the crashes, each of a process that had a router and followed by one that may.
RestartsLeft == crashes < MaxCrashes /\ generations \in 1..(MaxGenerations - 1)

\* The backend lease is lost for good; bounded like the crashes, since only a restart
\* proves it again.
LoseProof ==
    /\ ProofMayLapse[faulty] /\ proof /\ proof' = FALSE /\ RestartsLeft
    /\ UNCHANGED <<ledgerVars, routerVars, writeVars, runner, resolver, crashes, settings, brokerVars>>

\* Mutants: recovery skips the invoked attempts, or takes them for attempts that
\* failed before invocation.
MutRecoveredSkips(w) == IF state[w] = "PREPARED" THEN "FAILED_BEFORE_INVOKE" ELSE state[w]
MutRecoveredFails(w) == IF state[w] \in {"PREPARED", "INVOKED"} THEN "FAILED_BEFORE_INVOKE" ELSE state[w]

\* _recover_interrupted_dispatches, when the next process opens the ledger.
Recovered(w) ==
    CASE state[w] = "PREPARED" -> "FAILED_BEFORE_INVOKE"
      [] state[w] = "INVOKED" -> "OUTCOME_UNKNOWN"
      [] OTHER -> state[w]

\* A crash loses every router, write and request; the restarted process recovers the
\* ledger before it publishes a router.  A health row is never cleared here.
CrashAndRestart ==
    /\ RestartsLeft /\ crashes' = crashes + 1
    /\ LET states == [w \in Writes |-> Recovered(w)] IN
        /\ state' = states
        /\ health' = IF UnresolvedIn(states, resolution) # {} /\ health = "HEALTHY"
                     THEN "outcome_unknown" ELSE health
    /\ router' = NoRouter /\ draining' = NoRouter
    /\ pc' = [w \in Writes |-> IF pc[w] = "start" THEN "start" ELSE "done"]
    /\ held' = [w \in Writes |-> NoRouter] /\ attempt' = [w \in Writes |-> FALSE]
    /\ runner' = IdleRunner /\ resolver' = IdleResolver /\ proof' = TRUE
    /\ revoked' = 1..generations
    /\ faults' = [g \in RouterIds |-> {}] /\ receipts' = [g \in RouterIds |-> {}]
    /\ UNCHANGED <<claim, resolution, snapshots, firstSeen, generations, settings, brokerVars>>

Next ==
    \/ \E w \in Writes : WriteStep(w)
    \/ RetireRouter \/ PublishRouter
    \/ SnapshotStep \/ ResolutionStep
    \/ LoseProof \/ CrashAndRestart

Spec == Init /\ [][Next]_vars

-----------------------------------------------------------------------------
(* Properties *)

DispatchStates == {"none", "PREPARED", "INVOKED", "ACKNOWLEDGED", "FAILED_BEFORE_INVOKE",
                   "OUTCOME_UNKNOWN"} \cup Confirmed

\* Type correctness of the ledger, the router generations and the threads.
TypeOK ==
    /\ state \in [Writes -> DispatchStates]
    /\ claim \in [Writes -> Writes \cup {None}]
    /\ resolution \in [Writes -> [status : {"none", "PENDING_AUDIT", "PENDING_ROUTER_CLEAR", "COMMITTED"},
                                  decision : Writes \cup {None}, snapshot : 0..MaxSnapshots[faulty]]]
    /\ health \in {"HEALTHY", "outcome_unknown", "manual_critical"}
    /\ \A i \in DOMAIN snapshots :
        snapshots[i] \in [completed : SUBSET Writes, orders : SUBSET Writes]
    /\ Len(snapshots) <= MaxSnapshots[faulty]
    /\ firstSeen \in [Writes -> SUBSET Writes]
    /\ {router, draining, generations} \subseteq 0..MaxGenerations
    /\ revoked \subseteq RouterIds
    /\ faults \in [RouterIds -> SUBSET Writes] /\ receipts \in [RouterIds -> SUBSET Writes]
    /\ pc \in [Writes -> InFlight \cup {"start", "held", "done"}]
    /\ held \in [Writes -> 0..MaxGenerations] /\ attempt \in [Writes -> BOOLEAN]
    /\ runner \in [at : {"idle", "stamped", "read"}, forced : BOOLEAN, invoked : SUBSET Writes,
                   completed : SUBSET Writes, orders : SUBSET Writes]
    /\ resolver \in [at : {"idle", "trigger", "prepare", "audit", "finalize", "clear", "complete"},
                     attempt : Writes \cup {None}, decision : Writes \cup {None},
                     required : 0..MaxSnapshots[faulty]]
    /\ proof \in BOOLEAN /\ crashes \in 0..MaxCrashes
    /\ faulty \in BOOLEAN /\ emergency \subseteq Writes
    /\ book \subseteq applied /\ applied \subseteq entered /\ entered \subseteq Writes

\* The adapter of w was called and the call is over, but neither an acknowledgement
\* nor a completed resolution says what became of it.
Unsettled(w) ==
    /\ w \in entered /\ pc[w] = "done"
    /\ state[w] # "ACKNOWLEDGED" /\ resolution[w].status # "COMMITTED"

\* An unsettled write blocks every normal write: none passes assert_write_ready
\* while it is unsettled, across failures, restarts and router rebuilds, over a
\* ledger that keeps what it is told.
UnknownBlocksWrites ==
    [][~faulty => \A w \in Normal :
            pc[w] = "fault_free" /\ pc'[w] = "ready" => \A v \in Writes : ~Unsettled(v)]_vars

\* An attempt recorded as failed before invocation never reached the broker: the
\* marker of a normal write is durable before its adapter is called.
FailedMeansNotEntered ==
    \A w \in Normal : state[w] = "FAILED_BEFORE_INVOKE" => w \notin entered

\* A "not applied" decision is never accepted for an order the broker has accepted.
\* The code's order of stamp and read breaks this one.
NotAppliedMeansAbsent ==
    \A w \in Writes : state[w] = "CONFIRMED_NOT_APPLIED" => w \notin applied

\* The ledger holds the write's order as first seen no later than the write was
\* invoked: the snapshot that found it was stamped before the invocation.
Predated(w) == w \in Observed /\ w \notin firstSeen[w]

\* A "not applied" decision is wrong in that one way only: an accepted order that was
\* not found by a snapshot stamped before its own write is never denied, whatever the
\* ledger's transactions do, whichever snapshots were adopted and whatever has left
\* the book since.
OnlyPredatedIsDenied ==
    \A w \in Writes : state[w] = "CONFIRMED_NOT_APPLIED" /\ w \in applied => Predated(w)

\* No broker order belongs to two attempts, even of equal intents, however
\* acknowledgements and decisions interleave.
OneAttemptPerOrder ==
    \A v, w \in Writes : v # w /\ claim[v] # None => claim[v] # claim[w]

\* A completed resolution leaves no fault of its attempt in the published router: no
\* late failure handler can block a settled attempt again.
SettledStaysClear ==
    router # NoRouter => \A w \in Writes : resolution[w].status = "COMMITTED" => w \notin faults[router]

\* A critical outcome_unknown health row always has an unresolved attempt to resolve.
CriticalIsResolvable ==
    health = "outcome_unknown" => list_unresolved_outcomes # {}

\* All admitted writes run in one router generation: a successor is published only
\* after its predecessor has drained.
OneWritingGeneration ==
    \A g, h \in RouterIds : Admitted(g) # {} /\ Admitted(h) # {} => g = h

=============================================================================
