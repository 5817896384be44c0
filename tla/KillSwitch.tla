------------------------------ MODULE KillSwitch ------------------------------
(***************************************************************************)
(* Layer 5 of the order-safety path: the kill switch of                     *)
(* packages/services/engine/src/flinttrade_engine/safety.py, together with  *)
(* the callers that give it its concurrency: normal broker writes passing   *)
(* the router boundary, operator activations (HTTP and Telegram), the       *)
(* operator reset, router rebuilds holding the routing-generation lease,    *)
(* and a process crash followed by a restart from the durable journal.      *)
(*                                                                          *)
(* Every step below is one critical section of KillSwitch._condition, or    *)
(* one call made outside it.  The two policy verbs of an account always     *)
(* travel together through the merge, so an account's outcome is one bit.   *)
(***************************************************************************)
EXTENDS Naturals, FiniteSets

CONSTANTS
    Selectors,      \* broker accounts, "<adapter_id>:<account_id>"
    Unscoped,       \* the empty selector of a failure not tied to an account
    Activations,    \* threads that call KillSwitch.activate
    Writers,        \* threads that perform normal broker writes
    Leased,         \* whether the dispatcher supplies a generation lease
    JournalFaults,  \* whether the durable journal may fail: the cases considered
    ReplaceScopes,  \* the replace_scope arguments callers pass
    Overrides,      \* the reset confirmations operators send
    TargetSets,     \* the target snapshots a dispatcher may return
    MaxSequence,    \* bound: activations per process, in each of these cases
    MaxCrashes      \* bound: process crashes

ASSUME SelectorsAssumption == IsFiniteSet(Selectors) /\ Unscoped \notin Selectors
ASSUME ThreadsAssumption == IsFiniteSet(Activations) /\ IsFiniteSet(Writers)
ASSUME FlagsAssumption == Leased \in BOOLEAN /\ JournalFaults \subseteq BOOLEAN
ASSUME ScopesAssumption == ReplaceScopes \subseteq BOOLEAN /\ Overrides \subseteq BOOLEAN
ASSUME TargetsAssumption == TargetSets \subseteq (SUBSET Selectors) \ {{}}
ASSUME HoldersAssumption == Activations \cap {"free", "reset", "rebuild"} = {}
ASSUME BoundsAssumption == MaxSequence \in [BOOLEAN -> Nat] /\ MaxCrashes \in Nat

VARIABLES
    active, sequence, latestFullScope,      \* _active, the two sequence numbers
    outcomes, lastResult,                   \* _emergency_outcomes, _last_...
    selectorsInProgress, dispatches, normalWrites,
    episode, affected, unsettled,           \* the durable journal's L5 rows
    up, bound, degraded,                    \* process, bound journal, wrapper
    lease,                                  \* holder of the generation lease
    writing,                                \* account of each admitted write
    pc, seqno, replaces, prepared,          \* the activation threads: activate
    targets, pending, waited, batch,        \* and its dispatch rounds
    expected, owned, good,
    rpc, roverride,                         \* the reset request
    faulty,                                 \* whether the journal may fail, fixed
    exposed, claimed, swept, crashes        \* the world and history

latchVars == <<active, sequence, latestFullScope>>
resultVars == <<outcomes, lastResult>>
countVars == <<selectorsInProgress, dispatches, normalWrites>>
durableVars == <<episode, affected, unsettled>>
processVars == <<up, bound, degraded>>
callVars == <<seqno, replaces, prepared>>
roundVars == <<pending, waited, batch, expected, owned, good>>
threadVars == <<writing, pc, callVars, targets, roundVars>>
resetVars == <<rpc, roverride>>
worldVars == <<exposed, claimed, swept, faulty, crashes>>
coreVars == <<latchVars, resultVars, countVars, durableVars, processVars>>
vars == <<coreVars, lease, threadVars, resetVars, worldVars>>

Absent == [seq |-> 0, ok |-> FALSE]
Scopes == Selectors \cup {Unscoped}
NoAccount == Unscoped
Idle == "idle"

\* An activation counted by _dispatches_in_progress.
Dispatching(t) == pc[t] \notin {Idle, "authorised"}

\* The same value in every activation thread.
Everyone(v) == [t \in Activations |-> v]

Goto(t, label) == pc' = [pc EXCEPT ![t] = label]

\* Mutant: one successful account makes the whole result complete.
AnyAccountComplete(o) == \E k \in Scopes : o[k].ok

\* EmergencyDispatchResult.complete over _aggregate_locked.  With no outcome
\* at all the caller falls back on its own result, which then is a failure.
Recorded(o) == {k \in Scopes : o[k].seq > 0}
AggregateComplete(o) == Recorded(o) # {} /\ \A k \in Recorded(o) : o[k].ok

\* _selector_complete_locked
SelectorComplete(s) == outcomes[s].seq > 0 /\ outcomes[s].ok

\* The last_emergency_result property: a running dispatch hides the stored one.
LastEmergencyComplete == dispatches = 0 /\ lastResult = "complete"

Init ==
    /\ active = FALSE /\ sequence = 0 /\ latestFullScope = 0
    /\ outcomes = [k \in Scopes |-> Absent] /\ lastResult = "none"
    /\ selectorsInProgress = {} /\ dispatches = 0 /\ normalWrites = 0
    /\ episode = FALSE /\ affected = {} /\ unsettled = {}
    /\ up = TRUE /\ bound = TRUE /\ degraded = FALSE
    /\ lease = "free"
    /\ writing = [w \in Writers |-> NoAccount]
    /\ pc = Everyone(Idle) /\ seqno = Everyone(0)
    /\ replaces = Everyone(FALSE) /\ prepared = Everyone(FALSE)
    /\ targets = Everyone({}) /\ pending = Everyone({})
    /\ waited = Everyone({}) /\ batch = Everyone({})
    /\ expected = Everyone({}) /\ owned = Everyone({})
    /\ good = Everyone({})
    /\ rpc = Idle /\ roverride = FALSE
    /\ exposed = {} /\ claimed = {} /\ swept = {} /\ crashes = 0
    /\ faulty \in JournalFaults

\* The routing-generation lease; a dispatcher without one runs under a null
\* context.  Mutant: the lease is not exclusive.
LeaseIgnored == TRUE
LeaseAvailable == Leased => lease = "free"
HoldLease(holder) == lease' = IF Leased THEN holder ELSE lease

-------------------------------------------------------------------------------
(* Normal broker writes: broker_write_admission around one adapter call.    *)

\* Mutant: the latch only holds once the sweep is over.
BlockedAfterSweep == active /\ dispatches = 0

\* The latch, or a durable L5 episode read from the journal.
Blocked == active \/ episode

\* Counted in under the condition when neither the latch nor the durable
\* journal blocks.  Without a bound journal no router is ever published.
AdmitNormalWrite(w, s) ==
    /\ up /\ bound
    /\ writing[w] = NoAccount
    /\ ~Blocked
    /\ normalWrites' = normalWrites + 1
    /\ writing' = [writing EXCEPT ![w] = s]
    /\ UNCHANGED <<latchVars, resultVars, selectorsInProgress, dispatches,
                   durableVars, processVars, lease, pc, callVars, targets,
                   roundVars, resetVars, worldVars>>

\* The adapter call returned: the order may or may not have opened exposure.
FinishNormalWrite(w) ==
    /\ up /\ writing[w] # NoAccount
    /\ normalWrites' = normalWrites - 1
    /\ writing' = [writing EXCEPT ![w] = NoAccount]
    /\ exposed' \in {exposed, exposed \cup {writing[w]}}
    /\ UNCHANGED <<latchVars, resultVars, selectorsInProgress, dispatches,
                   durableVars, processVars, lease, pc, callVars, targets,
                   roundVars, resetVars, claimed, swept, faulty, crashes>>

\* A write that finds a durable episode restores the latch and is refused.
RefuseNormalWrite(w) ==
    /\ up /\ bound
    /\ writing[w] = NoAccount
    /\ Blocked
    /\ active' = TRUE
    /\ UNCHANGED <<sequence, latestFullScope, resultVars, countVars,
                   durableVars, processVars, lease, threadVars, resetVars,
                   worldVars>>

-------------------------------------------------------------------------------
(* Activation.                                                              *)

\* GatedEmergencyBrokerDispatcher.authority: the Telegram command holds the
\* generation lease and a target snapshot before it calls activate.
Authorise(t, T) ==
    /\ up /\ bound
    /\ pc[t] = Idle
    /\ sequence < MaxSequence[faulty]
    /\ LeaseAvailable
    /\ HoldLease(t)
    /\ Goto(t, "authorised")
    /\ prepared' = [prepared EXCEPT ![t] = TRUE]
    /\ targets' = [targets EXCEPT ![t] = T]
    /\ UNCHANGED <<coreVars, writing, seqno, replaces, roundVars, resetVars,
                   worldVars>>

\* What activate_episode leaves behind.  A failed durable write may have
\* committed; the dispatcher's wrapper journal then retries it, degrades to
\* process-local storage, or refuses (ensure_degraded_episode).
EpisodeWrite(ready) ==
    \/ /\ ready
       /\ episode' = (episode \/ bound)
       /\ UNCHANGED degraded
    \/ /\ bound /\ faulty
       /\ episode' \in {episode, TRUE}
       /\ degraded' \in IF ready /\ episode' THEN {degraded, TRUE}
                        ELSE {degraded \/ ready}

\* The first critical section of activate: latch, number the activation and
\* write the durable episode.
Latch(t, replace_scope) ==
    /\ up
    /\ pc[t] \in {Idle, "authorised"}
    /\ sequence < MaxSequence[faulty]
    /\ active' = TRUE
    /\ dispatches' = dispatches + 1
    /\ sequence' = sequence + 1
    /\ latestFullScope' = IF replace_scope THEN sequence + 1 ELSE latestFullScope
    /\ seqno' = [seqno EXCEPT ![t] = sequence + 1]
    /\ replaces' = [replaces EXCEPT ![t] = replace_scope]
    /\ \E ready \in BOOLEAN :
          /\ EpisodeWrite(ready)
          /\ Goto(t, IF ready THEN "drain" ELSE "veto")
    /\ UNCHANGED <<resultVars, selectorsInProgress, normalWrites, affected,
                   unsettled, up, bound, lease, writing, prepared, targets,
                   roundVars, resetVars, worldVars>>

\* The lease after t left its dispatch: only activate's own lease ends there,
\* the one of authority ends when activate returns.
LeaseAfterDispatch(t) ==
    IF lease = t /\ ~prepared[t] THEN "free" ELSE lease

\* A result that names no account, merged with authoritative_selectors = None.
FailUnscoped(t) ==
    /\ Goto(t, "merge")
    /\ targets' = [targets EXCEPT ![t] = {}]
    /\ lease' = LeaseAfterDispatch(t)
    /\ UNCHANGED <<pending, claimed>>

\* One immutable target snapshot enters the reservation loop.
StartDispatch(t, T) ==
    /\ Goto(t, "reserve")
    /\ targets' = [targets EXCEPT ![t] = T]
    /\ pending' = [pending EXCEPT ![t] = T]
    /\ claimed' = claimed \cup T
    /\ UNCHANGED lease

\* Admitted normal writes drained before the deadline.  An unready journal
\* (veto) or a missing dispatcher ends the activation without a sweep.
Drained(t) ==
    /\ up
    /\ normalWrites = 0
    /\ \/ /\ pc[t] = "drain" /\ prepared[t]
          /\ StartDispatch(t, targets[t])
       \/ /\ pc[t] = "drain" /\ ~prepared[t]
          /\ Goto(t, "lease")
          /\ UNCHANGED <<targets, pending, claimed, lease>>
       \/ /\ pc[t] \in {"drain", "veto"}
          /\ FailUnscoped(t)
    /\ UNCHANGED <<coreVars, writing, callVars, waited, batch, expected,
                   owned, good, resetVars, exposed, swept, faulty, crashes>>

\* normal_write_drain_timeout elapsed with an admitted write still in flight.
DrainTimeout(t) ==
    /\ up /\ pc[t] \in {"drain", "veto"}
    /\ normalWrites > 0
    /\ FailUnscoped(t)
    /\ UNCHANGED <<coreVars, writing, callVars, waited, batch, expected,
                   owned, good, resetVars, exposed, swept, faulty, crashes>>

-------------------------------------------------------------------------------
(* The coordinated sweep: lease, target snapshot, reservation rounds.       *)

\* generation_lease: a dispatcher without one runs under a null context.
AcquireLease(t) ==
    /\ up /\ pc[t] = "lease"
    /\ LeaseAvailable
    /\ HoldLease(t)
    /\ Goto(t, "prepare")
    /\ UNCHANGED <<coreVars, writing, callVars, targets, roundVars, resetVars,
                   worldVars>>

LeaseTimeout(t) ==
    /\ up /\ pc[t] = "lease"
    /\ Leased /\ lease # "free"
    /\ FailUnscoped(t)
    /\ UNCHANGED <<coreVars, writing, callVars, waited, batch, expected,
                   owned, good, resetVars, exposed, swept, faulty, crashes>>

\* prepare_targets, which fails when no router or no authorised account is
\* available.
PrepareTargets(t) ==
    /\ up /\ pc[t] = "prepare"
    /\ \/ bound /\ \E T \in TargetSets : StartDispatch(t, T)
       \/ FailUnscoped(t)
    /\ UNCHANGED <<coreVars, writing, callVars, waited, batch, expected,
                   owned, good, resetVars, exposed, swept, faulty, crashes>>

\* One pass of the reservation loop splits the pending accounts into those
\* another activation is sweeping, those it waited for and may join, and the
\* rest, which it reserves.
StillWaiting(t) == pending[t] \cap selectorsInProgress
Joined(t) == {s \in pending[t] \ selectorsInProgress :
                 s \in waited[t] /\ SelectorComplete(s)}
\* Mutant: an account in progress elsewhere is swept again.
AllPending(t) == pending[t]
FreeTargets(t) == pending[t] \ (StillWaiting(t) \cup Joined(t))

ReserveTargets(t) ==
    /\ up /\ pc[t] = "reserve"
    /\ FreeTargets(t) # {}
    /\ selectorsInProgress' = selectorsInProgress \cup FreeTargets(t)
    /\ owned' = [owned EXCEPT ![t] = @ \cup FreeTargets(t)]
    /\ batch' = [batch EXCEPT ![t] = FreeTargets(t)]
    /\ waited' = [waited EXCEPT ![t] = @ \cup StillWaiting(t)]
    /\ pending' = [pending EXCEPT ![t] = StillWaiting(t)]
    /\ Goto(t, "bind")
    /\ UNCHANGED <<latchVars, resultVars, dispatches, normalWrites,
                   durableVars, processVars, lease, writing, callVars,
                   targets, expected, good, resetVars, worldVars>>

\* Nothing is free: remember what is waited for and sleep on the condition.
AwaitSelectors(t) ==
    /\ up /\ pc[t] = "reserve"
    /\ FreeTargets(t) = {} /\ StillWaiting(t) # {}
    /\ waited' = [waited EXCEPT ![t] = @ \cup StillWaiting(t)]
    /\ pending' = [pending EXCEPT ![t] = StillWaiting(t)]
    /\ <<waited, pending>>' # <<waited, pending>>
    /\ UNCHANGED <<coreVars, lease, writing, pc, callVars, targets, batch,
                   expected, owned, good, resetVars, worldVars>>

EndDispatch(t) ==
    /\ pending' = [pending EXCEPT ![t] = {}]
    /\ Goto(t, "merge")
    /\ lease' = LeaseAfterDispatch(t)
    /\ UNCHANGED <<coreVars, writing, callVars, targets, waited, batch,
                   expected, owned, good, resetVars, worldVars>>

\* Every pending account is joined or was swept; the lease scope closes.
FinishDispatch(t) ==
    /\ up /\ pc[t] = "reserve"
    /\ pending[t] = Joined(t)
    /\ EndDispatch(t)

\* Mutant: the condition wait has no deadline.
WaitForever(t) == FALSE

\* The deadline passed with accounts still in progress elsewhere
\* (dispatch_in_progress_timeout, not authoritative for them).
ReserveTimeout(t) ==
    /\ up /\ pc[t] = "reserve"
    /\ FreeTargets(t) = {} /\ StillWaiting(t) # {}
    /\ EndDispatch(t)

\* _bind_episode_targets reads the episode the batch will be bound to, and
\* writes it when it is missing.
ReadEpisode(t) ==
    /\ up /\ pc[t] = "bind"
    /\ expected' = [expected EXCEPT ![t] = affected]
    /\ Goto(t, "record")
    /\ IF degraded THEN UNCHANGED <<episode, degraded>> ELSE EpisodeWrite(TRUE)
    /\ UNCHANGED <<latchVars, resultVars, countVars, affected, unsettled, up,
                   bound, lease, writing, callVars, targets, pending, waited,
                   batch, owned, good, resetVars, worldVars>>

\* record_episode_targets: a compare-and-set on the record read before.
RecordTargets(t) ==
    /\ up /\ pc[t] = "record"
    /\ \/ /\ ~degraded /\ affected = expected[t]
          /\ affected' = affected \cup batch[t]
          /\ degraded' \in {FALSE, faulty}
       \/ /\ degraded \/ faulty
          /\ degraded' = TRUE
          /\ UNCHANGED affected
    /\ Goto(t, "sweep")
    /\ UNCHANGED <<latchVars, resultVars, countVars, episode, unsettled, up,
                   bound, lease, writing, callVars, targets, roundVars,
                   resetVars, worldVars>>

\* Another activation bound its own batch meanwhile: EmergencyIntentConflict,
\* reported as dispatch_failed for the whole batch without a broker write.
RecordConflict(t) ==
    /\ up /\ pc[t] = "record"
    /\ ~degraded /\ affected # expected[t]
    /\ batch' = [batch EXCEPT ![t] = {}]
    /\ Goto(t, "reserve")
    /\ UNCHANGED <<coreVars, lease, writing, callVars, targets, pending,
                   waited, expected, owned, good, resetVars, worldVars>>

\* dispatch_prepared over the batch.  An account reported complete was proved
\* flat and its intents settled; a failed one may be partly flattened and may
\* leave durable intents.  A degraded journal no longer settles durable rows.
Sweep(t) ==
    /\ up /\ pc[t] = "sweep"
    /\ \E ok \in SUBSET batch[t] :
          /\ good' = [good EXCEPT ![t] = @ \cup ok]
          /\ \E flattened \in SUBSET (batch[t] \ ok) :
                exposed' = exposed \ (ok \cup flattened)
          /\ \/ /\ ~degraded
                /\ degraded' \in {FALSE, faulty}
                /\ \E left \in SUBSET (batch[t] \ (IF degraded' THEN {} ELSE ok)) :
                      unsettled' = (unsettled \ batch[t]) \cup left
             \/ /\ degraded
                /\ UNCHANGED <<unsettled, degraded>>
    /\ swept' = swept \cup batch[t]
    /\ batch' = [batch EXCEPT ![t] = {}]
    /\ Goto(t, "reserve")
    /\ UNCHANGED <<latchVars, resultVars, countVars, episode, affected, up,
                   bound, lease, writing, callVars, targets, pending, waited,
                   expected, owned, resetVars, claimed, faulty, crashes>>

-------------------------------------------------------------------------------
(* The merge in activate's finally clause.                                  *)

\* The scopes this activation's result may overwrite.
Authoritative(t) ==
    IF targets[t] # {} THEN owned[t]
    ELSE IF seqno[t] < latestFullScope THEN {} ELSE {Unscoped}

\* A target-bound result of a full-scope activation retires earlier unscoped
\* failures; every other outcome is replaced only by a newer activation.
MergedOutcomes(t) ==
    LET retire == replaces[t] /\ targets[t] # {}
                  /\ outcomes[Unscoped].seq <= seqno[t]
        base == IF retire THEN [outcomes EXCEPT ![Unscoped] = Absent] ELSE outcomes
    IN  [k \in Scopes |->
            IF k \in Authoritative(t) /\ seqno[t] >= base[k].seq
            THEN [seq |-> seqno[t], ok |-> k \in good[t]]
            ELSE base[k]]

Merge(t) ==
    /\ up /\ pc[t] = "merge"
    /\ outcomes' = MergedOutcomes(t)
    /\ lastResult' = IF AggregateComplete(outcomes') THEN "complete" ELSE "failed"
    /\ selectorsInProgress' = selectorsInProgress \ owned[t]
    /\ dispatches' = dispatches - 1
    /\ lease' = IF lease = t THEN "free" ELSE lease
    /\ Goto(t, Idle)
    /\ seqno' = [seqno EXCEPT ![t] = 0]
    /\ replaces' = [replaces EXCEPT ![t] = FALSE]
    /\ prepared' = [prepared EXCEPT ![t] = FALSE]
    /\ targets' = [targets EXCEPT ![t] = {}]
    /\ waited' = [waited EXCEPT ![t] = {}]
    /\ expected' = [expected EXCEPT ![t] = {}]
    /\ owned' = [owned EXCEPT ![t] = {}]
    /\ good' = [good EXCEPT ![t] = {}]
    /\ UNCHANGED <<latchVars, normalWrites, durableVars, processVars, writing,
                   pending, batch, resetVars, worldVars>>

-------------------------------------------------------------------------------
(* The operator reset: HTTP handler, then KillSwitch.reset under the lease. *)

\* The precheck reads is_active and last_emergency_result; an explicit
\* confirmation of open exposure overrides it.
RequestReset(override) ==
    /\ up /\ rpc = Idle
    /\ active => (LastEmergencyComplete \/ override)
    /\ rpc' = "drain"
    /\ roverride' = override
    /\ UNCHANGED <<coreVars, lease, threadVars, worldVars>>

\* wait_for_idle returns.
ResetIdle ==
    /\ up /\ rpc = "drain"
    /\ dispatches = 0 /\ normalWrites = 0
    /\ rpc' = "lease"
    /\ UNCHANGED <<coreVars, lease, threadVars, roverride, worldVars>>

ResetLease ==
    /\ up /\ rpc = "lease"
    /\ LeaseAvailable
    /\ HoldLease("reset")
    /\ rpc' = "reset"
    /\ UNCHANGED <<coreVars, threadVars, roverride, worldVars>>

EndReset ==
    /\ rpc' = Idle /\ roverride' = FALSE
    /\ lease' = IF lease = "reset" THEN "free" ELSE lease

\* wait_for_idle or the lease timed out.
AbandonReset ==
    /\ up
    /\ \/ rpc = "drain" /\ (dispatches > 0 \/ normalWrites > 0)
       \/ rpc = "lease" /\ Leased /\ lease # "free"
    /\ EndReset
    /\ UNCHANGED <<coreVars, threadVars, worldVars>>

\* Mutant: only this process's outcomes are authorised.
OutcomeScope == {s \in Selectors : outcomes[s].seq > 0}

\* The accounts reset asks authorise_selectors about.
ResetScope ==
    {s \in Selectors : outcomes[s].seq > 0} \cup
    (IF bound /\ episode THEN affected ELSE {})

\* Mutant: reset trusts the handler's earlier completeness check.
IdleOnly ==
    /\ dispatches = 0 /\ normalWrites = 0
    /\ bound /\ active => episode
    /\ bound /\ episode => unsettled = {}

\* Every recheck of reset short of the caller's authorisation, which may
\* also refuse.
ResetAllowed ==
    /\ dispatches = 0 /\ normalWrites = 0
    /\ active => (roverride \/ lastResult = "complete")
    /\ bound /\ active => episode
    /\ bound /\ episode => unsettled = {}

\* The zero-timeout recheck and the transition, one critical section.
Reset ==
    /\ up /\ rpc = "reset"
    /\ ResetAllowed
    /\ active' = FALSE
    /\ outcomes' = [k \in Scopes |-> Absent]
    /\ episode' = (episode /\ ~bound)
    /\ affected' = IF bound THEN {} ELSE affected
    /\ claimed' = {}
    /\ swept' = IF bound THEN {} ELSE swept
    /\ EndReset
    /\ UNCHANGED <<sequence, latestFullScope, lastResult, countVars,
                   unsettled, processVars, threadVars, exposed, faulty, crashes>>

\* Any check, the authorisation or the journal refuses.  A failed durable
\* deactivation may have committed.
RefuseReset ==
    /\ up /\ rpc = "reset"
    /\ \E committed \in {FALSE, ResetAllowed /\ bound /\ faulty} :
          /\ episode' = (episode /\ ~committed)
          /\ affected' = IF committed THEN {} ELSE affected
    /\ EndReset
    /\ UNCHANGED <<latchVars, resultVars, countVars, unsettled, processVars,
                   threadVars, worldVars>>

-------------------------------------------------------------------------------
(* Router rebuilds, crash and restart.                                      *)

BeginRebuild ==
    /\ up /\ Leased /\ lease = "free"
    /\ lease' = "rebuild"
    /\ UNCHANGED <<coreVars, threadVars, resetVars, worldVars>>

EndRebuild ==
    /\ up /\ lease = "rebuild"
    /\ lease' = "free"
    /\ UNCHANGED <<coreVars, threadVars, resetVars, worldVars>>

\* Accounts whose batch was being dispatched when the process died.
Sweeping == UNION {batch[t] : t \in {u \in Activations : pc[u] = "sweep"}}

Crash ==
    /\ up /\ crashes < MaxCrashes
    /\ crashes' = crashes + 1
    /\ up' = FALSE /\ bound' = FALSE /\ degraded' = FALSE
    /\ \E opened \in SUBSET ({writing[w] : w \in Writers} \ {NoAccount}),
          flattened \in SUBSET Sweeping :
          exposed' = (exposed \ flattened) \cup opened
    /\ \E left \in SUBSET Sweeping :
          unsettled' = IF degraded THEN unsettled ELSE unsettled \cup left
    /\ swept' = swept \cup Sweeping
    /\ claimed' = {}
    /\ active' = FALSE /\ sequence' = 0 /\ latestFullScope' = 0
    /\ outcomes' = [k \in Scopes |-> Absent] /\ lastResult' = "none"
    /\ selectorsInProgress' = {} /\ dispatches' = 0 /\ normalWrites' = 0
    /\ lease' = "free" /\ rpc' = Idle /\ roverride' = FALSE
    /\ writing' = [w \in Writers |-> NoAccount]
    /\ pc' = Everyone(Idle) /\ seqno' = Everyone(0)
    /\ replaces' = Everyone(FALSE) /\ prepared' = Everyone(FALSE)
    /\ targets' = Everyone({}) /\ pending' = Everyone({})
    /\ waited' = Everyone({}) /\ batch' = Everyone({})
    /\ expected' = Everyone({}) /\ owned' = Everyone({})
    /\ good' = Everyone({})
    /\ UNCHANGED <<episode, affected, faulty>>

\* Mutant: an episode without open intents is taken for finished.
OpenIntentsOnly == episode /\ unsettled # {}

\* The latch bind_emergency_journal restores.
RestoredLatch == episode

\* Startup: bind_emergency_journal restores the latch; a journal that fails its
\* health check stays unbound and leaves live routing disabled.
Restart ==
    /\ ~up
    /\ up' = TRUE
    /\ \/ bound' = TRUE /\ active' = RestoredLatch
       \/ faulty /\ bound' = FALSE /\ active' = FALSE
    /\ UNCHANGED <<sequence, latestFullScope, resultVars, countVars,
                   durableVars, degraded, lease, threadVars, resetVars,
                   worldVars>>

\* The steps of a running activation that need no one else's progress,
\* timeouts included.
RunningStep(t) ==
    \/ Drained(t) \/ DrainTimeout(t)
    \/ AcquireLease(t) \/ LeaseTimeout(t) \/ PrepareTargets(t)
    \/ ReserveTargets(t) \/ FinishDispatch(t) \/ ReserveTimeout(t)
    \/ ReadEpisode(t) \/ RecordTargets(t) \/ RecordConflict(t) \/ Sweep(t)
    \/ Merge(t)

ActivationStep(t) ==
    \/ \E T \in TargetSets : Authorise(t, T)
    \/ \E r \in ReplaceScopes : Latch(t, r)
    \/ AwaitSelectors(t)
    \/ RunningStep(t)

WriterStep(w) ==
    \/ \E s \in Selectors : AdmitNormalWrite(w, s)
    \/ RefuseNormalWrite(w) \/ FinishNormalWrite(w)

ResetStep ==
    \/ \E override \in Overrides : RequestReset(override)
    \/ ResetIdle \/ ResetLease \/ AbandonReset \/ Reset \/ RefuseReset

Next ==
    \/ \E t \in Activations : ActivationStep(t)
    \/ \E w \in Writers : WriterStep(w)
    \/ ResetStep \/ BeginRebuild \/ EndRebuild \/ Crash \/ Restart

Spec == Init /\ [][Next]_vars

\* Every wait of activate, wait_for_idle and the lease has a deadline, and a
\* thread that may go on is eventually scheduled.
Fairness ==
    /\ \A t \in Activations :
          /\ WF_vars(RunningStep(t))
          /\ WF_vars(pc[t] = "authorised" /\ \E r \in ReplaceScopes : Latch(t, r))
    /\ WF_vars(ResetIdle \/ ResetLease \/ AbandonReset \/ Reset \/ RefuseReset)

FairSpec == Spec /\ Fairness

-------------------------------------------------------------------------------
(* Properties.                                                              *)

Labels == {Idle, "authorised", "drain", "veto", "lease", "prepare",
           "reserve", "bind", "record", "sweep", "merge"}

\* Every variable of the kill switch keeps its type; in particular neither
\* in-flight counter ever goes below zero.
TypeOK ==
    /\ active \in BOOLEAN /\ sequence \in Nat /\ latestFullScope \in Nat
    /\ outcomes \in [Scopes -> [seq : Nat, ok : BOOLEAN]]
    /\ lastResult \in {"none", "complete", "failed"}
    /\ selectorsInProgress \subseteq Selectors
    /\ dispatches \in Nat /\ normalWrites \in Nat
    /\ episode \in BOOLEAN /\ affected \subseteq Selectors /\ unsettled \subseteq Selectors
    /\ up \in BOOLEAN /\ bound \in BOOLEAN /\ degraded \in BOOLEAN
    /\ lease \in Activations \cup {"free", "reset", "rebuild"}
    /\ writing \in [Writers -> Scopes]
    /\ pc \in [Activations -> Labels]
    /\ seqno \in [Activations -> Nat]
    /\ replaces \in [Activations -> BOOLEAN] /\ prepared \in [Activations -> BOOLEAN]
    /\ targets \in [Activations -> SUBSET Selectors]
    /\ \A f \in {pending, waited, batch, expected, owned, good} :
          f \in [Activations -> SUBSET Selectors]
    /\ rpc \in {Idle, "drain", "lease", "reset"} /\ roverride \in BOOLEAN
    /\ exposed \subseteq Selectors /\ claimed \subseteq Selectors
    /\ swept \subseteq Selectors /\ faulty \in BOOLEAN /\ crashes \in Nat

\* From the moment an activation starts reserving accounts until its result is
\* merged, no normal broker write is between admission and adapter return: the
\* flatten never races an order that was admitted before the latch.
NoNormalWriteDuringSweep ==
    \A t \in Activations :
        pc[t] \in {"lease", "prepare", "reserve", "bind", "record", "sweep"} =>
            \A w \in Writers : writing[w] = NoAccount

\* Overlapping activations never sweep the same account at once: ownership is
\* disjoint and is exactly what _selectors_in_progress holds, so a concurrent
\* activation cannot submit a second square-off.
ExclusiveSweep ==
    /\ \A t, u \in Activations : t # u => owned[t] \cap owned[u] = {}
    /\ selectorsInProgress = UNION {owned[t] : t \in Activations}

\* A latched kill switch that reports "complete" has left none of the accounts
\* this process set out to flatten exposed, whatever activations overlapped,
\* timed out or superseded each other.
CompleteMeansFlat ==
    active /\ LastEmergencyComplete => claimed \cap exposed = {}

\* A process with its journal bound never runs unlatched over a durable L5
\* episode, before or after a crash at any point.
DurableEpisodeLatches == up /\ bound /\ episode => active

\* Unless the operator confirmed open exposure, the latch is only lifted by a
\* reset at a moment when every account set out to be flattened is flat, even
\* if another activation ran between the handler's check and the reset.
ResetLeavesFlat ==
    [][up' /\ active /\ ~active' /\ ~roverride => claimed \cap exposed = {}]_vars

\* While the journal works, the accounts a reset must be authorised for include
\* every account that received reducing writes since the episode began, also
\* those swept by a process that has crashed since.
DurableResetScope ==
    ~faulty /\ active /\ dispatches = 0 => swept \subseteq ResetScope

\* With the generation lease the episode record an activation read is still the
\* current one when it binds its accounts to it: no activation loses its batch to
\* an intent conflict, whatever else is activated, reset or rebuilt.
BoundEpisodeStaysCurrent ==
    Leased => \A t \in Activations :
        pc[t] = "record" /\ ~degraded => affected = expected[t]

\* The kill switch implements the emergency latch over all accounts: whatever
\* overlaps, no write is admitted while it is latched, an account is swept only
\* behind the latch, with no write in flight, by one activation, and the latch is
\* not lifted under a sweep.
Latched == INSTANCE EmergencyLatch WITH
    Accounts <- Selectors,
    open <- up /\ bound /\ ~active,
    sweeping <- selectorsInProgress,
    writing <- {writing[w] : w \in Writers} \ {NoAccount}
ImplementsLatch == Latched!Spec

\* Every activation returns a result, even when activations wait for accounts
\* each other owns: the reservation deadline breaks the cycle.
ActivationReturns == \A t \in Activations : Dispatching(t) ~> pc[t] = Idle

====
