--------------------------- MODULE KillSwitchProofs ---------------------------
(***************************************************************************)
(* Proofs about KillSwitch, for every finite set of accounts and threads    *)
(* and every bound.  The counters of the kill switch are the cardinalities  *)
(* of the sets of threads they count; everything else follows from that: a  *)
(* sweep is exclusive, the kill switch implements the emergency latch, a    *)
(* complete result means that every account set out to be flattened is      *)
(* flat, the lease keeps the episode record current, and over a working     *)
(* journal a reset is authorised for every account that was swept.          *)
(***************************************************************************)
EXTENDS KillSwitch, FiniteSetTheorems, TLAPS

InFlight == {w \in Writers : writing[w] # NoAccount}
Running == {t \in Activations : Dispatching(t)}

\* The counters count, a running activation keeps the latch on, and a process
\* that is down holds no latch in memory.
Counted ==
    /\ normalWrites = Cardinality(InFlight)
    /\ dispatches = Cardinality(Running)
    /\ \A t \in Activations : Dispatching(t) => active
    /\ active => up

\* The strengthening of the safety properties that one step preserves.
CoordinationInv ==
    /\ TypeOK
    /\ Counted
    /\ NoNormalWriteDuringSweep
    /\ ExclusiveSweep
    /\ DurableEpisodeLatches

LEMMA InitTypeOK == Init => TypeOK
<1> SUFFICES ASSUME Init PROVE TypeOK
  BY Zenon
<1>1. outcomes \in [Scopes -> [seq : Nat, ok : BOOLEAN]]
  BY Zenon DEF Init, Absent
<1>2. writing \in [Writers -> Scopes]
  BY Zenon DEF Init, Scopes, NoAccount
<1>3. faulty \in BOOLEAN
  BY Zenon, FlagsAssumption DEF Init
<1> QED
  BY Zenon, <1>1, <1>2, <1>3 DEF Init, TypeOK, Labels, Idle, Everyone

\* A counted thread makes its counter positive.
LEMMA CountersPositive ==
    ASSUME TypeOK, Counted
    PROVE  /\ \A w \in Writers : writing[w] # NoAccount => normalWrites > 0
           /\ \A t \in Activations : Dispatching(t) => dispatches > 0
<1>1. ASSUME NEW w \in Writers, writing[w] # NoAccount PROVE normalWrites > 0
  <2>1. IsFiniteSet(InFlight) /\ w \in InFlight
    BY Zenon, <1>1, ThreadsAssumption, FS_Subset DEF InFlight
  <2>2. Cardinality(InFlight) \in Nat /\ Cardinality(InFlight) # 0
    BY Zenon, <2>1, FS_CardinalityType, FS_EmptySet
  <2> QED BY <2>2 DEF Counted
<1>2. ASSUME NEW t \in Activations, Dispatching(t) PROVE dispatches > 0
  <2>1. IsFiniteSet(Running) /\ t \in Running
    BY Zenon, <1>2, ThreadsAssumption, FS_Subset DEF Running
  <2>2. Cardinality(Running) \in Nat /\ Cardinality(Running) # 0
    BY Zenon, <2>1, FS_CardinalityType, FS_EmptySet
  <2> QED BY <2>2 DEF Counted
<1> QED BY Zenon, <1>1, <1>2

\* One step keeps the types.  The counters stay natural numbers only because
\* they count threads.
LEMMA NextTypeOK == TypeOK /\ Counted /\ [Next]_vars => TypeOK'
<1> SUFFICES ASSUME TypeOK, Counted, [Next]_vars PROVE TypeOK'
  BY Zenon
<1> USE DEF TypeOK, coreVars, latchVars, resultVars, countVars, durableVars,
            processVars, callVars, roundVars, threadVars, resetVars, worldVars,
            Idle, Labels, Goto
<1>1. ASSUME NEW w \in Writers, WriterStep(w) PROVE TypeOK'
  <2>1. ASSUME NEW s \in Selectors, AdmitNormalWrite(w, s) PROVE TypeOK'
    BY <2>1 DEF AdmitNormalWrite, Scopes
  <2>2. CASE RefuseNormalWrite(w)
    BY ZenonT(30), <2>2 DEF RefuseNormalWrite
  <2>3. CASE FinishNormalWrite(w)
    <3>1. normalWrites' \in Nat
      BY <2>3, CountersPositive DEF FinishNormalWrite
    <3>2. exposed' \subseteq Selectors
      BY Zenon, <2>3 DEF FinishNormalWrite, Scopes, NoAccount
    <3>3. writing' \in [Writers -> Scopes]
      BY Zenon, <2>3 DEF FinishNormalWrite, Scopes, NoAccount
    <3> QED BY <2>3, <3>1, <3>2, <3>3 DEF FinishNormalWrite
  <2> QED BY Zenon, <1>1, <2>1, <2>2, <2>3 DEF WriterStep
<1>2. ASSUME NEW t \in Activations, ActivationStep(t) PROVE TypeOK'
  <2>1. ASSUME NEW T \in TargetSets, Authorise(t, T) PROVE TypeOK'
    BY Zenon, <2>1, TargetsAssumption DEF Authorise, HoldLease
  <2>2. ASSUME NEW r \in ReplaceScopes, Latch(t, r) PROVE TypeOK'
    <3>1. episode' \in BOOLEAN /\ degraded' \in BOOLEAN
      BY Zenon, <2>2 DEF Latch, EpisodeWrite
    <3>2. pc' \in [Activations -> Labels]
      BY Zenon, <2>2 DEF Latch
    <3>3. replaces' \in [Activations -> BOOLEAN]
      BY Zenon, <2>2, ScopesAssumption DEF Latch
    <3> QED BY <2>2, <3>1, <3>2, <3>3 DEF Latch
  <2>3. CASE AwaitSelectors(t)
    BY <2>3 DEF AwaitSelectors, StillWaiting
  <2>4. CASE RunningStep(t)
    <3>1. CASE Drained(t)
      BY SMTT(30), <3>1 DEF Drained, StartDispatch, FailUnscoped, LeaseAfterDispatch
    <3>2. CASE DrainTimeout(t)
      BY ZenonT(30), <3>2 DEF DrainTimeout, FailUnscoped, LeaseAfterDispatch
    <3>3. CASE AcquireLease(t)
      BY ZenonT(30), <3>3 DEF AcquireLease, HoldLease
    <3>4. CASE LeaseTimeout(t)
      BY ZenonT(30), <3>4 DEF LeaseTimeout, FailUnscoped, LeaseAfterDispatch
    <3>5. CASE PrepareTargets(t)
      <4>1. ASSUME NEW T \in TargetSets, StartDispatch(t, T)
            PROVE /\ targets' \in [Activations -> SUBSET Selectors]
                  /\ pending' \in [Activations -> SUBSET Selectors]
                  /\ claimed' \subseteq Selectors
        BY Zenon, <4>1, TargetsAssumption DEF StartDispatch
      <4>2. CASE \E T \in TargetSets : StartDispatch(t, T)
        <5>1. PICK T \in TargetSets : StartDispatch(t, T)
          BY Zenon, <4>2
        <5>2. pc' \in [Activations -> Labels] /\ lease' = lease
          BY Zenon, <5>1 DEF StartDispatch
        <5> QED BY <3>5, <4>1, <5>1, <5>2 DEF PrepareTargets
      <4>3. CASE FailUnscoped(t)
        BY ZenonT(30), <3>5, <4>3 DEF PrepareTargets, FailUnscoped, LeaseAfterDispatch
      <4> QED BY Zenon, <3>5, <4>2, <4>3 DEF PrepareTargets
    <3>6. CASE ReserveTargets(t)
      BY <3>6 DEF ReserveTargets, FreeTargets, StillWaiting
    <3>7. CASE FinishDispatch(t)
      BY <3>7 DEF FinishDispatch, EndDispatch, LeaseAfterDispatch
    <3>8. CASE ReserveTimeout(t)
      BY <3>8 DEF ReserveTimeout, EndDispatch, LeaseAfterDispatch
    <3>9. CASE ReadEpisode(t)
      <4>1. episode' \in BOOLEAN /\ degraded' \in BOOLEAN
        BY Zenon, <3>9 DEF ReadEpisode, EpisodeWrite
      <4> QED BY <3>9, <4>1 DEF ReadEpisode
    <3>10. CASE RecordTargets(t)
      <4>1. affected' \subseteq Selectors
        BY Zenon, <3>10 DEF RecordTargets
      <4>2. degraded' \in BOOLEAN
        BY Zenon, <3>10 DEF RecordTargets
      <4> QED BY <3>10, <4>1, <4>2 DEF RecordTargets
    <3>11. CASE RecordConflict(t)
      BY <3>11 DEF RecordConflict
    <3>12. CASE Sweep(t)
      <4>1. good' \in [Activations -> SUBSET Selectors]
        BY <3>12 DEF Sweep
      <4>2. exposed' \subseteq Selectors /\ swept' \subseteq Selectors
        BY Zenon, <3>12 DEF Sweep
      <4>3. unsettled' \subseteq Selectors /\ degraded' \in BOOLEAN
        BY ZenonT(30), <3>12 DEF Sweep
      <4> QED BY <3>12, <4>1, <4>2, <4>3 DEF Sweep
    <3>13. CASE Merge(t)
      <4>1. dispatches' \in Nat
        BY <3>13, CountersPositive DEF Merge, Dispatching
      <4>2. outcomes' \in [Scopes -> [seq : Nat, ok : BOOLEAN]]
        BY <3>13 DEF Merge, MergedOutcomes, Absent, Scopes
      <4> QED BY <3>13, <4>1, <4>2 DEF Merge
    <3> QED BY Zenon, <2>4, <3>1, <3>2, <3>3, <3>4, <3>5, <3>6, <3>7, <3>8, <3>9,
               <3>10, <3>11, <3>12, <3>13 DEF RunningStep
  <2> QED BY Zenon, <1>2, <2>1, <2>2, <2>3, <2>4 DEF ActivationStep
<1>3. CASE ResetStep
  <2>1. ASSUME NEW o \in Overrides, RequestReset(o) PROVE TypeOK'
    BY Zenon, <2>1, ScopesAssumption DEF RequestReset
  <2>2. CASE ResetIdle
    BY <2>2 DEF ResetIdle
  <2>3. CASE ResetLease
    BY Zenon, <2>3 DEF ResetLease, HoldLease
  <2>4. CASE AbandonReset
    BY Zenon, <2>4 DEF AbandonReset, EndReset
  <2>5. CASE Reset
    BY Zenon, <2>5 DEF Reset, EndReset, Absent
  <2>6. CASE RefuseReset
    BY Zenon, <2>6 DEF RefuseReset, EndReset
  <2> QED BY Zenon, <1>3, <2>1, <2>2, <2>3, <2>4, <2>5, <2>6 DEF ResetStep
<1>4. CASE BeginRebuild \/ EndRebuild
  BY <1>4 DEF BeginRebuild, EndRebuild
<1>5. CASE Crash
  <2>1. outcomes' \in [Scopes -> [seq : Nat, ok : BOOLEAN]]
    BY Zenon, <1>5 DEF Crash, Absent
  <2>2. writing' \in [Writers -> Scopes]
    BY Zenon, <1>5 DEF Crash, Scopes, NoAccount
  <2>3. exposed' \subseteq Selectors /\ unsettled' \subseteq Selectors
        /\ swept' \subseteq Selectors
    BY <1>5 DEF Crash, Sweeping, Scopes, NoAccount
  <2>4. /\ pc' \in [Activations -> Labels]
        /\ seqno' \in [Activations -> Nat]
        /\ replaces' \in [Activations -> BOOLEAN]
        /\ prepared' \in [Activations -> BOOLEAN]
    BY Zenon, <1>5 DEF Crash, Everyone
  <2>5. /\ targets' \in [Activations -> SUBSET Selectors]
        /\ \A f \in {pending', waited', batch', expected', owned', good'} :
              f \in [Activations -> SUBSET Selectors]
    BY Zenon, <1>5 DEF Crash, Everyone
  <2>6. /\ active' \in BOOLEAN /\ sequence' \in Nat /\ latestFullScope' \in Nat
        /\ lastResult' \in {"none", "complete", "failed"}
        /\ selectorsInProgress' \subseteq Selectors
        /\ dispatches' \in Nat /\ normalWrites' \in Nat
        /\ episode' \in BOOLEAN /\ affected' \subseteq Selectors
    BY Zenon, <1>5 DEF Crash
  <2>7. /\ up' \in BOOLEAN /\ bound' \in BOOLEAN /\ degraded' \in BOOLEAN
        /\ roverride' \in BOOLEAN
    BY Zenon, <1>5 DEF Crash
  <2>8. /\ lease' \in Activations \cup {"free", "reset", "rebuild"}
        /\ rpc' \in {Idle, "drain", "lease", "reset"}
    BY Zenon, <1>5 DEF Crash
  <2>9. claimed' \subseteq Selectors /\ faulty' \in BOOLEAN /\ crashes' \in Nat
    BY <1>5 DEF Crash
  <2> QED BY Zenon, <2>1, <2>2, <2>3, <2>4, <2>5, <2>6, <2>7, <2>8, <2>9
<1>6. CASE Restart
  BY ZenonT(30), <1>6 DEF Restart, RestoredLatch
<1>7. CASE UNCHANGED vars
  BY <1>7 DEF vars
<1> QED BY Zenon, <1>1, <1>2, <1>3, <1>4, <1>5, <1>6, <1>7 DEF Next

-------------------------------------------------------------------------------
(* What the steps leave alone.                                              *)

\* Reservations change only when accounts are reserved, merged or lost in a
\* crash.
LEMMA ReservationFrame ==
    ASSUME [Next]_vars
    PROVE  \/ UNCHANGED <<owned, selectorsInProgress>>
           \/ \E t \in Activations : ReserveTargets(t) \/ Merge(t)
           \/ Crash
<1> USE DEF coreVars, countVars, roundVars, threadVars
<1>1. ASSUME NEW w \in Writers, WriterStep(w)
      PROVE UNCHANGED <<owned, selectorsInProgress>>
  BY Zenon, <1>1 DEF WriterStep, AdmitNormalWrite, RefuseNormalWrite, FinishNormalWrite
<1>2. ASSUME NEW t \in Activations, ActivationStep(t),
             ~ReserveTargets(t), ~Merge(t)
      PROVE UNCHANGED <<owned, selectorsInProgress>>
  <2>1. CASE \/ \E T \in TargetSets : Authorise(t, T)
             \/ \E r \in ReplaceScopes : Latch(t, r)
             \/ AwaitSelectors(t)
    BY Zenon, <2>1 DEF Authorise, Latch, AwaitSelectors
  <2>2. CASE \/ Drained(t) \/ DrainTimeout(t) \/ AcquireLease(t)
             \/ LeaseTimeout(t) \/ PrepareTargets(t)
    BY Zenon, <2>2 DEF Drained, DrainTimeout, AcquireLease, LeaseTimeout, PrepareTargets
  <2>3. CASE FinishDispatch(t) \/ ReserveTimeout(t) \/ ReadEpisode(t)
    BY Zenon, <2>3 DEF FinishDispatch, ReserveTimeout, EndDispatch, ReadEpisode
  <2>4. CASE RecordTargets(t) \/ RecordConflict(t) \/ Sweep(t)
    BY Zenon, <2>4 DEF RecordTargets, RecordConflict, Sweep
  <2> QED BY Zenon, <1>2, <2>1, <2>2, <2>3, <2>4 DEF ActivationStep, RunningStep
<1>3. CASE ResetStep
  BY Zenon, <1>3 DEF ResetStep, RequestReset, ResetIdle, ResetLease, AbandonReset,
              Reset, RefuseReset
<1>4. CASE BeginRebuild \/ EndRebuild \/ Restart \/ UNCHANGED vars
  BY Zenon, <1>4 DEF BeginRebuild, EndRebuild, Restart, vars
<1> QED BY Zenon, <1>1, <1>2, <1>3, <1>4 DEF Next

\* Overlapping activations keep disjoint reservations.
LEMMA NextExclusiveSweep ==
    TypeOK /\ ExclusiveSweep /\ [Next]_vars => ExclusiveSweep'
<1> SUFFICES ASSUME TypeOK, ExclusiveSweep, [Next]_vars PROVE ExclusiveSweep'
  BY Zenon
<1>1. CASE UNCHANGED <<owned, selectorsInProgress>>
  BY Zenon, <1>1 DEF ExclusiveSweep
<1>2. ASSUME NEW t \in Activations, ReserveTargets(t) PROVE ExclusiveSweep'
  <2>1. /\ owned' = [owned EXCEPT ![t] = owned[t] \cup FreeTargets(t)]
        /\ selectorsInProgress' = selectorsInProgress \cup FreeTargets(t)
        /\ FreeTargets(t) \cap selectorsInProgress = {}
    BY Zenon, <1>2 DEF ReserveTargets, FreeTargets, StillWaiting, Joined
  <2>2. /\ owned \in [Activations -> SUBSET Selectors]
        /\ owned' \in [Activations -> SUBSET Selectors]
    BY Zenon, <2>1 DEF TypeOK, FreeTargets
  <2>3. ASSUME NEW u \in Activations PROVE owned[u] \cap FreeTargets(t) = {}
    <3>1. owned[u] \subseteq selectorsInProgress
      BY Zenon DEF ExclusiveSweep
    <3> QED BY Zenon, <2>1, <3>1
  <2>4. \A u, v \in Activations : u # v => owned'[u] \cap owned'[v] = {}
    BY Zenon, <2>1, <2>2, <2>3 DEF ExclusiveSweep
  <2>5. selectorsInProgress' = UNION {owned'[u] : u \in Activations}
    BY <2>1, <2>2 DEF ExclusiveSweep
  <2> QED BY Zenon, <2>4, <2>5 DEF ExclusiveSweep
<1>3. ASSUME NEW t \in Activations, Merge(t) PROVE ExclusiveSweep'
  <2>1. /\ owned' = [owned EXCEPT ![t] = {}]
        /\ selectorsInProgress' = selectorsInProgress \ owned[t]
        /\ owned \in [Activations -> SUBSET Selectors]
    BY Zenon, <1>3 DEF Merge, TypeOK
  <2>2. \A u, v \in Activations : u # v => owned'[u] \cap owned'[v] = {}
    BY Zenon, <2>1 DEF ExclusiveSweep
  <2>3. selectorsInProgress' = UNION {owned'[u] : u \in Activations}
    BY Zenon, <2>1 DEF ExclusiveSweep
  <2> QED BY Zenon, <2>2, <2>3 DEF ExclusiveSweep
<1>4. CASE Crash
  BY Zenon, <1>4 DEF Crash, Everyone, ExclusiveSweep
<1> QED BY Zenon, <1>1, <1>2, <1>3, <1>4, ReservationFrame

-------------------------------------------------------------------------------
(* The counters.                                                            *)

\* Labels of an activation whose sweep may touch the broker.
SweepLabels == {"lease", "prepare", "reserve", "bind", "record", "sweep"}

\* Normal writes start and end only in their own steps or a crash.
LEMMA WriteFrame ==
    ASSUME [Next]_vars
    PROVE  \/ UNCHANGED <<writing, normalWrites>>
           \/ \E w \in Writers : FinishNormalWrite(w)
                                 \/ \E s \in Selectors : AdmitNormalWrite(w, s)
           \/ Crash
<1> USE DEF coreVars, countVars, threadVars
<1>1. ASSUME NEW w \in Writers, RefuseNormalWrite(w)
      PROVE UNCHANGED <<writing, normalWrites>>
  BY Zenon, <1>1 DEF RefuseNormalWrite
<1>2. ASSUME NEW t \in Activations, ActivationStep(t)
      PROVE UNCHANGED <<writing, normalWrites>>
  <2>1. CASE \/ \E T \in TargetSets : Authorise(t, T)
             \/ \E r \in ReplaceScopes : Latch(t, r)
             \/ AwaitSelectors(t) \/ ReserveTargets(t)
    BY Zenon, <2>1 DEF Authorise, Latch, AwaitSelectors, ReserveTargets
  <2>2. CASE \/ Drained(t) \/ DrainTimeout(t) \/ AcquireLease(t)
             \/ LeaseTimeout(t) \/ PrepareTargets(t)
    BY Zenon, <2>2 DEF Drained, DrainTimeout, AcquireLease, LeaseTimeout, PrepareTargets
  <2>3. CASE FinishDispatch(t) \/ ReserveTimeout(t) \/ ReadEpisode(t)
    BY Zenon, <2>3 DEF FinishDispatch, ReserveTimeout, EndDispatch, ReadEpisode
  <2>4. CASE RecordTargets(t) \/ RecordConflict(t) \/ Sweep(t) \/ Merge(t)
    BY Zenon, <2>4 DEF RecordTargets, RecordConflict, Sweep, Merge
  <2> QED BY Zenon, <1>2, <2>1, <2>2, <2>3, <2>4 DEF ActivationStep, RunningStep
<1>3. CASE ResetStep
  BY Zenon, <1>3 DEF ResetStep, RequestReset, ResetIdle, ResetLease, AbandonReset,
              Reset, RefuseReset
<1>4. CASE BeginRebuild \/ EndRebuild \/ Restart \/ UNCHANGED vars
  BY Zenon, <1>4 DEF BeginRebuild, EndRebuild, Restart, vars
<1> QED BY Zenon, <1>1, <1>2, <1>3, <1>4 DEF Next, WriterStep

\* How one step moves the activation threads: not at all, one thread between
\* two dispatching labels, or through Authorise, Latch, Merge or a crash.
Moves(t) ==
    /\ Dispatching(t)
    /\ \E l \in Labels \ {Idle, "authorised"} :
          /\ pc' = [pc EXCEPT ![t] = l]
          /\ l \in SweepLabels => pc[t] \in SweepLabels \/ normalWrites = 0
    /\ UNCHANGED <<dispatches, active>>

LEMMA ThreadFrame ==
    ASSUME TypeOK, Counted, [Next]_vars
    PROVE  \/ UNCHANGED <<pc, dispatches>> /\ (active => active' \/ dispatches = 0)
           \/ \E t \in Activations : \/ Moves(t) \/ Merge(t)
                                     \/ \E T \in TargetSets : Authorise(t, T)
                                     \/ \E r \in ReplaceScopes : Latch(t, r)
           \/ Crash
<1> USE DEF coreVars, latchVars, countVars, threadVars, Goto, Labels,
            SweepLabels, Dispatching, Idle
<1>1. ASSUME NEW w \in Writers, WriterStep(w)
      PROVE UNCHANGED <<pc, dispatches>> /\ (active => active')
  BY <1>1 DEF WriterStep, AdmitNormalWrite, RefuseNormalWrite, FinishNormalWrite
<1>2. ASSUME NEW t \in Activations, RunningStep(t), ~Merge(t) PROVE Moves(t)
  <2>1. CASE Drained(t)
    BY Zenon, <2>1 DEF Drained, StartDispatch, FailUnscoped, Moves
  <2>2. CASE DrainTimeout(t) \/ LeaseTimeout(t)
    BY Zenon, <2>2 DEF DrainTimeout, LeaseTimeout, FailUnscoped, Moves
  <2>3. CASE AcquireLease(t) \/ ReserveTargets(t)
    BY Zenon, <2>3 DEF AcquireLease, ReserveTargets, Moves
  <2>4. CASE PrepareTargets(t)
    BY Zenon, <2>4 DEF PrepareTargets, StartDispatch, FailUnscoped, Moves
  <2>5. CASE FinishDispatch(t) \/ ReserveTimeout(t)
    BY Zenon, <2>5 DEF FinishDispatch, ReserveTimeout, EndDispatch, Moves
  <2>6. CASE ReadEpisode(t) \/ RecordTargets(t)
    BY Zenon, <2>6 DEF ReadEpisode, RecordTargets, Moves
  <2>7. CASE RecordConflict(t) \/ Sweep(t)
    BY Zenon, <2>7 DEF RecordConflict, Sweep, Moves
  <2> QED BY Zenon, <1>2, <2>1, <2>2, <2>3, <2>4, <2>5, <2>6, <2>7 DEF RunningStep
<1>3. ASSUME NEW t \in Activations, AwaitSelectors(t)
      PROVE UNCHANGED <<pc, dispatches, active>>
  BY Zenon, <1>3 DEF AwaitSelectors
<1>4. CASE ResetStep
  BY Zenon, <1>4 DEF ResetStep, RequestReset, ResetIdle, ResetLease, AbandonReset,
              Reset, RefuseReset, ResetAllowed
<1>5. CASE BeginRebuild \/ EndRebuild \/ UNCHANGED vars
  BY Zenon, <1>5 DEF BeginRebuild, EndRebuild, vars
<1>6. CASE Restart
  BY Zenon, <1>6 DEF Restart, Counted
<1> QED BY Zenon, <1>1, <1>2, <1>3, <1>4, <1>5, <1>6 DEF Next, ActivationStep

\* The latch is only ever set by a process that is up.
LEMMA NextLatchUp == TypeOK /\ Counted /\ [Next]_vars => (active => up)'
<1> SUFFICES ASSUME TypeOK, Counted, [Next]_vars PROVE (active => up)'
  BY Zenon
<1> USE DEF coreVars, latchVars, processVars, threadVars, Counted
<1>1. ASSUME NEW w \in Writers, WriterStep(w) PROVE (active => up)'
  BY Zenon, <1>1 DEF WriterStep, AdmitNormalWrite, RefuseNormalWrite, FinishNormalWrite
<1>2. ASSUME NEW t \in Activations, ActivationStep(t) PROVE (active => up)'
  <2>1. CASE \/ \E T \in TargetSets : Authorise(t, T)
             \/ \E r \in ReplaceScopes : Latch(t, r)
             \/ AwaitSelectors(t) \/ ReserveTargets(t)
    BY Zenon, <2>1 DEF Authorise, Latch, AwaitSelectors, ReserveTargets
  <2>2. CASE \/ Drained(t) \/ DrainTimeout(t) \/ AcquireLease(t)
             \/ LeaseTimeout(t) \/ PrepareTargets(t)
    BY Zenon, <2>2 DEF Drained, DrainTimeout, AcquireLease, LeaseTimeout, PrepareTargets
  <2>3. CASE FinishDispatch(t) \/ ReserveTimeout(t) \/ ReadEpisode(t)
    BY Zenon, <2>3 DEF FinishDispatch, ReserveTimeout, EndDispatch, ReadEpisode
  <2>4. CASE RecordTargets(t) \/ RecordConflict(t) \/ Sweep(t) \/ Merge(t)
    BY Zenon, <2>4 DEF RecordTargets, RecordConflict, Sweep, Merge
  <2> QED BY Zenon, <1>2, <2>1, <2>2, <2>3, <2>4 DEF ActivationStep, RunningStep
<1>3. CASE ResetStep
  BY Zenon, <1>3 DEF ResetStep, RequestReset, ResetIdle, ResetLease, AbandonReset,
              Reset, RefuseReset
<1>4. CASE BeginRebuild \/ EndRebuild \/ UNCHANGED vars
  BY Zenon, <1>4 DEF BeginRebuild, EndRebuild, vars
<1>5. CASE Crash \/ Restart
  BY Zenon, <1>5 DEF Crash, Restart
<1> QED BY Zenon, <1>1, <1>2, <1>3, <1>4, <1>5 DEF Next

\* One step keeps the counters equal to the number of threads they count.
LEMMA NextCounted == TypeOK /\ Counted /\ [Next]_vars => Counted'
<1> SUFFICES ASSUME TypeOK, Counted, [Next]_vars PROVE Counted'
  BY Zenon
<1> USE DEF Idle
<1>0. IsFiniteSet(InFlight) /\ IsFiniteSet(Running)
  BY Zenon, ThreadsAssumption, FS_Subset DEF InFlight, Running
<1>1. normalWrites' = Cardinality(InFlight')
  <2>1. CASE UNCHANGED <<writing, normalWrites>>
    BY Zenon, <2>1 DEF Counted, InFlight
  <2>2. ASSUME NEW w \in Writers, FinishNormalWrite(w)
        PROVE normalWrites' = Cardinality(InFlight')
    <3>1. InFlight' = InFlight \ {w} /\ w \in InFlight
      BY Zenon, <2>2 DEF FinishNormalWrite, InFlight, TypeOK
    <3> QED BY Zenon, <1>0, <2>2, <3>1, FS_RemoveElement DEF FinishNormalWrite, Counted
  <2>3. ASSUME NEW w \in Writers, NEW s \in Selectors, AdmitNormalWrite(w, s)
        PROVE normalWrites' = Cardinality(InFlight')
    <3>1. InFlight' = InFlight \cup {w} /\ w \notin InFlight
      BY <2>3, SelectorsAssumption DEF AdmitNormalWrite, InFlight, TypeOK, NoAccount
    <3> QED BY Zenon, <1>0, <2>3, <3>1, FS_AddElement DEF AdmitNormalWrite, Counted
  <2>4. CASE Crash
    <3>1. InFlight' = {} /\ normalWrites' = 0
      BY Zenon, <2>4 DEF Crash, InFlight
    <3> QED BY Zenon, <3>1, FS_EmptySet
  <2> QED BY Zenon, <2>1, <2>2, <2>3, <2>4, WriteFrame
<1>2. /\ dispatches' = Cardinality(Running')
      /\ \A t \in Activations : Dispatching(t)' => active'
  <2>1. CASE UNCHANGED <<pc, dispatches>> /\ (active => active' \/ dispatches = 0)
    <3>1. Running' = Running
      BY Zenon, <2>1 DEF Running, Dispatching
    <3>2. dispatches = 0 => \A t \in Activations : ~Dispatching(t)
      BY CountersPositive
    <3> QED BY Zenon, <2>1, <3>1, <3>2 DEF Counted, Dispatching
  <2>2. ASSUME NEW t \in Activations, Moves(t)
        PROVE /\ dispatches' = Cardinality(Running')
              /\ \A u \in Activations : Dispatching(u)' => active'
    <3>1. \A u \in Activations : Dispatching(u)' <=> Dispatching(u)
      BY Zenon, <2>2 DEF Moves, Dispatching, TypeOK
    <3>2. Running' = Running
      BY Zenon, <3>1 DEF Running
    <3> QED BY Zenon, <2>2, <3>1, <3>2 DEF Moves, Counted
  <2>3. ASSUME NEW t \in Activations, NEW T \in TargetSets, Authorise(t, T)
        PROVE /\ dispatches' = Cardinality(Running')
              /\ \A u \in Activations : Dispatching(u)' => active'
    <3>1. \A u \in Activations : Dispatching(u)' <=> Dispatching(u)
      BY Zenon, <2>3 DEF Authorise, Goto, Dispatching, TypeOK
    <3>2. Running' = Running
      BY Zenon, <3>1 DEF Running
    <3> QED BY Zenon, <2>3, <3>1, <3>2
            DEF Authorise, Counted, coreVars, countVars, latchVars
  <2>4. ASSUME NEW t \in Activations, NEW r \in ReplaceScopes, Latch(t, r)
        PROVE /\ dispatches' = Cardinality(Running')
              /\ \A u \in Activations : Dispatching(u)' => active'
    <3>1. Running' = Running \cup {t} /\ t \notin Running
      BY Zenon, <2>4 DEF Latch, Goto, Running, Dispatching, TypeOK
    <3> QED BY Zenon, <1>0, <2>4, <3>1, FS_AddElement DEF Latch, Counted
  <2>5. ASSUME NEW t \in Activations, Merge(t)
        PROVE /\ dispatches' = Cardinality(Running')
              /\ \A u \in Activations : Dispatching(u)' => active'
    <3>1. Running' = Running \ {t} /\ t \in Running
      BY Zenon, <2>5 DEF Merge, Goto, Running, Dispatching, TypeOK
    <3>2. dispatches' = Cardinality(Running')
      BY Zenon, <1>0, <2>5, <3>1, FS_RemoveElement DEF Merge, Counted
    <3>3. \A u \in Activations : Dispatching(u)' => Dispatching(u)
      BY Zenon, <3>1 DEF Running
    <3> QED BY Zenon, <2>5, <3>2, <3>3 DEF Merge, Counted, latchVars
  <2>6. CASE Crash
    <3>1. Running' = {} /\ dispatches' = 0
      BY Zenon, <2>6 DEF Crash, Running, Dispatching, Everyone
    <3> QED BY Zenon, <3>1, FS_EmptySet DEF Running
  <2> QED BY Zenon, <2>1, <2>2, <2>3, <2>4, <2>5, <2>6, ThreadFrame
<1> QED BY Zenon, <1>1, <1>2, NextLatchUp DEF Counted

-------------------------------------------------------------------------------
(* The safety properties.                                                   *)

\* One step never lets a normal write and a sweep overlap: an activation starts
\* sweeping only when none is counted, and none is admitted while one runs.
LEMMA NextNoNormalWriteDuringSweep ==
    TypeOK /\ Counted /\ NoNormalWriteDuringSweep /\ [Next]_vars
        => NoNormalWriteDuringSweep'
<1> SUFFICES ASSUME TypeOK, Counted, NoNormalWriteDuringSweep, [Next]_vars,
                    NEW u \in Activations, pc'[u] \in SweepLabels,
                    NEW v \in Writers
             PROVE  writing'[v] = NoAccount
  BY Zenon DEF NoNormalWriteDuringSweep, SweepLabels
<1> USE DEF Idle
<1>1. CASE Crash
  BY Zenon, <1>1 DEF Crash
<1>2. CASE ~Crash
  <2>1. Dispatching(u) /\ (pc[u] \in SweepLabels \/ normalWrites = 0)
    <3>1. CASE UNCHANGED pc
      BY Zenon, <3>1 DEF SweepLabels, Dispatching
    <3>2. ASSUME NEW t \in Activations, Moves(t)
          PROVE Dispatching(u) /\ (pc[u] \in SweepLabels \/ normalWrites = 0)
      BY Zenon, <3>2 DEF Moves, SweepLabels, Dispatching, TypeOK
    <3>3. ASSUME NEW t \in Activations, NEW T \in TargetSets, Authorise(t, T)
          PROVE Dispatching(u) /\ pc[u] \in SweepLabels
      BY Zenon, <3>3 DEF Authorise, Goto, SweepLabels, Dispatching, TypeOK
    <3>4. ASSUME NEW t \in Activations, NEW r \in ReplaceScopes, Latch(t, r)
          PROVE Dispatching(u) /\ pc[u] \in SweepLabels
      BY Zenon, <3>4 DEF Latch, Goto, SweepLabels, Dispatching, TypeOK
    <3>5. ASSUME NEW t \in Activations, Merge(t)
          PROVE Dispatching(u) /\ pc[u] \in SweepLabels
      BY Zenon, <3>5 DEF Merge, Goto, SweepLabels, Dispatching, TypeOK
    <3> QED BY Zenon, <1>2, <3>1, <3>2, <3>3, <3>4, <3>5, ThreadFrame
  <2>2. writing[v] = NoAccount
    <3>1. CASE pc[u] \in SweepLabels
      BY Zenon, <3>1 DEF NoNormalWriteDuringSweep, SweepLabels
    <3>2. CASE normalWrites = 0
      BY <3>2, CountersPositive
    <3> QED BY Zenon, <2>1, <3>1, <3>2
  <2>3. CASE UNCHANGED writing
    BY Zenon, <2>2, <2>3
  <2>4. ASSUME NEW w \in Writers, FinishNormalWrite(w)
        PROVE writing'[v] = NoAccount
    BY Zenon, <2>2, <2>4 DEF FinishNormalWrite, TypeOK
  <2>5. ASSUME NEW w \in Writers, NEW s \in Selectors, AdmitNormalWrite(w, s)
        PROVE FALSE
    BY Zenon, <2>1, <2>5 DEF AdmitNormalWrite, Blocked, Counted
  <2> QED BY Zenon, <1>2, <2>3, <2>4, <2>5, WriteFrame
<1> QED BY Zenon, <1>1, <1>2

\* Steps that may write the durable episode or the latch.
LEMMA NextDurableEpisodeLatches ==
    TypeOK /\ Counted /\ DurableEpisodeLatches /\ [Next]_vars
        => DurableEpisodeLatches'
<1> SUFFICES ASSUME TypeOK, Counted, DurableEpisodeLatches, [Next]_vars
             PROVE  DurableEpisodeLatches'
  BY Zenon
<1> USE DEF DurableEpisodeLatches, coreVars, latchVars, durableVars,
            processVars, threadVars
<1>1. ASSUME NEW w \in Writers, WriterStep(w) PROVE DurableEpisodeLatches'
  BY Zenon, <1>1 DEF WriterStep, AdmitNormalWrite, RefuseNormalWrite, FinishNormalWrite
<1>2. ASSUME NEW t \in Activations, ActivationStep(t)
      PROVE DurableEpisodeLatches'
  <2>1. CASE \/ \E T \in TargetSets : Authorise(t, T)
             \/ \E r \in ReplaceScopes : Latch(t, r)
             \/ AwaitSelectors(t) \/ ReserveTargets(t)
    BY Zenon, <2>1 DEF Authorise, Latch, AwaitSelectors, ReserveTargets
  <2>2. CASE \/ Drained(t) \/ DrainTimeout(t) \/ AcquireLease(t)
             \/ LeaseTimeout(t) \/ PrepareTargets(t)
    BY Zenon, <2>2 DEF Drained, DrainTimeout, AcquireLease, LeaseTimeout, PrepareTargets
  <2>3. CASE FinishDispatch(t) \/ ReserveTimeout(t)
    BY Zenon, <2>3 DEF FinishDispatch, ReserveTimeout, EndDispatch
  <2>4. CASE ReadEpisode(t)
    BY Zenon, <2>4 DEF ReadEpisode, Counted, Dispatching, Idle
  <2>5. CASE RecordTargets(t) \/ RecordConflict(t) \/ Sweep(t) \/ Merge(t)
    BY Zenon, <2>5 DEF RecordTargets, RecordConflict, Sweep, Merge
  <2> QED BY Zenon, <1>2, <2>1, <2>2, <2>3, <2>4, <2>5 DEF ActivationStep, RunningStep
<1>3. CASE ResetStep
  BY Zenon, <1>3 DEF ResetStep, RequestReset, ResetIdle, ResetLease, AbandonReset,
              Reset, RefuseReset
<1>4. CASE BeginRebuild \/ EndRebuild \/ UNCHANGED vars
  BY Zenon, <1>4 DEF BeginRebuild, EndRebuild, vars
<1>5. CASE Crash
  BY Zenon, <1>5 DEF Crash
<1>6. CASE Restart
  BY Zenon, <1>6 DEF Restart, RestoredLatch
<1> QED BY Zenon, <1>1, <1>2, <1>3, <1>4, <1>5, <1>6 DEF Next

LEMMA InitCoordinationInv == Init => CoordinationInv
<1> SUFFICES ASSUME Init PROVE CoordinationInv
  BY Zenon
<1>1. InFlight = {} /\ Running = {}
  BY Zenon DEF Init, InFlight, Running, Dispatching, Everyone, Idle
<1>2. Counted
  BY Zenon, <1>1, FS_EmptySet DEF Init, Counted, Running
<1>3. NoNormalWriteDuringSweep /\ DurableEpisodeLatches
  BY Zenon DEF Init, NoNormalWriteDuringSweep, DurableEpisodeLatches
<1>4. ExclusiveSweep
  BY Zenon DEF Init, ExclusiveSweep, Everyone
<1> QED BY Zenon, <1>2, <1>3, <1>4, InitTypeOK DEF CoordinationInv

\* The inductive invariant behind the kill switch's coordination.
THEOREM Coordination == Spec => []CoordinationInv
<1>1. CoordinationInv /\ [Next]_vars => CoordinationInv'
  BY Zenon, NextTypeOK, NextCounted, NextNoNormalWriteDuringSweep, NextExclusiveSweep,
     NextDurableEpisodeLatches DEF CoordinationInv
<1> QED BY <1>1, InitCoordinationInv, PTL DEF Spec

\* Every variable keeps its type; the in-flight counters never underflow.
THEOREM TypeCorrect == Spec => []TypeOK
<1>1. CoordinationInv => TypeOK
  BY Zenon DEF CoordinationInv
<1> QED BY <1>1, Coordination, PTL

\* No normal broker write is in flight while an activation sweeps.
THEOREM SweepsRunAlone == Spec => []NoNormalWriteDuringSweep
<1>1. CoordinationInv => NoNormalWriteDuringSweep
  BY Zenon DEF CoordinationInv
<1> QED BY <1>1, Coordination, PTL

\* No account is swept by two activations at once.
THEOREM SweepsAreExclusive == Spec => []ExclusiveSweep
<1>1. CoordinationInv => ExclusiveSweep
  BY Zenon DEF CoordinationInv
<1> QED BY <1>1, Coordination, PTL

\* A bound process is latched whenever a durable episode exists.
THEOREM EpisodesLatch == Spec => []DurableEpisodeLatches
<1>1. CoordinationInv => DurableEpisodeLatches
  BY Zenon DEF CoordinationInv
<1> QED BY <1>1, Coordination, PTL

-----------------------------------------------------------------------------
(* The rounds of one activation.                                            *)

\* Labels between the target snapshot and the end of the reservation loop.
RoundLabels == {"reserve", "bind", "record", "sweep"}

\* An activation has accounts pending, owned or proved flat only while it runs
\* its rounds (or, for the last two, is about to merge), always with the snapshot
\* it started from and the number it was given.
RoundOf(t) ==
    /\ pending[t] # {} => pc[t] \in RoundLabels
    /\ owned[t] # {} => pc[t] \in RoundLabels \cup {"merge"}
    /\ good[t] # {} => pc[t] \in RoundLabels \cup {"merge"}
    /\ pc[t] \in RoundLabels \/ owned[t] # {} => targets[t] # {}
    /\ prepared[t] => pc[t] # Idle
    /\ prepared[t] /\ pc[t] \in {"authorised", "drain", "veto"} => targets[t] # {}
    /\ pc[t] \notin {Idle, "authorised"} => seqno[t] > 0

RoundInv == \A t \in Activations : RoundOf(t)

\* One step of any thread keeps the rounds of every activation.
LEMMA NextRoundInv == TypeOK /\ RoundInv /\ [Next]_vars => RoundInv'
<1> SUFFICES ASSUME TypeOK, RoundInv, [Next]_vars, NEW u \in Activations
             PROVE  RoundOf(u)'
  BY Zenon DEF RoundInv
<1> /\ RoundOf(u) /\ sequence \in Nat
    /\ pc \in [Activations -> Labels] /\ seqno \in [Activations -> Nat]
    /\ prepared \in [Activations -> BOOLEAN]
    /\ targets \in [Activations -> SUBSET Selectors]
    /\ pending \in [Activations -> SUBSET Selectors]
    /\ owned \in [Activations -> SUBSET Selectors]
    /\ good \in [Activations -> SUBSET Selectors]
  BY Zenon DEF RoundInv, TypeOK
<1> USE DEF coreVars, callVars, roundVars, threadVars, Goto, Idle, RoundLabels
<1>1. ASSUME UNCHANGED <<pc, seqno, prepared, targets, pending, owned, good>>
      PROVE  RoundOf(u)'
  BY Zenon, <1>1 DEF RoundOf
<1>2. ASSUME NEW t \in Activations, NEW T \in TargetSets, Authorise(t, T)
      PROVE RoundOf(u)'
  BY Zenon, <1>2, TargetsAssumption DEF Authorise, RoundOf
<1>3. ASSUME NEW t \in Activations, NEW r \in ReplaceScopes, Latch(t, r)
      PROVE RoundOf(u)'
  <2>1. PICK l \in {"drain", "veto"} : pc' = [pc EXCEPT ![t] = l]
    BY Zenon, <1>3 DEF Latch
  <2>2. /\ UNCHANGED <<pending, owned, good, targets, prepared>>
        /\ seqno' = [seqno EXCEPT ![t] = sequence + 1]
        /\ pc[t] \in {Idle, "authorised"}
    BY Zenon, <1>3 DEF Latch
  <2> QED BY <2>1, <2>2 DEF RoundOf
<1>4. ASSUME NEW t \in Activations, Drained(t) \/ DrainTimeout(t) PROVE RoundOf(u)'
  BY ZenonT(30), <1>4 DEF Drained, DrainTimeout, StartDispatch, FailUnscoped, RoundOf
<1>5. ASSUME NEW t \in Activations, AcquireLease(t) \/ LeaseTimeout(t)
      PROVE RoundOf(u)'
  BY Zenon, <1>5 DEF AcquireLease, LeaseTimeout, FailUnscoped, RoundOf
<1>6. ASSUME NEW t \in Activations, PrepareTargets(t) PROVE RoundOf(u)'
  BY <1>6, TargetsAssumption DEF PrepareTargets, StartDispatch, FailUnscoped, RoundOf
<1>7. ASSUME NEW t \in Activations, ReserveTargets(t) \/ AwaitSelectors(t)
      PROVE RoundOf(u)'
  BY Zenon, <1>7 DEF ReserveTargets, AwaitSelectors, RoundOf
<1>8. ASSUME NEW t \in Activations, FinishDispatch(t) \/ ReserveTimeout(t)
      PROVE RoundOf(u)'
  BY Zenon, <1>8 DEF FinishDispatch, ReserveTimeout, EndDispatch, RoundOf
<1>9. ASSUME NEW t \in Activations,
             ReadEpisode(t) \/ RecordTargets(t) \/ RecordConflict(t)
      PROVE RoundOf(u)'
  BY Zenon, <1>9 DEF ReadEpisode, RecordTargets, RecordConflict, RoundOf
<1>10. ASSUME NEW t \in Activations, Sweep(t) PROVE RoundOf(u)'
  BY Zenon, <1>10 DEF Sweep, RoundOf
<1>11. ASSUME NEW t \in Activations, Merge(t) PROVE RoundOf(u)'
  BY Zenon, <1>11 DEF Merge, RoundOf
<1>12. ASSUME NEW w \in Writers, WriterStep(w) PROVE RoundOf(u)'
  BY Zenon, <1>1, <1>12 DEF WriterStep, AdmitNormalWrite, RefuseNormalWrite, FinishNormalWrite
<1>13. CASE ResetStep
  BY Zenon, <1>1, <1>13 DEF ResetStep, RequestReset, ResetIdle, ResetLease, AbandonReset,
                     Reset, RefuseReset
<1>14. CASE BeginRebuild \/ EndRebuild \/ Restart \/ UNCHANGED vars
  BY Zenon, <1>1, <1>14 DEF BeginRebuild, EndRebuild, Restart, vars
<1>15. CASE Crash
  BY Zenon, <1>15 DEF Crash, Everyone, RoundOf
<1> QED BY Zenon, <1>2, <1>3, <1>4, <1>5, <1>6, <1>7, <1>8, <1>9, <1>10, <1>11, <1>12,
           <1>13, <1>14, <1>15 DEF Next, ActivationStep, RunningStep

LEMMA InitRoundInv == Init => RoundInv
BY DEF Init, RoundInv, RoundOf, RoundLabels, Everyone, Idle

\* What an activation does between its latch and its merge, over all threads.
THEOREM Rounds == Spec => []RoundInv
<1> QED BY InitRoundInv, NextRoundInv, TypeCorrect, PTL DEF Spec

-------------------------------------------------------------------------------
(* The kill switch implements the emergency latch.                          *)

\* The latch is lifted only by a reset or with the process, and only a start
\* binds the journal.
LEMMA OpenFrame ==
    ASSUME [Next]_vars
    PROVE  \/ UNCHANGED <<up, bound>> /\ (active => active')
           \/ Reset \/ Restart \/ Crash
<1> USE DEF coreVars, latchVars, processVars, threadVars
<1>1. ASSUME NEW w \in Writers, WriterStep(w)
      PROVE  UNCHANGED <<up, bound>> /\ (active => active')
  BY SMTT(30), <1>1 DEF WriterStep, AdmitNormalWrite, RefuseNormalWrite, FinishNormalWrite
<1>2. ASSUME NEW t \in Activations, ActivationStep(t)
      PROVE  UNCHANGED <<up, bound>> /\ (active => active')
  <2>1. CASE \/ \E T \in TargetSets : Authorise(t, T)
             \/ \E r \in ReplaceScopes : Latch(t, r)
             \/ AwaitSelectors(t) \/ ReserveTargets(t)
    BY SMTT(30), <2>1 DEF Authorise, Latch, AwaitSelectors, ReserveTargets
  <2>2. CASE \/ Drained(t) \/ DrainTimeout(t) \/ AcquireLease(t)
             \/ LeaseTimeout(t) \/ PrepareTargets(t)
    BY SMTT(30), <2>2 DEF Drained, DrainTimeout, AcquireLease, LeaseTimeout, PrepareTargets
  <2>3. CASE FinishDispatch(t) \/ ReserveTimeout(t)
    BY SMTT(30), <2>3 DEF FinishDispatch, ReserveTimeout, EndDispatch
  <2>4. CASE ReadEpisode(t) \/ RecordTargets(t) \/ Sweep(t)
    <3>1. UNCHANGED <<active, up, bound>>
      BY Zenon, <2>4 DEF ReadEpisode, RecordTargets, Sweep
    <3> QED BY Zenon, <3>1
  <2>5. CASE RecordConflict(t) \/ Merge(t)
    BY SMTT(30), <2>5 DEF RecordConflict, Merge
  <2> QED BY Zenon, <1>2, <2>1, <2>2, <2>3, <2>4, <2>5 DEF ActivationStep, RunningStep
<1>3. ASSUME ResetStep, ~Reset PROVE UNCHANGED <<up, bound>> /\ (active => active')
  BY SMTT(30), <1>3 DEF ResetStep, RequestReset, ResetIdle, ResetLease, AbandonReset, RefuseReset
<1>4. CASE BeginRebuild \/ EndRebuild \/ UNCHANGED vars
  BY Zenon, <1>4 DEF BeginRebuild, EndRebuild, vars
<1> QED BY Zenon, <1>1, <1>2, <1>3, <1>4 DEF Next

\* Nothing is being swept when no dispatch runs, nor in a process that is down.
LEMMA QuietMeansUnreserved ==
    ASSUME CoordinationInv, RoundInv
    PROVE  dispatches = 0 \/ ~active => selectorsInProgress = {}
<1>1. ASSUME NEW t \in Activations, owned[t] # {} PROVE dispatches # 0 /\ active
  <2>1. Dispatching(t)
    BY Zenon, <1>1 DEF RoundInv, RoundOf, RoundLabels, Dispatching, Idle
  <2> QED BY <2>1, CountersPositive DEF CoordinationInv, Counted, TypeOK
<1> QED BY <1>1 DEF CoordinationInv, ExclusiveSweep

\* The state of the emergency latch.
OpenLatch == up /\ bound /\ ~active
WritingAccounts == {writing[w] : w \in Writers} \ {NoAccount}

\* Every step of the kill switch is a step of the emergency latch over all
\* accounts, or invisible to it.
LEMMA LatchSimulation ==
    CoordinationInv /\ RoundInv /\ [Next]_vars => [Latched!Next]_(Latched!latch)
<1> SUFFICES ASSUME CoordinationInv, RoundInv, [Next]_vars
             PROVE  [Latched!Next]_(Latched!latch)
  BY Zenon
<1> TypeOK /\ Counted /\ ExclusiveSweep /\ NoNormalWriteDuringSweep
  BY Zenon DEF CoordinationInv
<1> USE DEF OpenLatch, WritingAccounts
<1>1. ASSUME UNCHANGED <<selectorsInProgress, writing>>,
             OpenLatch' => OpenLatch \/ selectorsInProgress = {}
      PROVE  [Latched!Next]_(Latched!latch)
  <2>1. WritingAccounts' = WritingAccounts
    BY Zenon, <1>1
  <2>2. CASE OpenLatch' = OpenLatch
    BY Zenon, <1>1, <2>1, <2>2 DEF Latched!latch
  <2>3. CASE OpenLatch' = FALSE
    BY Zenon, <1>1, <2>1, <2>3 DEF Latched!Next, Latched!Close
  <2>4. CASE OpenLatch' = TRUE /\ selectorsInProgress = {}
    BY Zenon, <1>1, <2>1, <2>4 DEF Latched!Next, Latched!Open
  <2> QED BY Zenon, <1>1, <2>2, <2>3, <2>4
<1>2. ASSUME NEW w \in Writers, NEW s \in Selectors, AdmitNormalWrite(w, s)
      PROVE  [Latched!Next]_(Latched!latch)
  <2>1. /\ OpenLatch /\ OpenLatch' = TRUE
        /\ selectorsInProgress' = selectorsInProgress
    BY Zenon, <1>2 DEF AdmitNormalWrite, Blocked, processVars, latchVars
  <2>2. writing[w] = NoAccount /\ writing' = [writing EXCEPT ![w] = s]
    BY Zenon, <1>2 DEF AdmitNormalWrite
  <2>3. s # NoAccount
    BY Zenon, SelectorsAssumption DEF NoAccount
  <2>4. WritingAccounts' = WritingAccounts \cup {s}
    BY Zenon, <2>2, <2>3 DEF TypeOK
  <2> QED BY Zenon, <2>1, <2>4 DEF Latched!Next, Latched!Admit
<1>3. ASSUME NEW w \in Writers, FinishNormalWrite(w)
      PROVE  [Latched!Next]_(Latched!latch)
  <2>1. UNCHANGED <<up, bound, active, selectorsInProgress>>
    BY Zenon, <1>3 DEF FinishNormalWrite, processVars, latchVars
  <2>2. writing[w] # NoAccount /\ writing' = [writing EXCEPT ![w] = NoAccount]
    BY Zenon, <1>3 DEF FinishNormalWrite
  <2>3. writing[w] \in Selectors
    BY Zenon, <2>2 DEF TypeOK, Scopes, NoAccount
  <2>4. \/ WritingAccounts' = WritingAccounts
        \/ WritingAccounts' = WritingAccounts \ {writing[w]}
    BY Zenon, <2>2 DEF TypeOK
  <2>5. OpenLatch' = OpenLatch
    BY Zenon, <2>1
  <2>6. CASE WritingAccounts' = WritingAccounts
    BY Zenon, <2>1, <2>5, <2>6 DEF Latched!latch
  <2>7. CASE WritingAccounts' = WritingAccounts \ {writing[w]}
    BY Zenon, <2>1, <2>3, <2>5, <2>7 DEF Latched!Next, Latched!Finish
  <2> QED BY Zenon, <2>4, <2>6, <2>7
<1>4. ASSUME NEW t \in Activations, ReserveTargets(t)
      PROVE  [Latched!Next]_(Latched!latch)
  <2>1. /\ UNCHANGED <<up, bound, active, writing>> /\ pc[t] = "reserve"
        /\ selectorsInProgress' = selectorsInProgress \cup FreeTargets(t)
        /\ FreeTargets(t) \cap selectorsInProgress = {}
        /\ FreeTargets(t) \in SUBSET Selectors
    BY Zenon, <1>4 DEF ReserveTargets, FreeTargets, StillWaiting, Joined, processVars,
                latchVars, TypeOK
  <2>2. ~OpenLatch
    BY Zenon, <2>1 DEF Counted, Dispatching, Idle
  <2>3. WritingAccounts = {}
    BY Zenon, <2>1 DEF NoNormalWriteDuringSweep
  <2>4. OpenLatch' = OpenLatch /\ WritingAccounts' = WritingAccounts
    BY Zenon, <2>1
  <2> QED BY Zenon, <2>1, <2>2, <2>3, <2>4 DEF Latched!Next, Latched!Sweep
<1>5. ASSUME NEW t \in Activations, Merge(t)
      PROVE  [Latched!Next]_(Latched!latch)
  <2>1. /\ UNCHANGED <<up, bound, active, writing>>
        /\ selectorsInProgress' = selectorsInProgress \ owned[t]
        /\ owned[t] \in SUBSET Selectors
    BY Zenon, <1>5 DEF Merge, processVars, latchVars, TypeOK
  <2>2. OpenLatch' = OpenLatch /\ WritingAccounts' = WritingAccounts
    BY Zenon, <2>1
  <2> QED BY Zenon, <2>1, <2>2 DEF Latched!Next, Latched!Swept
<1>6. CASE Crash
  <2>1. OpenLatch' = FALSE /\ selectorsInProgress' = {} /\ WritingAccounts' = {}
    BY Zenon, <1>6 DEF Crash
  <2> QED BY Zenon, <2>1 DEF Latched!Next, Latched!Crash
<1>7. ASSUME UNCHANGED <<selectorsInProgress, writing>>, ~Crash
      PROVE  [Latched!Next]_(Latched!latch)
  <2>1. CASE UNCHANGED <<up, bound>> /\ (active => active')
    BY Zenon, <1>1, <1>7, <2>1
  <2>2. CASE Reset
    BY Zenon, <1>1, <1>7, <2>2, QuietMeansUnreserved DEF Reset, ResetAllowed
  <2>3. CASE Restart
    BY Zenon, <1>1, <1>7, <2>3, QuietMeansUnreserved DEF Restart, Counted
  <2> QED BY Zenon, <1>7, <2>1, <2>2, <2>3, OpenFrame
<1> QED BY Zenon, <1>2, <1>3, <1>4, <1>5, <1>6, <1>7, WriteFrame, ReservationFrame

\* The kill switch implements the emergency latch over all accounts.
THEOREM LatchRefinement == Spec => ImplementsLatch
<1>1. Init => Latched!Init
  BY Zenon DEF Init, Latched!Init
<1> QED BY <1>1, LatchSimulation, Coordination, Rounds, PTL
        DEF Spec, ImplementsLatch, Latched!Spec

-------------------------------------------------------------------------------
(* A complete result means that every claimed account is flat.              *)

\* An exposed account that was set out to be flattened is still owed a sweep, is
\* being swept, or has a failed outcome.
Owed(s) ==
    \/ \E t \in Activations : s \in pending[t] \cup owned[t]
    \/ outcomes[s].seq > 0 /\ ~outcomes[s].ok

\* From the first claimed account to the reset the latch stays on and no normal
\* write is in flight.
ClaimsLatched == claimed # {} => active /\ normalWrites = 0

\* Only claimed accounts are swept and reported complete.
ClaimsFirst ==
    /\ \A t \in Activations : pc[t] \in RoundLabels \/ good[t] # {} => claimed # {}
    /\ \A s \in Selectors : SelectorComplete(s) => claimed # {}

\* No account that was proved flat becomes exposed again.
ProvedFlat ==
    /\ \A s \in Selectors : SelectorComplete(s) => s \notin exposed
    /\ \A t \in Activations : good[t] \cap exposed = {}

\* No claimed account is forgotten by overlapping activations.
ClaimsOwed == \A s \in claimed \cap exposed : Owed(s)

\* A stored complete result is the aggregate of the outcomes.
AggregateStored ==
    claimed # {} /\ LastEmergencyComplete => AggregateComplete(outcomes)

FlatInv ==
    /\ ClaimsLatched
    /\ ClaimsFirst
    /\ ProvedFlat
    /\ ClaimsOwed
    /\ AggregateStored

\* The steps that touch claims, exposure, rounds or outcomes.
LEMMA FlatFrame ==
    ASSUME [Next]_vars
    PROVE  \/ UNCHANGED <<claimed, exposed, pending, owned, good, outcomes, lastResult>>
           \/ \E w \in Writers : FinishNormalWrite(w)
           \/ \E t \in Activations :
                 \/ Drained(t) \/ PrepareTargets(t)
                 \/ ReserveTargets(t) \/ AwaitSelectors(t)
                 \/ FinishDispatch(t) \/ ReserveTimeout(t)
                 \/ Sweep(t) \/ Merge(t)
           \/ Reset \/ Crash
<1> DEFINE Quiet == UNCHANGED <<claimed, exposed, pending, owned, good, outcomes, lastResult>>
<1> USE DEF coreVars, resultVars, roundVars, threadVars, worldVars
<1>1. ASSUME NEW w \in Writers, WriterStep(w), ~FinishNormalWrite(w) PROVE Quiet
  BY Zenon, <1>1 DEF WriterStep, AdmitNormalWrite, RefuseNormalWrite
<1>2. ASSUME NEW t \in Activations, NEW T \in TargetSets, Authorise(t, T) PROVE Quiet
  BY Zenon, <1>2 DEF Authorise
<1>3. ASSUME NEW t \in Activations, NEW r \in ReplaceScopes, Latch(t, r) PROVE Quiet
  BY Zenon, <1>3 DEF Latch
<1>4. ASSUME NEW t \in Activations, DrainTimeout(t) \/ AcquireLease(t) \/ LeaseTimeout(t)
      PROVE Quiet
  BY Zenon, <1>4 DEF DrainTimeout, AcquireLease, LeaseTimeout, FailUnscoped
<1>5. ASSUME NEW t \in Activations, ReadEpisode(t) \/ RecordTargets(t) \/ RecordConflict(t)
      PROVE Quiet
  BY Zenon, <1>5 DEF ReadEpisode, RecordTargets, RecordConflict
<1>6. ASSUME ResetStep, ~Reset PROVE Quiet
  BY Zenon, <1>6 DEF ResetStep, RequestReset, ResetIdle, ResetLease, AbandonReset, RefuseReset
<1>7. CASE BeginRebuild \/ EndRebuild \/ Restart \/ UNCHANGED vars
  BY Zenon, <1>7 DEF BeginRebuild, EndRebuild, Restart, vars
<1> HIDE DEF Quiet
<1>8. Quiet => UNCHANGED <<claimed, exposed, pending, owned, good, outcomes, lastResult>>
  BY Zenon DEF Quiet
<1> QED BY Zenon, <1>1, <1>2, <1>3, <1>4, <1>5, <1>6, <1>7, <1>8
        DEF Next, WriterStep, ActivationStep, RunningStep

\* An activation enters its rounds only with a target snapshot, at a moment when
\* no normal write is in flight.
LEMMA RoundEntry ==
    ASSUME TypeOK, Counted, NoNormalWriteDuringSweep, RoundInv,
           NEW t \in Activations, Drained(t) \/ PrepareTargets(t)
    PROVE  /\ active /\ active' = active /\ normalWrites = 0 /\ normalWrites' = 0
           /\ Dispatching(t)
           /\ \/ \E T \in (SUBSET Selectors) \ {{}} : StartDispatch(t, T)
              \/ UNCHANGED <<claimed, pending>> /\ pc' = [pc EXCEPT ![t] = "lease"]
              \/ UNCHANGED <<claimed, pending>> /\ pc' = [pc EXCEPT ![t] = "merge"]
<1>1. Dispatching(t) /\ active
  BY Zenon DEF Drained, PrepareTargets, Dispatching, Idle, Counted
<1>2. UNCHANGED <<active, normalWrites>>
  BY Zenon DEF Drained, PrepareTargets, coreVars, latchVars, countVars
<1>3. normalWrites = 0
  <2>1. CASE Drained(t)
    BY Zenon, <2>1 DEF Drained
  <2>2. CASE PrepareTargets(t)
    <3>1. InFlight = {}
      BY Zenon, <2>2 DEF PrepareTargets, NoNormalWriteDuringSweep, InFlight
    <3> QED BY Zenon, <3>1, FS_EmptySet DEF Counted
  <2> QED BY Zenon, <2>1, <2>2
<1>4. \/ \E T \in (SUBSET Selectors) \ {{}} : StartDispatch(t, T)
      \/ UNCHANGED <<claimed, pending>> /\ pc' = [pc EXCEPT ![t] = "lease"]
      \/ UNCHANGED <<claimed, pending>> /\ pc' = [pc EXCEPT ![t] = "merge"]
  <2>1. CASE Drained(t)
    <3>1. targets[t] \in SUBSET Selectors /\ (pc[t] = "drain" /\ prepared[t] => targets[t] # {})
      BY Zenon DEF TypeOK, RoundInv, RoundOf
    <3> QED BY Zenon, <2>1, <3>1 DEF Drained, FailUnscoped, Goto
  <2>2. CASE PrepareTargets(t)
    BY Zenon, <2>2, TargetsAssumption DEF PrepareTargets, FailUnscoped, Goto
  <2> QED BY Zenon, <2>1, <2>2
<1> QED BY Zenon, <1>1, <1>2, <1>3, <1>4

\* One merge gives an owned account the activation's own outcome, unless a newer
\* activation has reported on it.
LEMMA MergeOutcome ==
    ASSUME TypeOK, RoundInv, NEW t \in Activations, Merge(t), NEW s \in Selectors
    PROVE  /\ outcomes'[s] = IF s \in owned[t] /\ seqno[t] >= outcomes[s].seq
                             THEN [seq |-> seqno[t], ok |-> s \in good[t]]
                             ELSE outcomes[s]
           /\ seqno[t] \in Nat /\ seqno[t] > 0
<1>1. s # Unscoped /\ s \in Scopes
  BY Zenon, SelectorsAssumption DEF Scopes
<1>2. seqno[t] \in Nat /\ seqno[t] > 0 /\ (owned[t] # {} => targets[t] # {})
  BY Zenon DEF Merge, RoundInv, RoundOf, TypeOK, Idle
<1>3. s \in Authoritative(t) <=> s \in owned[t]
  BY Zenon, <1>1, <1>2 DEF Authoritative
<1>4. outcomes' = MergedOutcomes(t)
  BY Zenon DEF Merge
<1> DEFINE base == IF replaces[t] /\ targets[t] # {} /\ outcomes[Unscoped].seq <= seqno[t]
                   THEN [outcomes EXCEPT ![Unscoped] = Absent] ELSE outcomes
<1>5. base[s] = outcomes[s]
  BY Zenon, <1>1 DEF TypeOK
<1>6. outcomes'[s] = IF s \in Authoritative(t) /\ seqno[t] >= base[s].seq
                     THEN [seq |-> seqno[t], ok |-> s \in good[t]] ELSE base[s]
  BY Zenon, <1>1, <1>4 DEF MergedOutcomes
<1> HIDE DEF base
<1> QED BY Zenon, <1>2, <1>3, <1>5, <1>6

\* Hence an account complete after a merge was complete before, or is one the
\* merged activation proved flat.
LEMMA MergeComplete ==
    ASSUME TypeOK, RoundInv, NEW t \in Activations, Merge(t),
           NEW s \in Selectors, SelectorComplete(s)'
    PROVE  SelectorComplete(s) \/ s \in good[t]
<1>1. CASE s \in owned[t] /\ seqno[t] >= outcomes[s].seq
  <2>1. outcomes'[s] = [seq |-> seqno[t], ok |-> s \in good[t]]
    BY Zenon, <1>1, MergeOutcome
  <2>2. outcomes'[s].ok = (s \in good[t])
    BY <2>1
  <2> QED BY Zenon, <2>2 DEF SelectorComplete
<1>2. CASE ~(s \in owned[t] /\ seqno[t] >= outcomes[s].seq)
  <2>1. outcomes'[s] = outcomes[s]
    BY Zenon, <1>2, MergeOutcome
  <2> QED BY Zenon, <2>1 DEF SelectorComplete
<1> QED BY Zenon, <1>1, <1>2

LEMMA NextClaimsLatched ==
    ASSUME CoordinationInv, RoundInv, ClaimsLatched, [Next]_vars
    PROVE  ClaimsLatched'
<1> TypeOK /\ Counted /\ NoNormalWriteDuringSweep
  BY Zenon DEF CoordinationInv
<1>1. ASSUME NEW t \in Activations, Drained(t) \/ PrepareTargets(t)
      PROVE  ClaimsLatched'
  BY Zenon, <1>1, RoundEntry DEF ClaimsLatched
<1>2. CASE claimed' = {}
  BY Zenon, <1>2 DEF ClaimsLatched
<1>3. CASE claimed' = claimed /\ claimed' # {}
  <2>1. active /\ normalWrites = 0
    BY Zenon, <1>3 DEF ClaimsLatched
  <2>2. ~Reset /\ ~Crash
    BY Zenon, <1>3 DEF Reset, Crash
  <2>3. active'
    BY Zenon, <2>1, <2>2, OpenFrame DEF Restart, Counted
  <2>4. normalWrites' = 0
    BY <2>1, <2>2, WriteFrame, CountersPositive DEF FinishNormalWrite, AdmitNormalWrite, Blocked
  <2> QED BY Zenon, <2>3, <2>4 DEF ClaimsLatched
<1>4. \/ claimed' = claimed \/ claimed' = {}
      \/ \E t \in Activations : Drained(t) \/ PrepareTargets(t)
  BY Zenon, FlatFrame DEF FinishNormalWrite, ReserveTargets, AwaitSelectors, FinishDispatch,
                   ReserveTimeout, EndDispatch, Sweep, Merge, Reset, Crash, worldVars
<1> QED BY Zenon, <1>1, <1>2, <1>3, <1>4

\* An activation is in its rounds because it was, or because it just took its
\* target snapshot.
LEMMA RoundMoves ==
    ASSUME TypeOK, [Next]_vars, NEW u \in Activations, pc'[u] \in RoundLabels
    PROVE  pc[u] \in RoundLabels \/ Drained(u) \/ PrepareTargets(u)
<1> pc \in [Activations -> Labels]
  BY Zenon DEF TypeOK
<1> USE DEF coreVars, threadVars, Goto, Idle, RoundLabels
<1>1. ASSUME NEW t \in Activations, NEW T \in TargetSets, Authorise(t, T)
      PROVE pc[u] \in RoundLabels
  BY Zenon, <1>1 DEF Authorise
<1>2. ASSUME NEW t \in Activations, NEW r \in ReplaceScopes, Latch(t, r)
      PROVE pc[u] \in RoundLabels
  BY Zenon, <1>2 DEF Latch
<1>3. ASSUME NEW t \in Activations, Drained(t) \/ PrepareTargets(t), t # u
      PROVE pc[u] \in RoundLabels
  BY Zenon, <1>3 DEF Drained, PrepareTargets, StartDispatch, FailUnscoped
<1>4. ASSUME NEW t \in Activations, DrainTimeout(t) \/ AcquireLease(t) \/ LeaseTimeout(t)
      PROVE pc[u] \in RoundLabels
  BY Zenon, <1>4 DEF DrainTimeout, AcquireLease, LeaseTimeout, FailUnscoped
<1>5. ASSUME NEW t \in Activations,
             ReserveTargets(t) \/ AwaitSelectors(t) \/ FinishDispatch(t) \/ ReserveTimeout(t)
      PROVE pc[u] \in RoundLabels
  BY Zenon, <1>5 DEF ReserveTargets, AwaitSelectors, FinishDispatch, ReserveTimeout, EndDispatch
<1>6. ASSUME NEW t \in Activations, ReadEpisode(t) \/ RecordTargets(t) \/ RecordConflict(t)
      PROVE pc[u] \in RoundLabels
  BY Zenon, <1>6 DEF ReadEpisode, RecordTargets, RecordConflict
<1>7. ASSUME NEW t \in Activations, Sweep(t) \/ Merge(t) PROVE pc[u] \in RoundLabels
  BY Zenon, <1>7 DEF Sweep, Merge
<1>8. ASSUME NEW w \in Writers, WriterStep(w) PROVE pc[u] \in RoundLabels
  BY Zenon, <1>8 DEF WriterStep, AdmitNormalWrite, RefuseNormalWrite, FinishNormalWrite
<1>9. CASE ResetStep
  BY Zenon, <1>9 DEF ResetStep, RequestReset, ResetIdle, ResetLease, AbandonReset, Reset,
              RefuseReset
<1>10. CASE BeginRebuild \/ EndRebuild \/ Restart \/ UNCHANGED vars
  BY Zenon, <1>10 DEF BeginRebuild, EndRebuild, Restart, vars
<1>11. ~Crash
  BY Zenon DEF Crash, Everyone
<1> QED BY Zenon, <1>1, <1>2, <1>3, <1>4, <1>5, <1>6, <1>7, <1>8, <1>9, <1>10, <1>11
        DEF Next, ActivationStep, RunningStep

\* When no dispatch runs, no activation has rounds, accounts or results.
LEMMA QuietActivations ==
    ASSUME CoordinationInv, RoundInv, dispatches = 0, NEW t \in Activations
    PROVE  pc[t] \notin RoundLabels /\ pending[t] = {} /\ owned[t] = {} /\ good[t] = {}
<1>1. ~Dispatching(t)
  <2>1. Dispatching(t) => dispatches > 0
    BY Zenon, CountersPositive DEF CoordinationInv
  <2> QED BY <2>1
<1> QED BY Zenon, <1>1 DEF RoundInv, RoundOf, RoundLabels, Dispatching, Idle

LEMMA NextClaimsFirst ==
    ASSUME CoordinationInv, RoundInv, ClaimsFirst, [Next]_vars
    PROVE  ClaimsFirst'
<1> TypeOK /\ Counted /\ NoNormalWriteDuringSweep
  BY Zenon DEF CoordinationInv
<1>1. CASE Crash
  BY Zenon, <1>1 DEF Crash, Everyone, ClaimsFirst, RoundLabels, SelectorComplete, Scopes, Absent,
              Idle
<1>2. CASE Reset
  <2>1. \A t \in Activations : pc[t] \notin RoundLabels /\ good[t] = {}
    BY Zenon, <1>2, QuietActivations DEF Reset, ResetAllowed
  <2>2. UNCHANGED <<pc, good>>
    BY Zenon, <1>2 DEF Reset, threadVars, roundVars
  <2>3. \A s \in Selectors : ~SelectorComplete(s)'
    BY Zenon, <1>2 DEF Reset, SelectorComplete, Scopes, Absent
  <2> QED BY Zenon, <2>1, <2>2, <2>3 DEF ClaimsFirst
<1>3. ASSUME NEW t \in Activations, Drained(t) \/ PrepareTargets(t)
      PROVE  ClaimsFirst'
  <2>1. UNCHANGED <<good, outcomes>>
    BY Zenon, <1>3 DEF Drained, PrepareTargets, coreVars, resultVars
  <2>2. ASSUME NEW T \in (SUBSET Selectors) \ {{}}, StartDispatch(t, T)
        PROVE  ClaimsFirst'
    BY Zenon, <2>1, <2>2 DEF StartDispatch, ClaimsFirst, SelectorComplete
  <2>3. CASE UNCHANGED claimed /\ pc' = [pc EXCEPT ![t] = "lease"]
    BY Zenon, <2>1, <2>3 DEF ClaimsFirst, SelectorComplete, RoundLabels, TypeOK
  <2>4. CASE UNCHANGED claimed /\ pc' = [pc EXCEPT ![t] = "merge"]
    BY Zenon, <2>1, <2>4 DEF ClaimsFirst, SelectorComplete, RoundLabels, TypeOK
  <2> QED BY Zenon, <1>3, <2>2, <2>3, <2>4, RoundEntry
<1>4. ASSUME UNCHANGED claimed,
             \A u \in Activations : good'[u] # {} => pc[u] \in RoundLabels \/ good[u] # {},
             \A s \in Selectors : SelectorComplete(s)' => claimed # {},
             \A u \in Activations : ~Drained(u) /\ ~PrepareTargets(u)
      PROVE  ClaimsFirst'
  BY Zenon, <1>4, RoundMoves DEF ClaimsFirst
<1>5. ASSUME NEW t \in Activations, Merge(t),
             \A u \in Activations : ~Drained(u) /\ ~PrepareTargets(u)
      PROVE  ClaimsFirst'
  <2>1. UNCHANGED claimed /\ good' = [good EXCEPT ![t] = {}]
    BY Zenon, <1>5 DEF Merge, worldVars
  <2>2. \A u \in Activations : good'[u] # {} => good[u] # {}
    BY Zenon, <2>1 DEF TypeOK
  <2>3. \A s \in Selectors : SelectorComplete(s)' => claimed # {}
    BY Zenon, <1>5, MergeComplete DEF ClaimsFirst
  <2> QED BY Zenon, <1>4, <1>5, <2>1, <2>2, <2>3
<1>6. ASSUME NEW t \in Activations, Sweep(t),
             \A u \in Activations : ~Drained(u) /\ ~PrepareTargets(u)
      PROVE  ClaimsFirst'
  <2>1. UNCHANGED <<claimed, outcomes>> /\ pc[t] \in RoundLabels
    BY Zenon, <1>6 DEF Sweep, resultVars, RoundLabels
  <2>2. \A u \in Activations : u # t => good'[u] = good[u]
    BY Zenon, <1>6 DEF Sweep, TypeOK
  <2>3. \A s \in Selectors : SelectorComplete(s)' => claimed # {}
    BY Zenon, <2>1 DEF ClaimsFirst, SelectorComplete
  <2> QED BY Zenon, <1>4, <1>6, <2>1, <2>2, <2>3
<1>7. ASSUME UNCHANGED <<claimed, good, outcomes>>,
             \A u \in Activations : ~Drained(u) /\ ~PrepareTargets(u)
      PROVE  ClaimsFirst'
  <2>1. \A s \in Selectors : SelectorComplete(s)' => claimed # {}
    BY Zenon, <1>7 DEF ClaimsFirst, SelectorComplete
  <2> QED BY Zenon, <1>4, <1>7, <2>1
<1>8. ASSUME NEW w \in Writers, FinishNormalWrite(w) PROVE UNCHANGED <<claimed, good, outcomes>>
  BY Zenon, <1>8 DEF FinishNormalWrite, roundVars, resultVars
<1>9. ASSUME NEW t \in Activations,
             ReserveTargets(t) \/ AwaitSelectors(t) \/ FinishDispatch(t) \/ ReserveTimeout(t)
      PROVE  UNCHANGED <<claimed, good, outcomes>>
  BY Zenon, <1>9 DEF ReserveTargets, AwaitSelectors, FinishDispatch, ReserveTimeout, EndDispatch,
              coreVars, resultVars, worldVars
<1> QED BY Zenon, <1>1, <1>2, <1>3, <1>5, <1>6, <1>7, <1>8, <1>9, FlatFrame

LEMMA NextProvedFlat ==
    ASSUME CoordinationInv, RoundInv, FlatInv, [Next]_vars
    PROVE  ProvedFlat'
<1> TypeOK /\ Counted /\ ClaimsLatched /\ ClaimsFirst /\ ProvedFlat
  BY Zenon DEF CoordinationInv, FlatInv
<1>1. CASE Crash
  BY Zenon, <1>1 DEF Crash, Everyone, ProvedFlat, SelectorComplete, Scopes, Absent
<1>2. CASE Reset
  BY Zenon, <1>2 DEF Reset, threadVars, roundVars, ProvedFlat, SelectorComplete, Scopes, Absent
<1>3. ASSUME UNCHANGED <<exposed, good, outcomes>> PROVE ProvedFlat'
  BY Zenon, <1>3 DEF ProvedFlat, SelectorComplete
<1>4. ASSUME NEW w \in Writers, FinishNormalWrite(w) PROVE ProvedFlat'
  <2>1. claimed = {}
    <3>1. writing[w] # NoAccount
      BY Zenon, <1>4 DEF FinishNormalWrite
    <3>2. normalWrites > 0
      BY Zenon, <3>1, CountersPositive
    <3>3. normalWrites # 0
      BY <3>2
    <3> QED BY Zenon, <3>3 DEF ClaimsLatched
  <2>2. UNCHANGED <<good, outcomes>>
    BY Zenon, <1>4 DEF FinishNormalWrite, roundVars, resultVars
  <2>3. /\ \A t \in Activations : good[t] = {}
        /\ \A s \in Selectors : ~SelectorComplete(s)
    BY Zenon, <2>1 DEF ClaimsFirst
  <2> QED BY Zenon, <2>2, <2>3 DEF ProvedFlat, SelectorComplete
<1>5. ASSUME NEW t \in Activations, Sweep(t) PROVE ProvedFlat'
  <2>1. PICK ok \in SUBSET batch[t] :
            /\ good' = [good EXCEPT ![t] = @ \cup ok]
            /\ \E flattened \in SUBSET (batch[t] \ ok) : exposed' = exposed \ (ok \cup flattened)
    BY Zenon, <1>5 DEF Sweep
  <2>2. exposed' \subseteq exposed /\ exposed' \cap ok = {}
    BY Zenon, <2>1
  <2>3. outcomes' = outcomes
    BY Zenon, <1>5 DEF Sweep, resultVars
  <2>4. \A u \in Activations : good'[u] \subseteq good[u] \cup ok
    BY Zenon, <2>1 DEF TypeOK
  <2>5. \A u \in Activations : good'[u] \cap exposed' = {}
    BY Zenon, <2>2, <2>4 DEF ProvedFlat
  <2> QED BY Zenon, <2>2, <2>3, <2>5 DEF ProvedFlat, SelectorComplete
<1>6. ASSUME NEW t \in Activations, Merge(t) PROVE ProvedFlat'
  <2>1. exposed' = exposed /\ good' = [good EXCEPT ![t] = {}]
    BY Zenon, <1>6 DEF Merge, worldVars
  <2>2. \A u \in Activations : good'[u] \subseteq good[u]
    BY Zenon, <2>1 DEF TypeOK
  <2>3. \A s \in Selectors : SelectorComplete(s)' => s \notin exposed
    BY Zenon, <1>6, MergeComplete DEF ProvedFlat
  <2> QED BY Zenon, <2>1, <2>2, <2>3 DEF ProvedFlat
<1>7. ASSUME NEW t \in Activations,
             ReserveTargets(t) \/ AwaitSelectors(t) \/ FinishDispatch(t) \/ ReserveTimeout(t)
      PROVE  UNCHANGED <<exposed, good, outcomes>>
  BY Zenon, <1>7 DEF ReserveTargets, AwaitSelectors, FinishDispatch, ReserveTimeout, EndDispatch,
              coreVars, resultVars, worldVars
<1>8. ASSUME NEW t \in Activations, Drained(t) \/ PrepareTargets(t)
      PROVE  UNCHANGED <<exposed, good, outcomes>>
  BY Zenon, <1>8 DEF Drained, PrepareTargets, coreVars, resultVars
<1> QED BY Zenon, <1>1, <1>2, <1>3, <1>4, <1>5, <1>6, <1>7, <1>8, FlatFrame

LEMMA NextClaimsOwed ==
    ASSUME CoordinationInv, RoundInv, FlatInv, [Next]_vars
    PROVE  ClaimsOwed'
<1> SUFFICES ASSUME NEW s \in claimed', s \in exposed' PROVE Owed(s)'
  BY Zenon DEF ClaimsOwed
<1> /\ TypeOK /\ Counted /\ ExclusiveSweep /\ NoNormalWriteDuringSweep
    /\ ClaimsLatched /\ ProvedFlat /\ ClaimsOwed
    /\ pending \in [Activations -> SUBSET Selectors]
    /\ owned \in [Activations -> SUBSET Selectors]
  BY Zenon DEF CoordinationInv, FlatInv, TypeOK
<1>1. ~Reset /\ ~Crash
  BY Zenon DEF Reset, Crash
<1>2. ASSUME s \in claimed, s \in exposed, UNCHANGED <<pending, owned, outcomes>>
      PROVE  Owed(s)'
  BY Zenon, <1>2 DEF ClaimsOwed, Owed
<1>3. ASSUME NEW w \in Writers, FinishNormalWrite(w) PROVE FALSE
  BY <1>3, CountersPositive DEF FinishNormalWrite, ClaimsLatched
<1>4. ASSUME NEW t \in Activations, Drained(t) \/ PrepareTargets(t) PROVE Owed(s)'
  <2>1. UNCHANGED <<exposed, owned, outcomes>> /\ pending[t] = {}
    BY Zenon, <1>4 DEF Drained, PrepareTargets, coreVars, resultVars, RoundInv, RoundOf, RoundLabels
  <2>2. ASSUME NEW T \in (SUBSET Selectors) \ {{}}, StartDispatch(t, T) PROVE Owed(s)'
    <3>1. pending' = [pending EXCEPT ![t] = T] /\ claimed' = claimed \cup T
      BY Zenon, <2>2 DEF StartDispatch
    <3>2. \A u \in Activations : pending[u] \subseteq pending'[u]
      BY Zenon, <2>1, <3>1
    <3>3. CASE s \in T
      BY Zenon, <3>1, <3>3 DEF Owed
    <3>4. CASE s \in claimed
      BY Zenon, <2>1, <3>2, <3>4 DEF ClaimsOwed, Owed
    <3> QED BY Zenon, <3>1, <3>3, <3>4
  <2>3. CASE UNCHANGED <<claimed, pending>>
    BY Zenon, <1>2, <2>1, <2>3
  <2> QED BY Zenon, <1>4, <2>2, <2>3, RoundEntry
<1>5. ASSUME NEW t \in Activations,
             UNCHANGED <<claimed, exposed, outcomes>>,
             \A u \in Activations : owned[u] \subseteq owned'[u],
             \A u \in Activations : u # t => pending'[u] = pending[u],
             s \in pending[t] => \/ s \in pending'[t] \/ SelectorComplete(s)
                                 \/ \E u \in Activations : s \in owned'[u]
      PROVE  Owed(s)'
  <2>1. s \in Selectors /\ ~SelectorComplete(s)
    BY Zenon, <1>5 DEF ProvedFlat, TypeOK
  <2>2. CASE outcomes[s].seq > 0 /\ ~outcomes[s].ok
    BY Zenon, <1>5, <2>2 DEF Owed
  <2>3. ASSUME NEW u \in Activations, s \in pending[u] \cup owned[u] PROVE Owed(s)'
    BY Zenon, <1>5, <2>1, <2>3 DEF Owed
  <2> QED BY Zenon, <1>5, <2>2, <2>3 DEF ClaimsOwed, Owed
<1>6. ASSUME NEW t \in Activations, ReserveTargets(t) PROVE Owed(s)'
  <2>1. UNCHANGED <<claimed, exposed, outcomes>>
    BY Zenon, <1>6 DEF ReserveTargets, resultVars, worldVars
  <2>2. /\ owned' = [owned EXCEPT ![t] = owned[t] \cup FreeTargets(t)]
        /\ pending' = [pending EXCEPT ![t] = StillWaiting(t)]
    BY Zenon, <1>6 DEF ReserveTargets
  <2>3. s \in pending[t] => \/ s \in StillWaiting(t) \/ s \in FreeTargets(t)
                            \/ SelectorComplete(s)
    BY Zenon DEF FreeTargets, Joined
  <2>4. FreeTargets(t) \subseteq owned'[t] /\ StillWaiting(t) = pending'[t]
    BY Zenon, <2>2
  <2>5. /\ \A u \in Activations : owned[u] \subseteq owned'[u]
        /\ \A u \in Activations : u # t => pending'[u] = pending[u]
    BY Zenon, <2>2
  <2> QED BY <1>5, <2>1, <2>3, <2>4, <2>5
<1>7. ASSUME NEW t \in Activations, AwaitSelectors(t) PROVE Owed(s)'
  <2>1. UNCHANGED <<claimed, exposed, outcomes, owned>>
    BY Zenon, <1>7 DEF AwaitSelectors, coreVars, resultVars, worldVars
  <2>2. pending' = [pending EXCEPT ![t] = StillWaiting(t)] /\ FreeTargets(t) = {}
    BY Zenon, <1>7 DEF AwaitSelectors
  <2>3. s \in pending[t] => s \in StillWaiting(t) \/ SelectorComplete(s)
    BY Zenon, <2>2 DEF FreeTargets, Joined
  <2>4. /\ StillWaiting(t) = pending'[t]
        /\ \A u \in Activations : u # t => pending'[u] = pending[u]
    BY Zenon, <2>2
  <2> QED BY Zenon, <1>5, <2>1, <2>3, <2>4
<1>8. ASSUME NEW t \in Activations, FinishDispatch(t) \/ ReserveTimeout(t) PROVE Owed(s)'
  <2>1. /\ UNCHANGED <<claimed, exposed, outcomes, owned>>
        /\ pending' = [pending EXCEPT ![t] = {}]
    BY Zenon, <1>8 DEF FinishDispatch, ReserveTimeout, EndDispatch, coreVars, resultVars, worldVars
  <2>2. s \in pending[t] => SelectorComplete(s) \/ s \in selectorsInProgress
    BY Zenon, <1>8 DEF FinishDispatch, ReserveTimeout, FreeTargets, StillWaiting, Joined
  <2>3. s \in selectorsInProgress => \E u \in Activations : s \in owned[u]
    BY Zenon DEF ExclusiveSweep
  <2>4. \A u \in Activations : u # t => pending'[u] = pending[u]
    BY Zenon, <2>1
  <2> QED BY Zenon, <1>5, <2>1, <2>2, <2>3, <2>4
<1>9. ASSUME NEW t \in Activations, Sweep(t) PROVE Owed(s)'
  <2>1. UNCHANGED <<claimed, pending, owned, outcomes>>
    BY Zenon, <1>9 DEF Sweep, resultVars
  <2>2. exposed' \subseteq exposed
    BY Zenon, <1>9 DEF Sweep
  <2> QED BY Zenon, <1>2, <2>1, <2>2
<1>10. ASSUME NEW t \in Activations, Merge(t) PROVE Owed(s)'
  <2>1. /\ UNCHANGED <<claimed, exposed, pending>>
        /\ owned' = [owned EXCEPT ![t] = {}]
    BY Zenon, <1>10 DEF Merge, worldVars
  <2>2. s \in Selectors /\ ~SelectorComplete(s)'
    BY Zenon, <2>1, NextProvedFlat DEF ProvedFlat, TypeOK
  <2>3. ASSUME s \in owned[t] \/ outcomes[s].seq > 0 PROVE Owed(s)'
    <3>1. outcomes[s].seq \in Nat
      BY Zenon, <2>2 DEF TypeOK, Scopes
    <3>2. outcomes'[s].seq > 0
      <4>1. CASE s \in owned[t] /\ seqno[t] >= outcomes[s].seq
        <5>1. outcomes'[s] = [seq |-> seqno[t], ok |-> s \in good[t]] /\ seqno[t] > 0
          BY Zenon, <1>10, <2>2, <4>1, MergeOutcome
        <5> QED BY <5>1
      <4>2. CASE ~(s \in owned[t] /\ seqno[t] >= outcomes[s].seq)
        <5>1. outcomes'[s] = outcomes[s] /\ seqno[t] \in Nat /\ seqno[t] > 0
          BY Zenon, <1>10, <2>2, <4>2, MergeOutcome
        <5> QED BY <2>3, <3>1, <4>2, <5>1
      <4> QED BY Zenon, <4>1, <4>2
    <3> QED BY Zenon, <2>2, <3>2 DEF Owed, SelectorComplete
  <2>4. ASSUME NEW u \in Activations, s \in pending[u] \/ (u # t /\ s \in owned[u])
        PROVE  Owed(s)'
    BY Zenon, <2>1, <2>4 DEF Owed
  <2> QED BY Zenon, <2>1, <2>3, <2>4 DEF ClaimsOwed, Owed
<1> QED BY Zenon, <1>1, <1>2, <1>3, <1>4, <1>6, <1>7, <1>8, <1>9, <1>10, FlatFrame

LEMMA NextAggregateStored ==
    ASSUME CoordinationInv, AggregateStored, [Next]_vars
    PROVE  AggregateStored'
<1> SUFFICES ASSUME claimed' # {}, LastEmergencyComplete' PROVE AggregateComplete(outcomes')
  BY Zenon DEF AggregateStored
<1> TypeOK /\ Counted
  BY Zenon DEF CoordinationInv
<1>1. ~Reset /\ ~Crash
  BY Zenon DEF Reset, Crash
<1>2. ASSUME NEW t \in Activations, Merge(t) PROVE AggregateComplete(outcomes')
  BY Zenon, <1>2 DEF Merge, LastEmergencyComplete
<1>3. ASSUME NEW t \in Activations, dispatches' = dispatches, Dispatching(t) PROVE FALSE
  BY <1>3, CountersPositive DEF LastEmergencyComplete
<1>4. ASSUME NEW t \in Activations, Drained(t) \/ PrepareTargets(t) PROVE FALSE
  BY Zenon, <1>3, <1>4 DEF Drained, PrepareTargets, coreVars, countVars, Dispatching, Idle
<1>5. ASSUME NEW t \in Activations, ReserveTargets(t) \/ AwaitSelectors(t) PROVE FALSE
  BY Zenon, <1>3, <1>5 DEF ReserveTargets, AwaitSelectors, coreVars, countVars, Dispatching, Idle
<1>6. ASSUME NEW t \in Activations, FinishDispatch(t) \/ ReserveTimeout(t) PROVE FALSE
  BY Zenon, <1>3, <1>6 DEF FinishDispatch, ReserveTimeout, EndDispatch, coreVars, countVars,
                    Dispatching, Idle
<1>7. ASSUME NEW t \in Activations, Sweep(t) PROVE FALSE
  BY Zenon, <1>3, <1>7 DEF Sweep, countVars, Dispatching, Idle
<1>8. ASSUME UNCHANGED <<claimed, outcomes, lastResult>> PROVE AggregateComplete(outcomes')
  <2>1. CASE dispatches = 0
    BY Zenon, <1>8, <2>1 DEF AggregateStored, LastEmergencyComplete
  <2>2. CASE dispatches # 0
    <3>1. dispatches' # dispatches
      BY Zenon, <2>2 DEF LastEmergencyComplete
    <3>2. ASSUME NEW t \in Activations, NEW r \in ReplaceScopes, Latch(t, r) PROVE FALSE
      <4>1. dispatches' = dispatches + 1
        BY Zenon, <3>2 DEF Latch
      <4>2. dispatches \in Nat
        BY Zenon DEF TypeOK
      <4> QED BY <4>1, <4>2 DEF LastEmergencyComplete
    <3>3. ASSUME NEW t \in Activations, NEW T \in TargetSets, Authorise(t, T)
          PROVE dispatches' = dispatches
      BY Zenon, <3>3 DEF Authorise, coreVars, countVars
    <3> QED BY Zenon, <1>1, <1>2, <3>1, <3>2, <3>3, ThreadFrame DEF Moves
  <2> QED BY Zenon, <2>1, <2>2
<1>9. ASSUME NEW w \in Writers, FinishNormalWrite(w)
      PROVE UNCHANGED <<claimed, outcomes, lastResult>>
  BY Zenon, <1>9 DEF FinishNormalWrite, resultVars
<1> QED BY Zenon, <1>1, <1>2, <1>4, <1>5, <1>6, <1>7, <1>8, <1>9, FlatFrame

LEMMA InitFlatInv == Init => FlatInv
<1> SUFFICES ASSUME Init PROVE FlatInv
  BY Zenon
<1>1. ClaimsFirst /\ ProvedFlat
  BY Zenon DEF Init, ClaimsFirst, ProvedFlat, SelectorComplete, Scopes, Absent, Everyone,
         RoundLabels, Idle
<1> QED BY Zenon, <1>1 DEF Init, FlatInv, ClaimsLatched, ClaimsOwed, AggregateStored

\* The inductive invariant behind the meaning of a complete result.
THEOREM Flatness == Spec => []FlatInv
<1>1. CoordinationInv /\ RoundInv /\ FlatInv /\ [Next]_vars => FlatInv'
  BY Zenon, NextClaimsLatched, NextClaimsFirst, NextProvedFlat, NextClaimsOwed,
     NextAggregateStored DEF FlatInv
<1> QED BY <1>1, InitFlatInv, Coordination, Rounds, PTL DEF Spec

\* Once every claimed account is accounted for, a complete aggregate leaves none.
LEMMA FlatWhenComplete ==
    ASSUME CoordinationInv, RoundInv, FlatInv, LastEmergencyComplete
    PROVE  claimed \cap exposed = {}
<1> SUFFICES ASSUME NEW s \in claimed \cap exposed PROVE FALSE
  BY Zenon
<1>1. s \in Scopes /\ Owed(s) /\ AggregateComplete(outcomes)
  BY Zenon DEF CoordinationInv, TypeOK, FlatInv, ClaimsOwed, AggregateStored, Scopes
<1>2. \A t \in Activations : pending[t] = {} /\ owned[t] = {}
  BY Zenon, QuietActivations DEF LastEmergencyComplete
<1>3. outcomes[s].seq > 0 /\ ~outcomes[s].ok
  BY Zenon, <1>1, <1>2 DEF Owed
<1> QED BY Zenon, <1>1, <1>3 DEF AggregateComplete, Recorded

\* A latched kill switch that reports a complete emergency has left none of the
\* accounts it set out to flatten exposed.
THEOREM CompleteResultsAreFlat == Spec => []CompleteMeansFlat
<1>1. CoordinationInv /\ RoundInv /\ FlatInv => CompleteMeansFlat
  BY Zenon, FlatWhenComplete DEF CompleteMeansFlat
<1> QED BY <1>1, Coordination, Rounds, Flatness, PTL

\* A reset without the operator's override lifts the latch only over accounts
\* that are flat.
THEOREM ResetsLeaveFlat == Spec => ResetLeavesFlat
<1>1. CoordinationInv /\ RoundInv /\ FlatInv /\ [Next]_vars
        => (up' /\ active /\ ~active' /\ ~roverride => claimed \cap exposed = {})
  <2> SUFFICES ASSUME CoordinationInv, RoundInv, FlatInv, [Next]_vars,
                      up', active, ~active', ~roverride
               PROVE  claimed \cap exposed = {}
    BY Zenon
  <2>1. ~Crash /\ ~Restart
    BY Zenon DEF Crash, Restart, CoordinationInv, Counted
  <2>2. Reset
    BY Zenon, <2>1, OpenFrame
  <2>3. LastEmergencyComplete
    BY Zenon, <2>2 DEF Reset, ResetAllowed, LastEmergencyComplete
  <2> QED BY Zenon, <2>3, FlatWhenComplete
<1> QED BY <1>1, Coordination, Rounds, Flatness, PTL DEF Spec, ResetLeavesFlat

-------------------------------------------------------------------------------
(* The generation lease.                                                    *)

\* The activations that run under the lease: from acquiring it to the end of the
\* rounds, or from authority to the merge.
HoldsLease(t) ==
    \/ pc[t] \in RoundLabels \cup {"prepare"}
    \/ prepared[t] /\ pc[t] # Idle

\* The lease has one holder.
LeaseHeld ==
    Leased => /\ \A t \in Activations : HoldsLease(t) => lease = t
              /\ rpc = "reset" => lease = "reset"

LeaseInv == LeaseHeld /\ BoundEpisodeStaysCurrent

LEMMA NextLeaseHeld ==
    ASSUME TypeOK, RoundInv, LeaseHeld, [Next]_vars
    PROVE  LeaseHeld'
<1> SUFFICES ASSUME Leased, NEW u
             PROVE  /\ u \in Activations /\ HoldsLease(u)' => lease' = u
                    /\ rpc' = "reset" => lease' = "reset"
  BY Zenon DEF LeaseHeld
<1> /\ pc \in [Activations -> Labels] /\ prepared \in [Activations -> BOOLEAN]
    /\ u \in Activations /\ HoldsLease(u) => lease = u
    /\ rpc = "reset" => lease = "reset"
    /\ u \in Activations => u \notin {"free", "reset", "rebuild"}
  BY Zenon, HoldersAssumption DEF LeaseHeld, TypeOK
<1> DEFINE P == /\ u \in Activations /\ HoldsLease(u)' => lease' = u
                /\ rpc' = "reset" => lease' = "reset"
<1> USE DEF coreVars, callVars, threadVars, resetVars, Goto, Idle, RoundLabels
<1>1. ASSUME UNCHANGED <<pc, prepared, lease, rpc>> PROVE P
  BY Zenon, <1>1 DEF HoldsLease
<1>2. ASSUME NEW t \in Activations, NEW T \in TargetSets, Authorise(t, T) PROVE P
  BY Zenon, <1>2 DEF Authorise, LeaseAvailable, HoldLease, HoldsLease
<1>3. ASSUME NEW t \in Activations, NEW r \in ReplaceScopes, Latch(t, r) PROVE P
  <2>1. PICK l \in {"drain", "veto"} : pc' = [pc EXCEPT ![t] = l]
    BY Zenon, <1>3 DEF Latch
  <2>2. UNCHANGED <<prepared, lease, rpc>>
    BY Zenon, <1>3 DEF Latch
  <2>3. prepared[t] => pc[t] # Idle
    BY Zenon DEF RoundInv, RoundOf
  <2> QED BY Zenon, <2>1, <2>2, <2>3 DEF HoldsLease
<1>4. ASSUME NEW t \in Activations, pc[t] # Idle, FailUnscoped(t), UNCHANGED <<prepared, rpc>>
      PROVE P
  BY Zenon, <1>4, HoldersAssumption DEF FailUnscoped, LeaseAfterDispatch, HoldsLease
<1>5. ASSUME NEW t \in Activations, Drained(t) PROVE P
  <2>1. UNCHANGED <<prepared, rpc>> /\ pc[t] # Idle
    BY Zenon, <1>5 DEF Drained
  <2>2. CASE FailUnscoped(t)
    BY Zenon, <1>4, <2>1, <2>2
  <2>3. CASE ~FailUnscoped(t)
    BY Zenon, <1>5, <2>1, <2>3 DEF Drained, StartDispatch, HoldsLease
  <2> QED BY Zenon, <2>2, <2>3
<1>6. ASSUME NEW t \in Activations, DrainTimeout(t) \/ LeaseTimeout(t) PROVE P
  BY Zenon, <1>4, <1>6 DEF DrainTimeout, LeaseTimeout
<1>7. ASSUME NEW t \in Activations, AcquireLease(t) PROVE P
  BY Zenon, <1>7 DEF AcquireLease, LeaseAvailable, HoldLease, HoldsLease
<1>8. ASSUME NEW t \in Activations, PrepareTargets(t) PROVE P
  <2>1. UNCHANGED <<prepared, rpc>> /\ pc[t] # Idle
    BY Zenon, <1>8 DEF PrepareTargets
  <2>2. CASE FailUnscoped(t)
    BY Zenon, <1>4, <2>1, <2>2
  <2>3. CASE ~FailUnscoped(t)
    BY Zenon, <1>8, <2>1, <2>3 DEF PrepareTargets, StartDispatch, HoldsLease
  <2> QED BY Zenon, <2>2, <2>3
<1>9. ASSUME NEW t \in Activations, ReserveTargets(t) \/ AwaitSelectors(t) PROVE P
  BY Zenon, <1>9 DEF ReserveTargets, AwaitSelectors, HoldsLease
<1>10. ASSUME NEW t \in Activations, FinishDispatch(t) \/ ReserveTimeout(t) PROVE P
  BY Zenon, <1>10, HoldersAssumption DEF FinishDispatch, ReserveTimeout, EndDispatch,
                                  LeaseAfterDispatch, HoldsLease
<1>11. ASSUME NEW t \in Activations,
              ReadEpisode(t) \/ RecordTargets(t) \/ RecordConflict(t) \/ Sweep(t)
       PROVE P
  BY Zenon, <1>11 DEF ReadEpisode, RecordTargets, RecordConflict, Sweep, HoldsLease
<1>12. ASSUME NEW t \in Activations, Merge(t) PROVE P
  BY Zenon, <1>12, HoldersAssumption DEF Merge, HoldsLease
<1>13. ASSUME NEW w \in Writers, WriterStep(w) PROVE P
  BY Zenon, <1>1, <1>13 DEF WriterStep, AdmitNormalWrite, RefuseNormalWrite, FinishNormalWrite
<1>14. ASSUME ResetStep PROVE P
  BY Zenon, <1>14 DEF ResetStep, RequestReset, ResetIdle, ResetLease, AbandonReset, Reset,
               RefuseReset, EndReset, LeaseAvailable, HoldLease, HoldsLease
<1>15. ASSUME BeginRebuild \/ EndRebuild PROVE P
  BY Zenon, <1>15 DEF BeginRebuild, EndRebuild, HoldsLease
<1>16. ASSUME Restart \/ UNCHANGED vars PROVE P
  BY Zenon, <1>1, <1>16 DEF Restart, vars
<1>17. ASSUME Crash PROVE P
  BY Zenon, <1>17 DEF Crash, Everyone, HoldsLease
<1> QED BY ZenonT(30), <1>2, <1>3, <1>5, <1>6, <1>7, <1>8, <1>9, <1>10, <1>11, <1>12, <1>13,
           <1>14, <1>15, <1>16, <1>17 DEF Next, ActivationStep, RunningStep

\* Nobody but the activation that read the episode can move it before the
\* activation has bound its accounts.
LEMMA NextBoundEpisodeStaysCurrent ==
    ASSUME TypeOK, LeaseInv, [Next]_vars
    PROVE  BoundEpisodeStaysCurrent'
<1> SUFFICES ASSUME Leased, NEW u \in Activations, pc'[u] = "record", ~degraded'
             PROVE  affected' = expected'[u]
  BY Zenon DEF BoundEpisodeStaysCurrent
<1> /\ pc \in [Activations -> Labels] /\ degraded \in BOOLEAN
    /\ expected \in [Activations -> SUBSET Selectors]
    /\ u \notin {"free", "reset", "rebuild"}
    /\ pc[u] = "record" /\ ~degraded => affected = expected[u]
    /\ \A t \in Activations : pc[t] \in RoundLabels => lease = t
    /\ rpc = "reset" => lease = "reset"
  BY Zenon, HoldersAssumption DEF TypeOK, LeaseInv, LeaseHeld, HoldsLease, BoundEpisodeStaysCurrent
<1> USE DEF coreVars, durableVars, processVars, roundVars, threadVars, Goto, Idle, RoundLabels
<1>1. ASSUME pc[u] = "record", UNCHANGED <<affected, expected>>, degraded => degraded'
      PROVE  affected' = expected'[u]
  BY Zenon, <1>1
<1>2. ASSUME NEW t \in Activations, NEW T \in TargetSets, Authorise(t, T)
      PROVE  affected' = expected'[u]
  BY Zenon, <1>1, <1>2 DEF Authorise
<1>3. ASSUME NEW t \in Activations, NEW r \in ReplaceScopes, Latch(t, r)
      PROVE  affected' = expected'[u]
  <2>1. pc[u] = "record" /\ UNCHANGED <<affected, expected>>
    BY Zenon, <1>3 DEF Latch
  <2>2. degraded => degraded'
    BY Zenon, <1>3 DEF Latch, EpisodeWrite
  <2> QED BY Zenon, <1>1, <2>1, <2>2
<1>4. ASSUME NEW t \in Activations,
             Drained(t) \/ DrainTimeout(t) \/ LeaseTimeout(t) \/ PrepareTargets(t)
      PROVE  affected' = expected'[u]
  BY Zenon, <1>1, <1>4 DEF Drained, DrainTimeout, LeaseTimeout, PrepareTargets, StartDispatch,
                    FailUnscoped
<1>5. ASSUME NEW t \in Activations, AcquireLease(t) \/ ReserveTargets(t) \/ AwaitSelectors(t)
      PROVE  affected' = expected'[u]
  BY Zenon, <1>1, <1>5 DEF AcquireLease, ReserveTargets, AwaitSelectors
<1>6. ASSUME NEW t \in Activations, FinishDispatch(t) \/ ReserveTimeout(t) \/ RecordConflict(t)
      PROVE  affected' = expected'[u]
  BY Zenon, <1>1, <1>6 DEF FinishDispatch, ReserveTimeout, EndDispatch, RecordConflict
<1>7. ASSUME NEW t \in Activations, ReadEpisode(t) PROVE affected' = expected'[u]
  <2>1. affected' = affected /\ expected'[t] = affected
    BY Zenon, <1>7 DEF ReadEpisode
  <2>2. u # t => pc[u] = "record" /\ pc[t] = "bind"
    BY Zenon, <1>7 DEF ReadEpisode
  <2>3. u = t
    BY Zenon, <2>2
  <2> QED BY Zenon, <2>1, <2>3
<1>8. ASSUME NEW t \in Activations, RecordTargets(t) \/ Sweep(t) PROVE FALSE
  <2>1. pc[t] \in {"record", "sweep"} /\ pc'[t] # "record" /\ (u # t => pc'[u] = pc[u])
    BY Zenon, <1>8 DEF RecordTargets, Sweep
  <2> QED BY Zenon, <2>1
<1>9. ASSUME NEW t \in Activations, Merge(t) PROVE affected' = expected'[u]
  BY Zenon, <1>9 DEF Merge
<1>10. ASSUME NEW w \in Writers, WriterStep(w) PROVE affected' = expected'[u]
  BY Zenon, <1>1, <1>10 DEF WriterStep, AdmitNormalWrite, RefuseNormalWrite, FinishNormalWrite
<1>11. ASSUME Reset \/ RefuseReset PROVE FALSE
  BY Zenon, <1>11 DEF Reset, RefuseReset
<1>12. ASSUME ResetStep, ~Reset, ~RefuseReset PROVE affected' = expected'[u]
  <2>1. UNCHANGED <<affected, expected, degraded, pc>>
    BY Zenon, <1>12 DEF ResetStep, RequestReset, ResetIdle, ResetLease, AbandonReset
  <2> QED BY Zenon, <1>1, <2>1
<1>13. ASSUME BeginRebuild \/ EndRebuild \/ Restart \/ UNCHANGED vars
       PROVE  affected' = expected'[u]
  BY Zenon, <1>1, <1>13 DEF BeginRebuild, EndRebuild, Restart, vars
<1>14. ~Crash
  BY Zenon DEF Crash, Everyone
<1> QED BY ZenonT(30), <1>2, <1>3, <1>4, <1>5, <1>6, <1>7, <1>8, <1>9, <1>10, <1>11, <1>12, <1>13,
           <1>14 DEF Next, ActivationStep, RunningStep

\* The inductive invariant behind the lease.
THEOREM LeaseIsExclusive == Spec => []LeaseInv
<1>1. Init => LeaseInv
  BY Zenon DEF Init, LeaseInv, LeaseHeld, HoldsLease, BoundEpisodeStaysCurrent, RoundLabels,
         Everyone, Idle
<1>2. TypeOK /\ RoundInv /\ LeaseInv /\ [Next]_vars => LeaseInv'
  BY Zenon, NextLeaseHeld, NextBoundEpisodeStaysCurrent DEF LeaseInv
<1> QED BY <1>1, <1>2, TypeCorrect, Rounds, PTL DEF Spec

\* With the lease, no activation loses its batch to an intent conflict.
THEOREM EpisodesStayCurrent == Spec => []BoundEpisodeStaysCurrent
<1>1. LeaseInv => BoundEpisodeStaysCurrent
  BY Zenon DEF LeaseInv
<1> QED BY <1>1, LeaseIsExclusive, PTL

-------------------------------------------------------------------------------
(* The durable scope of an episode.                                         *)

\* While the journal works: every latched process has its durable episode, and
\* the episode names each account before it is swept.
Durable ==
    /\ ~degraded
    /\ up => bound
    /\ active => episode

Scoped ==
    /\ swept \subseteq affected
    /\ \A t \in Activations : pc[t] = "sweep" => batch[t] \subseteq affected

ScopeInv == ~faulty => Durable /\ Scoped

\* One step of working storage keeps the durable episode of a latched process.
LEMMA NextDurable ==
    ASSUME TypeOK, Counted, ~faulty, Durable, [Next]_vars
    PROVE  Durable'
<1> USE DEF coreVars, latchVars, durableVars, processVars, threadVars
<1>1. ASSUME UNCHANGED <<degraded, up, bound, active, episode>> PROVE Durable'
  BY Zenon, <1>1 DEF Durable
<1>2. ASSUME NEW t \in Activations, NEW r \in ReplaceScopes, Latch(t, r) PROVE Durable'
  <2>1. UNCHANGED <<up, bound>> /\ up
    BY Zenon, <1>2 DEF Latch
  <2>2. PICK ready \in BOOLEAN : EpisodeWrite(ready)
    BY Zenon, <1>2 DEF Latch
  <2>3. degraded' = degraded /\ episode' = (episode \/ bound)
    BY Zenon, <2>2 DEF EpisodeWrite
  <2> QED BY Zenon, <2>1, <2>3 DEF Durable
<1>3. ASSUME NEW t \in Activations, ReadEpisode(t) PROVE Durable'
  <2>1. UNCHANGED <<active, up, bound>> /\ EpisodeWrite(TRUE)
    BY Zenon, <1>3 DEF ReadEpisode, Durable
  <2>2. degraded' = degraded /\ episode' = (episode \/ bound)
    BY Zenon, <2>1 DEF EpisodeWrite
  <2> QED BY Zenon, <2>1, <2>2 DEF Durable
<1>4. ASSUME NEW t \in Activations, RecordTargets(t) \/ Sweep(t) PROVE Durable'
  <2>1. UNCHANGED <<active, up, bound, episode>>
    BY Zenon, <1>4 DEF RecordTargets, Sweep
  <2>2. ~degraded'
    BY Zenon, <1>4 DEF RecordTargets, Sweep, Durable
  <2> QED BY Zenon, <2>1, <2>2 DEF Durable
<1>5. ASSUME NEW t \in Activations, \E T \in TargetSets : Authorise(t, T) PROVE Durable'
  BY Zenon, <1>1, <1>5 DEF Authorise
<1>6. ASSUME NEW t \in Activations,
             \/ Drained(t) \/ DrainTimeout(t) \/ AcquireLease(t)
             \/ LeaseTimeout(t) \/ PrepareTargets(t)
      PROVE Durable'
  BY Zenon, <1>1, <1>6 DEF Drained, DrainTimeout, AcquireLease, LeaseTimeout, PrepareTargets
<1>7. ASSUME NEW t \in Activations,
             ReserveTargets(t) \/ AwaitSelectors(t) \/ FinishDispatch(t) \/ ReserveTimeout(t)
      PROVE Durable'
  BY Zenon, <1>1, <1>7 DEF ReserveTargets, AwaitSelectors, FinishDispatch, ReserveTimeout,
                    EndDispatch
<1>8. ASSUME NEW t \in Activations, RecordConflict(t) \/ Merge(t) PROVE Durable'
  BY Zenon, <1>1, <1>8 DEF RecordConflict, Merge
<1>9. ASSUME NEW w \in Writers, FinishNormalWrite(w) \/ \E s \in Selectors : AdmitNormalWrite(w, s)
      PROVE Durable'
  BY Zenon, <1>1, <1>9 DEF FinishNormalWrite, AdmitNormalWrite
<1>10. ASSUME NEW w \in Writers, RefuseNormalWrite(w) PROVE Durable'
  <2>1. UNCHANGED <<degraded, up, bound, episode>> /\ (active \/ episode)
    BY Zenon, <1>10 DEF RefuseNormalWrite, Blocked
  <2> QED BY Zenon, <2>1 DEF Durable
<1>11. ASSUME Reset PROVE Durable'
  <2>1. UNCHANGED <<degraded, up, bound>> /\ ~active'
    BY Zenon, <1>11 DEF Reset
  <2> QED BY Zenon, <2>1 DEF Durable
<1>12. ASSUME RefuseReset PROVE Durable'
  <2>1. UNCHANGED <<degraded, up, bound, active>>
    BY Zenon, <1>12 DEF RefuseReset
  <2>2. episode => episode'
    BY Zenon, <1>12 DEF RefuseReset
  <2> QED BY Zenon, <2>1, <2>2 DEF Durable
<1>13. ASSUME ResetStep, ~Reset, ~RefuseReset PROVE Durable'
  BY Zenon, <1>1, <1>13 DEF ResetStep, RequestReset, ResetIdle, ResetLease, AbandonReset
<1>14. ASSUME BeginRebuild \/ EndRebuild \/ UNCHANGED vars PROVE Durable'
  BY Zenon, <1>1, <1>14 DEF BeginRebuild, EndRebuild, vars
<1>15. ASSUME Restart PROVE Durable'
  <2>1. bound' = TRUE /\ active' = episode
    BY Zenon, <1>15 DEF Restart, RestoredLatch
  <2>2. UNCHANGED <<degraded, episode>>
    BY Zenon, <1>15 DEF Restart
  <2> QED BY Zenon, <2>1, <2>2 DEF Durable
<1>16. ASSUME Crash PROVE Durable'
  <2>1. degraded' = FALSE /\ up' = FALSE /\ active' = FALSE
    BY Zenon, <1>16 DEF Crash
  <2> QED BY Zenon, <2>1 DEF Durable
<1> QED BY ZenonT(30), <1>2, <1>3, <1>4, <1>5, <1>6, <1>7, <1>8, <1>9, <1>10, <1>11, <1>12, <1>13,
           <1>14, <1>15, <1>16 DEF Next, ActivationStep, RunningStep, WriterStep

\* One step of working storage keeps every swept account in the episode.
LEMMA NextScoped ==
    ASSUME CoordinationInv, RoundInv, ~faulty, Durable, Scoped, [Next]_vars
    PROVE  Scoped'
<1> /\ TypeOK /\ pc \in [Activations -> Labels] /\ batch \in [Activations -> SUBSET Selectors]
  BY Zenon DEF CoordinationInv, TypeOK
<1> USE DEF coreVars, durableVars, roundVars, threadVars, worldVars, Goto, Idle
<1>1. ASSUME swept' \subseteq affected', affected \subseteq affected',
             \A u \in Activations : pc'[u] = "sweep" => pc[u] = "sweep" /\ batch'[u] = batch[u]
      PROVE  Scoped'
  BY Zenon, <1>1 DEF Scoped
<1>2. ASSUME UNCHANGED <<swept, affected>>,
             \A u \in Activations : pc'[u] = "sweep" => pc[u] = "sweep" /\ batch'[u] = batch[u]
      PROVE  Scoped'
  BY Zenon, <1>2 DEF Scoped
<1>3. ASSUME NEW t \in Activations, \E T \in TargetSets : Authorise(t, T) PROVE Scoped'
  BY Zenon, <1>2, <1>3 DEF Authorise
<1>4. ASSUME NEW t \in Activations, NEW r \in ReplaceScopes, Latch(t, r) PROVE Scoped'
  <2>1. UNCHANGED <<swept, affected, batch>>
    BY Zenon, <1>4 DEF Latch
  <2>2. \A u \in Activations : pc'[u] = "sweep" => pc[u] = "sweep"
    BY Zenon, <1>4 DEF Latch
  <2> QED BY Zenon, <1>2, <2>1, <2>2
<1>5. ASSUME NEW t \in Activations,
             Drained(t) \/ DrainTimeout(t) \/ LeaseTimeout(t) \/ PrepareTargets(t)
      PROVE Scoped'
  <2>1. UNCHANGED <<swept, affected, batch>>
    BY Zenon, <1>5 DEF Drained, DrainTimeout, LeaseTimeout, PrepareTargets
  <2>2. \A u \in Activations : pc'[u] = "sweep" => pc[u] = "sweep"
    BY Zenon, <1>5 DEF Drained, DrainTimeout, LeaseTimeout, PrepareTargets, StartDispatch,
                FailUnscoped
  <2> QED BY Zenon, <1>2, <2>1, <2>2
<1>6. ASSUME NEW t \in Activations, AcquireLease(t) \/ ReserveTargets(t) \/ AwaitSelectors(t)
      PROVE Scoped'
  BY Zenon, <1>2, <1>6 DEF AcquireLease, ReserveTargets, AwaitSelectors
<1>7. ASSUME NEW t \in Activations, FinishDispatch(t) \/ ReserveTimeout(t) \/ ReadEpisode(t)
      PROVE Scoped'
  BY Zenon, <1>2, <1>7 DEF FinishDispatch, ReserveTimeout, EndDispatch, ReadEpisode
<1>8. ASSUME NEW t \in Activations, RecordTargets(t) PROVE Scoped'
  <2>1. affected' = affected \cup batch[t] /\ UNCHANGED <<swept, batch>>
    BY Zenon, <1>8 DEF RecordTargets, Durable
  <2>2. \A u \in Activations : pc'[u] = "sweep" => u = t \/ pc[u] = "sweep"
    BY Zenon, <1>8 DEF RecordTargets
  <2> QED BY Zenon, <2>1, <2>2 DEF Scoped
<1>9. ASSUME NEW t \in Activations, RecordConflict(t) \/ Merge(t) PROVE Scoped'
  BY Zenon, <1>2, <1>9 DEF RecordConflict, Merge
<1>10. ASSUME NEW t \in Activations, Sweep(t) PROVE Scoped'
  <2>1. /\ swept' = swept \cup batch[t] /\ affected' = affected /\ pc[t] = "sweep"
        /\ pc' = [pc EXCEPT ![t] = "reserve"] /\ batch' = [batch EXCEPT ![t] = {}]
    BY Zenon, <1>10 DEF Sweep
  <2>2. batch[t] \subseteq affected /\ swept \subseteq affected
    BY Zenon, <2>1 DEF Scoped
  <2> QED BY Zenon, <1>1, <2>1, <2>2
<1>11. ASSUME NEW w \in Writers, WriterStep(w) PROVE Scoped'
  BY Zenon, <1>2, <1>11 DEF WriterStep, AdmitNormalWrite, RefuseNormalWrite, FinishNormalWrite
<1>12. ASSUME Reset PROVE Scoped'
  <2>1. dispatches = 0 /\ up /\ bound
    BY Zenon, <1>12 DEF Reset, ResetAllowed, Durable
  <2>2. \A u \in Activations : pc[u] # "sweep"
    BY Zenon, <2>1, QuietActivations DEF RoundLabels
  <2>3. swept' = {} /\ UNCHANGED pc
    BY Zenon, <1>12, <2>1 DEF Reset
  <2> QED BY Zenon, <2>2, <2>3 DEF Scoped
<1>13. ASSUME RefuseReset PROVE Scoped'
  <2>1. UNCHANGED <<swept, pc, batch>>
    BY Zenon, <1>13 DEF RefuseReset
  <2>2. affected' = affected
    BY Zenon, <1>13 DEF RefuseReset
  <2> QED BY Zenon, <1>2, <2>1, <2>2
<1>14. ASSUME ResetStep, ~Reset, ~RefuseReset PROVE Scoped'
  BY Zenon, <1>2, <1>14 DEF ResetStep, RequestReset, ResetIdle, ResetLease, AbandonReset
<1>15. ASSUME BeginRebuild \/ EndRebuild \/ Restart \/ UNCHANGED vars PROVE Scoped'
  BY Zenon, <1>2, <1>15 DEF BeginRebuild, EndRebuild, Restart, vars
<1>16. ASSUME Crash PROVE Scoped'
  <2>1. swept' = swept \cup Sweeping /\ affected' = affected
    BY Zenon, <1>16 DEF Crash
  <2>2. Sweeping \subseteq affected /\ swept \subseteq affected
    BY Zenon DEF Sweeping, Scoped
  <2>3. \A u \in Activations : pc'[u] # "sweep"
    BY Zenon, <1>16 DEF Crash, Everyone
  <2> QED BY Zenon, <2>1, <2>2, <2>3 DEF Scoped
<1> QED BY Zenon, <1>3, <1>4, <1>5, <1>6, <1>7, <1>8, <1>9, <1>10, <1>11, <1>12, <1>13, <1>14,
           <1>15, <1>16 DEF Next, ActivationStep, RunningStep

\* The mode of the journal is fixed.
LEMMA FaultyFrame == ASSUME [Next]_vars PROVE faulty' = faulty
<1> USE DEF worldVars
<1>1. ASSUME NEW w \in Writers, WriterStep(w) PROVE faulty' = faulty
  BY Zenon, <1>1 DEF WriterStep, AdmitNormalWrite, RefuseNormalWrite, FinishNormalWrite
<1>2. ASSUME NEW t \in Activations, ActivationStep(t) PROVE faulty' = faulty
  <2>1. CASE \/ \E T \in TargetSets : Authorise(t, T)
             \/ \E r \in ReplaceScopes : Latch(t, r)
             \/ AwaitSelectors(t) \/ ReserveTargets(t)
    BY Zenon, <2>1 DEF Authorise, Latch, AwaitSelectors, ReserveTargets
  <2>2. CASE \/ Drained(t) \/ DrainTimeout(t) \/ AcquireLease(t)
             \/ LeaseTimeout(t) \/ PrepareTargets(t)
    BY Zenon, <2>2 DEF Drained, DrainTimeout, AcquireLease, LeaseTimeout, PrepareTargets
  <2>3. CASE FinishDispatch(t) \/ ReserveTimeout(t) \/ ReadEpisode(t)
    BY Zenon, <2>3 DEF FinishDispatch, ReserveTimeout, EndDispatch, ReadEpisode
  <2>4. CASE RecordTargets(t) \/ RecordConflict(t) \/ Sweep(t) \/ Merge(t)
    BY Zenon, <2>4 DEF RecordTargets, RecordConflict, Sweep, Merge
  <2> QED BY Zenon, <1>2, <2>1, <2>2, <2>3, <2>4 DEF ActivationStep, RunningStep
<1>3. CASE ResetStep
  BY Zenon, <1>3 DEF ResetStep, RequestReset, ResetIdle, ResetLease, AbandonReset, Reset,
              RefuseReset
<1>4. CASE BeginRebuild \/ EndRebuild \/ Crash \/ Restart \/ UNCHANGED vars
  BY Zenon, <1>4 DEF BeginRebuild, EndRebuild, Crash, Restart, vars
<1> QED BY Zenon, <1>1, <1>2, <1>3, <1>4 DEF Next

\* The inductive invariant behind the scope of a reset.
THEOREM EpisodesAreScoped == Spec => []ScopeInv
<1>1. Init => ScopeInv
  BY Zenon DEF Init, ScopeInv, Durable, Scoped, Everyone, Idle
<1>2. CoordinationInv /\ RoundInv /\ ScopeInv /\ [Next]_vars => ScopeInv'
  BY Zenon, NextDurable, NextScoped, FaultyFrame DEF ScopeInv, CoordinationInv
<1> QED BY <1>1, <1>2, Coordination, Rounds, PTL DEF Spec

\* While the journal works, a reset is authorised for every account that received
\* reducing writes since the episode began.
THEOREM ResetsCoverSweeps == Spec => []DurableResetScope
<1>1. CoordinationInv /\ ScopeInv => DurableResetScope
  BY Zenon DEF CoordinationInv, Counted, ScopeInv, Durable, Scoped, DurableResetScope, ResetScope
<1> QED BY <1>1, Coordination, EpisodesAreScoped, PTL
====
