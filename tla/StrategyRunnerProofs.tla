------------------------- MODULE StrategyRunnerProofs -------------------------
(***************************************************************************)
(* Proofs about StrategyRunner, for every finite set of callers.  A call    *)
(* holds the transition lock exactly in the waits that follow it, so that   *)
(* the stops in progress can be counted; and while a hook or a tick loop    *)
(* runs, cleanup_required, stop_failed or the lock keeps a start away.      *)
(***************************************************************************)
EXTENDS StrategyRunner, FiniteSetTheorems, TLAPS

LockPcs == {"start_hook", "stop_task", "stop_drain", "stop_hook"}
NoSchedPcs == {"idle", "start_sched", "stop_sched"}
StartPcs == {"start_sched", "start_lock", "start_hook"}
Stopping == {p \in Procs : call[p].pc \in StopPcs}

\* OwnershipIsExact, with the converse for the transition lock.
LocksInv ==
    /\ \A p \in Procs : runner.lock = p <=> call[p].pc \in LockPcs
    /\ \A p \in Procs : schedLock = p => call[p].pc \notin NoSchedPcs
    /\ runner.stopReq = Cardinality(Stopping)

\* A request is revoked only while start_one runs it, or when it has ended; a
\* callback starts nothing.
RequestsInv ==
    /\ \A p \in Procs : call[p].op = "none" => call[p].pc = "idle"
    /\ call[Tick].pc \notin StartPcs
    /\ \A p \in revoked : call[p].op \in {"start", "none"}

\* A tick loop and a start hook that run have cleanup_required set; a stop hook
\* has, or the stop that waits for it holds the lock or has failed.  The waits of
\* start() and stop() under the lock know what they exclude.
LifecycleInv ==
    /\ runner.task # "none" => runner.cleanup
    /\ runner.startHook \in Executing => runner.cleanup
    /\ runner.stopHook \in Executing =>
         runner.cleanup \/ runner.stopFailed \/ runner.lock # Nobody
    /\ \A p \in Procs :
         /\ call[p].pc = "start_hook" =>
              runner.task = "none" /\ runner.cleanup /\ ~runner.retired
         /\ call[p].pc = "stop_hook" => runner.startHook \notin Executing
         /\ call[p].pc \in {"stop_drain", "stop_hook"} /\ ~call[p].owns =>
              runner.task = "none"

RunnerInv == TypeOK /\ LocksInv /\ RequestsInv /\ LifecycleInv /\ OneLifecycleActs

(***************************************************************************)
(* What the updates of a runner leave alone.                                *)
(***************************************************************************)
\* The type of a runner, but for the bound of its counter.
AnyRunner ==
    [running: BOOLEAN, cleanup: BOOLEAN, quarantined: BOOLEAN, retired: BOOLEAN,
     stopReq: Int, stopFailed: BOOLEAN, startHook: Hooks,
     stopHook: Hooks, task: LoopAlive \cup {"none"}, cancel: BOOLEAN,
     lock: Procs \cup {Nobody}, state: States, orphan: BOOLEAN]

LEMMA ProcsFinite == IsFiniteSet(Procs) /\ Cardinality(Procs) \in Nat
<1> IsFiniteSet(Callers \cup {Rollback})
  BY Zenon, CallersAssumption, FS_AddElement
<1> IsFiniteSet((Callers \cup {Rollback}) \cup {Tick})
  BY Zenon, FS_AddElement
<1> (Callers \cup {Rollback}) \cup {Tick} = Procs
  BY Zenon DEF Procs
<1> QED BY Zenon, FS_CardinalityType

LEMMA RunnerIsAny == ASSUME TypeOK PROVE runner \in AnyRunner
BY ProcsFinite DEF TypeOK, RunnerRecord, AnyRunner

LEMMA CancelledHook ==
    ASSUME NEW h \in Hooks, NEW g \in Cancelled(h)
    PROVE  g \in Hooks /\ (g \in Executing => h \in Executing) /\ (h = "none" => g = "none")
BY Zenon DEF Cancelled, Hooks, Executing

LEMMA DroppedStopHook ==
    ASSUME NEW r \in AnyRunner, r.stopHook \notin Executing
    PROVE  DropStopHook(r) = [r EXCEPT !.stopHook = "none"]
<1> (r.orphan \/ r.stopHook \in Executing) = r.orphan
  BY Zenon DEF AnyRunner
<1> QED BY Zenon DEF DropStopHook, AnyRunner

LEMMA DroppedStartHook ==
    ASSUME NEW r \in AnyRunner, r.startHook \notin Executing
    PROVE  DropStartHook(r) = [r EXCEPT !.startHook = "none"]
<1> (r.orphan \/ r.startHook \in Executing) = r.orphan
  BY Zenon DEF AnyRunner
<1> QED BY Zenon DEF DropStartHook, AnyRunner

LEMMA ReleasedRunner ==
    ASSUME NEW r \in AnyRunner
    PROVE  \/ Release(r) = r
           \/ /\ r.startHook = "none" /\ r.stopHook \notin Executing
              /\ Release(r) = [r EXCEPT !.stopHook = "none", !.cleanup = FALSE]
<1>1. CASE r.cleanup /\ ~r.stopFailed /\ r.stopReq = 0 /\ r.startHook = "none"
           /\ r.state = "STOPPED" /\ r.stopHook \in {"none", "ok"}
  <2> r.stopHook \notin Executing
    BY Zenon, <1>1 DEF Executing
  <2> DropStopHook(r) = [r EXCEPT !.stopHook = "none"]
    BY Zenon, DroppedStopHook
  <2> [[r EXCEPT !.stopHook = "none"] EXCEPT !.cleanup = FALSE] =
        [r EXCEPT !.stopHook = "none", !.cleanup = FALSE]
    BY Zenon DEF AnyRunner
  <2> QED BY Zenon, <1>1 DEF Release
<1> QED BY Zenon, <1>1 DEF Release

\* A loop that ends leaves everything but its own fields, or leaves nothing to
\* clean up.
LEMMA LoopExited ==
    ASSUME NEW r \in AnyRunner
    PROVE  LET s == [r EXCEPT !.running = FALSE, !.cancel = FALSE, !.task = "none"] IN
           \/ LoopExit(r) = s
           \/ /\ r.startHook = "none" /\ r.stopHook \notin Executing
              /\ LoopExit(r) = [s EXCEPT !.stopHook = "none", !.cleanup = FALSE]
<1> DEFINE s == [r EXCEPT !.running = FALSE, !.cancel = FALSE, !.task = "none"]
<1> s \in AnyRunner /\ s.startHook = r.startHook /\ s.stopHook = r.stopHook
  BY Zenon DEF AnyRunner
<1> LoopExit(r) = Release(s)
  BY Zenon DEF LoopExit
<1> HIDE DEF s
<1> \/ Release(s) = s
    \/ /\ s.startHook = "none" /\ s.stopHook \notin Executing
       /\ Release(s) = [s EXCEPT !.stopHook = "none", !.cleanup = FALSE]
  BY Zenon, ReleasedRunner
<1> QED BY Zenon DEF s

(***************************************************************************)
(* The locks and the stops in progress.                                     *)
(***************************************************************************)
\* What a step of the call p does to the locks and to the stops announced: it is
\* the only call that enters or leaves a stop, or a wait under the lock.
Moves(p) ==
    /\ \A q \in Procs \ {p} :
         /\ call'[q].pc \in StopPcs <=> call[q].pc \in StopPcs
         /\ call'[q].pc \in LockPcs <=> call[q].pc \in LockPcs
         /\ schedLock' = q => call'[q].pc \notin NoSchedPcs
    /\ schedLock' = p => call'[p].pc \notin NoSchedPcs
    /\ \/ /\ call[p].pc \notin StopPcs /\ call'[p].pc \in StopPcs
          /\ runner'.stopReq = runner.stopReq + 1
       \/ /\ call[p].pc \in StopPcs /\ call'[p].pc \notin StopPcs
          /\ runner'.stopReq = runner.stopReq - 1
       \/ /\ call[p].pc \in StopPcs <=> call'[p].pc \in StopPcs
          /\ runner'.stopReq = runner.stopReq
    /\ \/ /\ call'[p].pc \in LockPcs
          /\ runner'.lock = p /\ runner.lock \in {p, Nobody}
       \/ /\ call[p].pc \in LockPcs /\ call'[p].pc \notin LockPcs
          /\ runner'.lock = Nobody
       \/ /\ call[p].pc \notin LockPcs /\ call'[p].pc \notin LockPcs
          /\ runner'.lock = runner.lock

LEMMA StopsAreCounted ==
    ASSUME NEW p \in Procs, Moves(p), runner.stopReq = Cardinality(Stopping)
    PROVE  runner'.stopReq = Cardinality(Stopping') /\ runner'.stopReq \in 0..Cardinality(Procs)
<1> IsFiniteSet(Stopping) /\ Cardinality(Stopping) \in Nat
  BY Zenon, ProcsFinite, FS_Subset, FS_CardinalityType DEF Stopping
<1>1. runner'.stopReq = Cardinality(Stopping')
  <2>1. CASE /\ call[p].pc \notin StopPcs /\ call'[p].pc \in StopPcs
             /\ runner'.stopReq = runner.stopReq + 1
    <3> Stopping' = Stopping \cup {p} /\ p \notin Stopping
      BY Zenon, <2>1 DEF Moves, Stopping
    <3> Cardinality(Stopping \cup {p}) = Cardinality(Stopping) + 1
      BY Zenon, FS_AddElement
    <3> QED BY Zenon, <2>1
  <2>2. CASE /\ call[p].pc \in StopPcs /\ call'[p].pc \notin StopPcs
             /\ runner'.stopReq = runner.stopReq - 1
    <3> Stopping' = Stopping \ {p} /\ p \in Stopping
      BY Zenon, <2>2 DEF Moves, Stopping
    <3> QED BY Zenon, <2>2, FS_RemoveElement
  <2>3. CASE /\ call[p].pc \in StopPcs <=> call'[p].pc \in StopPcs
             /\ runner'.stopReq = runner.stopReq
    <3> Stopping' = Stopping
      BY Zenon, <2>3 DEF Moves, Stopping
    <3> QED BY Zenon, <2>3
  <2> QED BY Zenon, <2>1, <2>2, <2>3 DEF Moves
<1> Stopping' \in SUBSET Procs
  BY Zenon DEF Stopping
<1> Cardinality(Stopping') \in Nat /\ Cardinality(Stopping') <= Cardinality(Procs)
  BY Zenon, ProcsFinite, FS_Subset, FS_CardinalityType
<1> QED BY <1>1, ProcsFinite

LEMMA MovesKeepLocks ==
    ASSUME NEW p \in Procs, Moves(p), LocksInv, schedLock' \in Procs \cup {Nobody}
    PROVE  LocksInv' /\ runner'.stopReq \in 0..Cardinality(Procs)
<1> Nobody \notin Procs
  BY Zenon, CallersAssumption DEF Procs, Nobody, Rollback, Tick
<1>1. \A q \in Procs : runner'.lock = q <=> call'[q].pc \in LockPcs
  BY DEF Moves, LocksInv
<1>2. \A q \in Procs : schedLock' = q => call'[q].pc \notin NoSchedPcs
  BY Zenon DEF Moves
<1>3. runner'.stopReq = Cardinality(Stopping') /\ runner'.stopReq \in 0..Cardinality(Procs)
  BY Zenon, StopsAreCounted DEF LocksInv
<1> QED BY Zenon, <1>1, <1>2, <1>3 DEF LocksInv

(***************************************************************************)
(* What becomes of the calls.                                               *)
(***************************************************************************)
CallsInv ==
    /\ schedLock \in Procs \cup {Nobody}
    /\ call \in [Procs -> CallRecord]
    /\ revoked \subseteq Callers
    /\ RequestsInv

\* The call p goes on as c, or ends.
LEMMA Proceeded ==
    ASSUME TypeOK, LocksInv, RequestsInv, UNCHANGED revoked,
           NEW p \in Procs, NEW c \in CallRecord, Proceeds(p, c),
           c = Idle \/ (c.op = call[p].op /\ c.op # "none" /\ c.pc \notin NoSchedPcs),
           c.pc \in StartPcs => call[p].pc \in StartPcs
    PROVE  /\ CallsInv'
           /\ call'[p] = c /\ \A q \in Procs \ {p} : call'[q] = call[q]
           /\ \A q \in Procs : schedLock' = q => call'[q].pc \notin NoSchedPcs
<1> call \in [Procs -> CallRecord] /\ schedLock \in Procs \cup {Nobody} /\ revoked \subseteq Callers
  BY Zenon DEF TypeOK
<1>1. call'[p] = c /\ (\A q \in Procs \ {p} : call'[q] = call[q]) /\ call' \in [Procs -> CallRecord]
  BY Zenon DEF Proceeds
<1>2. schedLock' \in Procs \cup {Nobody}
  BY Zenon DEF Proceeds
<1>3. \A q \in Procs : schedLock' = q => call'[q].pc \notin NoSchedPcs
  BY Zenon, <1>1, CallersAssumption DEF Proceeds, LocksInv, Idle, Nobody, Procs, Rollback, Tick
<1>4. RequestsInv'
  BY <1>1 DEF RequestsInv, Idle, Procs, StartPcs
<1> QED BY Zenon, <1>1, <1>2, <1>3, <1>4 DEF CallsInv

LEMMA Assembled ==
    ASSUME RunnerInv, NEW p \in Procs, Moves(p), runner' \in AnyRunner, CallsInv',
           LifecycleInv', OneLifecycleActs'
    PROVE  RunnerInv'
<1>1. LocksInv' /\ runner'.stopReq \in 0..Cardinality(Procs)
  BY Zenon, MovesKeepLocks DEF CallsInv, RunnerInv
<1>2. runner' \in RunnerRecord
  BY Zenon, <1>1 DEF AnyRunner, RunnerRecord
<1> QED BY Zenon, <1>1, <1>2 DEF CallsInv, RunnerInv, TypeOK

\* A call that ends, or that looks at the runner again in its drain, gives up the
\* lock it holds and the stop it announced.
LEMMA CallEnded ==
    ASSUME RunnerInv, UNCHANGED revoked, NEW p \in Procs, NEW c \in CallRecord,
           Proceeds(p, c),
           c = Idle \/ (c.op = call[p].op /\ c.op # "none" /\ c.pc = "drain"),
           runner'.stopReq =
             IF call[p].pc \in StopPcs THEN runner.stopReq - 1 ELSE runner.stopReq,
           runner'.lock = IF call[p].pc \in LockPcs THEN Nobody ELSE runner.lock
    PROVE  /\ CallsInv' /\ Moves(p)
           /\ call'[p].pc \in {"idle", "drain"} /\ \A q \in Procs \ {p} : call'[q] = call[q]
<1> TypeOK /\ LocksInv /\ RequestsInv
  BY Zenon DEF RunnerInv
<1> c.pc \in {"idle", "drain"} /\ (c = Idle \/ c.pc \notin NoSchedPcs)
  BY DEF NoSchedPcs, Idle
<1>1. /\ CallsInv'
      /\ call'[p] = c /\ \A q \in Procs \ {p} : call'[q] = call[q]
      /\ \A q \in Procs : schedLock' = q => call'[q].pc \notin NoSchedPcs
  BY Zenon, Proceeded DEF StartPcs
<1>2. Moves(p)
  BY Zenon, <1>1 DEF Moves, StopPcs, LockPcs
<1> QED BY Zenon, <1>1, <1>2

\* No call gets anywhere.
LEMMA CallsKept ==
    ASSUME RunnerInv, UNCHANGED <<schedLock, revoked>>, call' \in [Procs -> CallRecord],
           \A q \in Procs : call'[q].pc = call[q].pc /\ call'[q].op = call[q].op,
           runner'.stopReq = runner.stopReq, runner'.lock = runner.lock
    PROVE  CallsInv' /\ Moves(Tick)
<1> TypeOK /\ LocksInv /\ RequestsInv /\ Tick \in Procs
  BY Zenon DEF RunnerInv, Procs
<1>1. CallsInv'
  BY Zenon DEF CallsInv, RequestsInv, TypeOK, Procs, StartPcs
<1>2. Moves(Tick)
  BY Zenon DEF Moves, LocksInv
<1> QED BY Zenon, <1>1, <1>2

\* A step that starts nothing, keeps cleanup_required and either keeps the lock or
\* leaves a flag behind that refuses a start.
Tame ==
    /\ runner' \in AnyRunner
    /\ runner'.task = "none" <=> runner.task = "none"
    /\ UNCHANGED <<runner.cleanup, runner.retired, runner.orphan>>
    /\ runner'.stopFailed \in {TRUE, runner.stopFailed}
    /\ runner'.startHook \in Executing => runner.startHook \in Executing
    /\ runner.startHook = "none" => runner'.startHook = "none"
    /\ runner'.stopHook \in Executing => runner.stopHook \in Executing
    /\ runner'.lock = runner.lock \/ runner'.stopFailed \/ runner'.cleanup

LEMMA TameStep ==
    ASSUME RunnerInv, Tame,
           \A q \in Procs : call'[q].pc \in {"start_hook", "stop_drain", "stop_hook"} =>
                              call'[q].pc = call[q].pc /\ call'[q].owns = call[q].owns
    PROVE  LifecycleInv' /\ OneLifecycleActs'
<1> LifecycleInv /\ OneLifecycleActs /\ runner \in AnyRunner
  BY Zenon, RunnerIsAny DEF RunnerInv
<1>1. LifecycleInv'
  BY ZenonT(30) DEF LifecycleInv, Tame, AnyRunner
<1>2. OneLifecycleActs'
  BY Zenon DEF OneLifecycleActs, Tame, AnyRunner
<1> QED BY Zenon, <1>1, <1>2

(***************************************************************************)
(* Starting.                                                                *)
(***************************************************************************)

\* A call is made.
LEMMA CallMade ==
    ASSUME RunnerInv, NEW p \in Procs, Available(p), NEW c \in CallRecord,
           c.op # "none", c.pc \in {"start_sched", "stop_sched", "start_lock"},
           c.pc \in StartPcs => p # Tick,
           call' = [call EXCEPT ![p] = c], UNCHANGED <<runner, schedLock, revoked>>
    PROVE  RunnerInv'
<1> TypeOK /\ LocksInv /\ RequestsInv /\ runner \in AnyRunner
  BY Zenon, RunnerIsAny DEF RunnerInv
<1> call[p].pc = "idle" /\ p \notin revoked
  BY DEF Available, Idle
<1> /\ call'[p] = c /\ (\A q \in Procs \ {p} : call'[q] = call[q])
    /\ call' \in [Procs -> CallRecord]
  BY Zenon DEF TypeOK
<1>1. CallsInv'
  BY Zenon DEF CallsInv, RequestsInv, TypeOK, Procs, StartPcs
<1>2. Moves(p)
  BY Zenon DEF Moves, LocksInv, StopPcs, LockPcs, NoSchedPcs
<1>3. LifecycleInv' /\ OneLifecycleActs'
  BY Zenon, TameStep DEF Tame
<1> QED BY Zenon, <1>1, <1>2, <1>3, Assembled

LEMMA StartAdmittedStep ==
    ASSUME RunnerInv, NEW p \in Procs, StartAdmitted(p)
    PROVE  RunnerInv'
<1> TypeOK /\ LocksInv /\ RequestsInv /\ runner \in AnyRunner /\ UNCHANGED <<runner, revoked>>
  BY Zenon, RunnerIsAny DEF RunnerInv, StartAdmitted
<1> call[p].pc = "start_sched" /\ schedLock = Nobody /\ Nobody \notin Procs
  BY Zenon, CallersAssumption DEF StartAdmitted, Procs, Nobody, Rollback, Tick
<1>1. CASE call' = [call EXCEPT ![p] = Idle] /\ UNCHANGED schedLock
  <2> Proceeds(p, Idle) /\ Idle \in CallRecord
    BY Zenon, <1>1 DEF Proceeds, Idle, CallRecord
  <2>1. /\ CallsInv' /\ Moves(p)
        /\ call'[p].pc \in {"idle", "drain"} /\ \A q \in Procs \ {p} : call'[q] = call[q]
    BY Zenon, CallEnded DEF StopPcs, LockPcs
  <2>2. LifecycleInv' /\ OneLifecycleActs'
    BY Zenon, <2>1, TameStep DEF Tame
  <2> QED BY Zenon, <2>1, <2>2, Assembled
<1>2. CASE call' = [call EXCEPT ![p].pc = "start_lock"] /\ schedLock' = p
  <2> /\ call'[p] = [call[p] EXCEPT !.pc = "start_lock"]
      /\ \A q \in Procs \ {p} : call'[q] = call[q]
      /\ call' \in [Procs -> CallRecord]
    BY <1>2 DEF TypeOK, CallRecord
  <2> call'[p].pc = "start_lock" /\ call'[p].op = call[p].op /\ call[p].op # "none"
    BY Zenon DEF TypeOK, CallRecord, RequestsInv
  <2>1. CallsInv'
    BY Zenon, <1>2 DEF CallsInv, RequestsInv, TypeOK, Procs, StartPcs
  <2>2. Moves(p)
    BY Zenon, <1>2 DEF Moves, LocksInv, StopPcs, LockPcs, NoSchedPcs
  <2>3. LifecycleInv' /\ OneLifecycleActs'
    BY Zenon, TameStep DEF Tame
  <2> QED BY Zenon, <2>1, <2>2, <2>3, Assembled
<1> QED BY Zenon, <1>1, <1>2 DEF StartAdmitted

\* Where start() leaves its caller.
LEMMA AfterStartCall ==
    ASSUME RunnerInv, NEW p \in Procs, call[p].pc \in {"start_lock", "start_hook"}
    PROVE  \A c \in {AfterFailedStart(call[p]), AfterStart(p, call[p])} :
             /\ c \in CallRecord
             /\ c = Idle \/ (c.op = call[p].op /\ c.op # "none" /\ c.pc = "drain")
<1> call[p] \in CallRecord /\ call[p].op # "none"
  BY Zenon DEF RunnerInv, TypeOK, RequestsInv
<1>1. Idle \in CallRecord
  BY Zenon DEF Idle, CallRecord
<1>2. [call[p] EXCEPT !.pc = "drain"] \in CallRecord
  BY Zenon DEF CallRecord
<1>3. [call[p] EXCEPT !.pc = "drain"].op = call[p].op /\ [call[p] EXCEPT !.pc = "drain"].pc = "drain"
  BY Zenon DEF CallRecord
<1>4. {AfterFailedStart(call[p]), AfterStart(p, call[p])} \subseteq
        {Idle, [call[p] EXCEPT !.pc = "drain"]}
  BY Zenon DEF AfterFailedStart, AfterStart
<1> QED BY Zenon, <1>1, <1>2, <1>3, <1>4

LEMMA StartLockedStep ==
    ASSUME RunnerInv, NEW p \in Procs, StartLocked(p)
    PROVE  RunnerInv'
<1> TypeOK /\ LocksInv /\ RequestsInv /\ LifecycleInv /\ OneLifecycleActs /\ runner \in AnyRunner
  BY Zenon, RunnerIsAny DEF RunnerInv
<1> call[p] \in CallRecord /\ call[p].pc = "start_lock" /\ runner.lock = Nobody /\ UNCHANGED revoked
  BY Zenon DEF StartLocked, TypeOK
<1> call[p].op # "none" /\ Nobody \notin Procs
  BY Zenon, CallersAssumption DEF RequestsInv, Procs, Nobody, Rollback, Tick
<1>1. ASSUME UNCHANGED runner, NEW c \in {AfterFailedStart(call[p]), AfterStart(p, call[p])},
             Proceeds(p, c)
      PROVE  RunnerInv'
  <2>1. /\ CallsInv' /\ Moves(p)
        /\ call'[p].pc \in {"idle", "drain"} /\ \A q \in Procs \ {p} : call'[q] = call[q]
    BY Zenon, <1>1, AfterStartCall, CallEnded DEF StopPcs, LockPcs
  <2>2. LifecycleInv' /\ OneLifecycleActs'
    BY Zenon, <1>1, <2>1, TameStep DEF Tame
  <2> QED BY Zenon, <1>1, <2>1, <2>2, Assembled
<1>2. CASE /\ ~Refused(call[p], runner) /\ ~runner.running
           /\ Proceeds(p, [call[p] EXCEPT !.pc = "start_hook"])
           /\ runner' = [DropStartHook(runner) EXCEPT !.cleanup = TRUE, !.lock = p,
                                                        !.startHook = "created"]
  <2> DEFINE c == [call[p] EXCEPT !.pc = "start_hook"]
  <2> c \in CallRecord /\ c.op = call[p].op /\ c.pc = "start_hook" /\ c.pc \notin NoSchedPcs
    BY Zenon DEF NoSchedPcs, CallRecord
  <2> HIDE DEF c
  <2>1. /\ CallsInv'
        /\ call'[p] = c /\ \A q \in Procs \ {p} : call'[q] = call[q]
        /\ \A q \in Procs : schedLock' = q => call'[q].pc \notin NoSchedPcs
    BY Zenon, <1>2, Proceeded DEF c, StartPcs
  <2>2. runner.startHook \notin Executing /\ runner.stopHook \notin Executing
        /\ runner.task = "none" /\ ~runner.retired
    BY Zenon, <1>2 DEF LifecycleInv, Refused, AnyRunner
  <2>3. runner' = [runner EXCEPT !.startHook = "created", !.cleanup = TRUE, !.lock = p]
    BY Zenon, <1>2, <2>2, DroppedStartHook DEF AnyRunner
  <2>4. runner' \in AnyRunner
    BY Zenon, <2>3 DEF AnyRunner, Hooks, Executing
  <2>5. Moves(p)
    BY Zenon, <2>1, <2>3 DEF Moves, StopPcs, LockPcs, AnyRunner
  <2>6. LifecycleInv'
    BY <2>1, <2>2, <2>3 DEF LifecycleInv, LocksInv, LockPcs, AnyRunner
  <2>7. OneLifecycleActs'
    BY Zenon, <2>2, <2>3 DEF OneLifecycleActs, AnyRunner
  <2> QED BY Zenon, <2>1, <2>4, <2>5, <2>6, <2>7, Assembled
<1> QED BY Zenon, <1>1, <1>2 DEF StartLocked

LEMMA StartHookEndedStep ==
    ASSUME RunnerInv, NEW p \in Procs, StartHookEnded(p)
    PROVE  RunnerInv'
<1> TypeOK /\ LocksInv /\ RequestsInv /\ LifecycleInv /\ OneLifecycleActs /\ runner \in AnyRunner
  BY Zenon, RunnerIsAny DEF RunnerInv
<1> DEFINE idle == Unlocked(DropStartHook(runner))
<1> call[p].pc = "start_hook" /\ runner.startHook \notin Executing /\ UNCHANGED revoked
  BY Zenon DEF StartHookEnded
<1> runner.task = "none" /\ runner.cleanup /\ ~runner.retired /\ runner.lock = p
  BY Zenon DEF LifecycleInv, LocksInv, LockPcs
<1>1. idle = [runner EXCEPT !.startHook = "none", !.lock = Nobody]
  BY Zenon, DroppedStartHook DEF Unlocked, AnyRunner
<1>2. ASSUME NEW c \in {AfterFailedStart(call[p]), AfterStart(p, call[p])}, Proceeds(p, c),
             runner'.stopReq = runner.stopReq, runner'.lock = Nobody
      PROVE  /\ CallsInv' /\ Moves(p)
             /\ call'[p].pc \in {"idle", "drain"} /\ \A q \in Procs \ {p} : call'[q] = call[q]
  BY Zenon, <1>2, AfterStartCall, CallEnded DEF StopPcs, LockPcs
<1>3. CASE runner' = idle /\ Proceeds(p, AfterFailedStart(call[p]))
  <2>1. runner'.stopReq = runner.stopReq /\ runner'.lock = Nobody /\ Tame
    BY Zenon, <1>1, <1>3 DEF Tame, AnyRunner, Hooks, Executing
  <2>2. LifecycleInv' /\ OneLifecycleActs'
    BY Zenon, <1>2, <1>3, <2>1, TameStep
  <2> QED BY Zenon, <1>2, <1>3, <2>1, <2>2, Assembled DEF Tame
<1>4. CASE /\ runner' = [idle EXCEPT !.orphan = @ \/ idle.task \in LoopAlive,
                                     !.running = TRUE, !.task = "idle"]
           /\ Proceeds(p, AfterStart(p, call[p]))
  <2>1. idle.task = "none" /\ (idle.orphan \/ idle.task \in LoopAlive) = runner.orphan
    BY Zenon, <1>1 DEF AnyRunner, LoopAlive, InCallback
  <2>2. runner' = [runner EXCEPT !.startHook = "none", !.lock = Nobody, !.running = TRUE,
                                 !.task = "idle"]
    BY Zenon, <1>1, <1>4, <2>1 DEF AnyRunner
  <2>3. runner' \in AnyRunner /\ runner'.stopReq = runner.stopReq /\ runner'.lock = Nobody
    BY Zenon, <2>2 DEF AnyRunner, Hooks, LoopAlive
  <2>4. /\ CallsInv' /\ Moves(p)
        /\ call'[p].pc \in {"idle", "drain"} /\ \A q \in Procs \ {p} : call'[q] = call[q]
    BY Zenon, <1>2, <1>4, <2>3
  <2>5. LifecycleInv'
    BY <2>2, <2>4 DEF LifecycleInv, LocksInv, LockPcs, AnyRunner, Executing
  <2>6. OneLifecycleActs'
    BY Zenon, <2>2 DEF OneLifecycleActs, AnyRunner, Executing
  <2> QED BY Zenon, <2>3, <2>4, <2>5, <2>6, Assembled
<1> QED BY Zenon, <1>3, <1>4 DEF StartHookEnded

\* A start that gives up waiting for its hook leaves cleanup_required set.
LEMMA Abandoned ==
    ASSUME RunnerInv, NEW p \in Procs, call[p].pc = "start_hook", runner' \in AbandonedStart
    PROVE  Tame /\ runner'.stopReq = runner.stopReq /\ runner'.lock = Nobody
<1> LifecycleInv /\ runner \in AnyRunner /\ runner.startHook \in Hooks
  BY Zenon, RunnerIsAny DEF RunnerInv, AnyRunner
<1> runner.cleanup
  BY Zenon DEF LifecycleInv
<1> PICK h \in Cancelled(runner.startHook) :
      runner' = Unlocked([runner EXCEPT !.startHook = IF h \in Executing THEN h ELSE "none"])
  BY Zenon DEF AbandonedStart
<1> h \in Hooks /\ (h \in Executing => runner.startHook \in Executing)
  BY Zenon, CancelledHook
<1> DEFINE g == IF h \in Executing THEN h ELSE "none"
<1> g \in Hooks /\ (g \in Executing => runner.startHook \in Executing) /\ g \in Executing \cup {"none"}
  BY Zenon DEF Hooks, Executing
<1> runner' = [runner EXCEPT !.startHook = g, !.lock = Nobody]
  BY Zenon DEF Unlocked, AnyRunner
<1> HIDE DEF g
<1>1. runner' \in AnyRunner
  BY Zenon DEF AnyRunner
<1>2. runner.startHook = "none" => g = "none"
  BY Zenon DEF Executing
<1> QED BY Zenon, <1>1, <1>2 DEF Tame, AnyRunner

LEMMA StartHookTimesOutStep ==
    ASSUME RunnerInv, NEW p \in Procs, StartHookTimesOut(p)
    PROVE  RunnerInv'
<1> call[p].pc = "start_hook" /\ UNCHANGED revoked /\ Proceeds(p, AfterFailedStart(call[p]))
  BY Zenon DEF StartHookTimesOut
<1>1. Tame /\ runner'.stopReq = runner.stopReq /\ runner'.lock = Nobody
  BY Zenon, Abandoned DEF StartHookTimesOut
<1>2. /\ CallsInv' /\ Moves(p)
      /\ call'[p].pc \in {"idle", "drain"} /\ \A q \in Procs \ {p} : call'[q] = call[q]
  BY Zenon, <1>1, AfterStartCall, CallEnded DEF StopPcs, LockPcs
<1>3. LifecycleInv' /\ OneLifecycleActs'
  BY Zenon, <1>1, <1>2, TameStep
<1> QED BY Zenon, <1>1, <1>2, <1>3, Assembled DEF Tame

LEMMA RevokeStep ==
    ASSUME RunnerInv, NEW p \in Callers, Revoke(p)
    PROVE  RunnerInv'
BY Zenon DEF Revoke, RunnerInv, TypeOK, LocksInv, Stopping, RequestsInv, LifecycleInv,
       OneLifecycleActs, Procs

LEMMA SubmitRollbackStep ==
    ASSUME RunnerInv, NEW p \in Callers, SubmitRollback(p)
    PROVE  RunnerInv'
<1> TypeOK /\ LocksInv /\ RequestsInv /\ runner \in AnyRunner
  BY Zenon, RunnerIsAny DEF RunnerInv
<1> DEFINE b == [Idle EXCEPT !.op = "rollback", !.pc = "drain"]
           c == CancelledStart(call[p])
<1> /\ p \in revoked /\ call[Rollback] = Idle /\ revoked' = revoked \ {p} /\ UNCHANGED schedLock
    /\ call' = [call EXCEPT ![p] = c, ![Rollback] = b]
  BY Zenon DEF SubmitRollback
<1> p \in Procs /\ Rollback \in Procs /\ p # Rollback /\ Rollback \notin revoked
  BY Zenon, CallersAssumption DEF TypeOK, Procs
<1> b \in CallRecord /\ b.op = "rollback" /\ b.pc = "drain" /\ Idle.pc = "idle"
  BY Zenon DEF Idle, CallRecord
<1> call[p] \in CallRecord /\ (call[p].op = "none" => call[p].pc = "idle") /\ call[p].op \in {"start", "none"}
  BY Zenon DEF TypeOK, RequestsInv
<1>1. c \in CallRecord
  BY Zenon DEF CancelledStart, AfterFailedStart, CallRecord, Idle
<1>2. /\ call[p].pc \in {"idle", "start_sched"} => c = Idle
      /\ call[p].pc \in {"start_lock", "start_hook"} => c = [call[p] EXCEPT !.pc = "drain"]
      /\ call[p].pc \notin {"idle", "start_sched", "start_lock", "start_hook"} => c = call[p]
  BY Zenon DEF CancelledStart, AfterFailedStart
<1>3. /\ c = Idle \/ c.op = call[p].op
      /\ c.pc = IF call[p].pc \in {"idle", "start_sched"} THEN "idle"
                ELSE IF call[p].pc \in {"start_lock", "start_hook"} THEN "drain" ELSE call[p].pc
      /\ call[p].pc \notin {"idle", "start_sched", "start_lock", "start_hook"} => c = call[p]
  BY Zenon, <1>2 DEF CallRecord, Idle
<1> HIDE DEF b, c
<1>4. /\ call'[p] = c /\ call'[Rollback] = b /\ \A q \in Procs \ {p, Rollback} : call'[q] = call[q]
      /\ call' \in [Procs -> CallRecord]
  BY Zenon, <1>1 DEF TypeOK
<1>5. CallsInv'
  BY Zenon, <1>3, <1>4 DEF CallsInv, RequestsInv, TypeOK, Procs, Idle, StartPcs
<1>6. /\ Tame /\ runner'.stopReq = runner.stopReq
      /\ runner'.lock = IF call[p].pc = "start_hook" THEN Nobody ELSE runner.lock
  <2>1. CASE call[p].pc = "start_hook"
    BY Zenon, <2>1, Abandoned DEF SubmitRollback
  <2>2. CASE call[p].pc # "start_hook"
    <3> UNCHANGED runner
      BY Zenon, <2>2 DEF SubmitRollback
    <3> QED BY Zenon, <2>2 DEF Tame
  <2> QED BY Zenon, <2>1, <2>2
<1>7. Moves(p)
  BY <1>3, <1>4, <1>6 DEF Moves, LocksInv, StopPcs, LockPcs, NoSchedPcs
<1>8. LifecycleInv' /\ OneLifecycleActs'
  BY Zenon, <1>3, <1>4, <1>6, TameStep
<1> QED BY Zenon, <1>5, <1>6, <1>7, <1>8, Assembled DEF Tame

LEMMA RollbackUnansweredStep ==
    ASSUME RunnerInv, RollbackUnanswered
    PROVE  RunnerInv'
<1> TypeOK /\ LocksInv /\ RequestsInv /\ runner \in AnyRunner
  BY Zenon, RunnerIsAny DEF RunnerInv
<1> /\ UNCHANGED <<schedLock, revoked>> /\ call[Rollback].op = "rollback"
    /\ runner' = [runner EXCEPT !.quarantined = TRUE]
    /\ call' = [call EXCEPT ![Rollback].op = "unanswered"]
  BY Zenon DEF RollbackUnanswered
<1> Rollback \in Procs /\ Rollback \notin revoked
  BY Zenon, CallersAssumption DEF TypeOK, Procs
<1>1. /\ call'[Rollback] = [call[Rollback] EXCEPT !.op = "unanswered"]
      /\ \A q \in Procs \ {Rollback} : call'[q] = call[q]
      /\ call' \in [Procs -> CallRecord]
  BY DEF TypeOK, CallRecord
<1>2. /\ call'[Rollback].op = "unanswered" /\ call'[Rollback].pc = call[Rollback].pc
      /\ call'[Rollback].owns = call[Rollback].owns
  BY Zenon, <1>1 DEF TypeOK, CallRecord
<1>3. Tame /\ runner'.stopReq = runner.stopReq /\ runner'.lock = runner.lock
  BY Zenon DEF Tame, AnyRunner
<1>4. CallsInv'
  BY Zenon, <1>1, <1>2 DEF CallsInv, RequestsInv, TypeOK, Procs, StartPcs
<1>5. Moves(Rollback)
  BY Zenon, <1>1, <1>2, <1>3 DEF Moves, LocksInv, StopPcs, LockPcs, NoSchedPcs
<1>6. LifecycleInv' /\ OneLifecycleActs'
  BY Zenon, <1>1, <1>2, <1>3, TameStep
<1> QED BY Zenon, <1>3, <1>4, <1>5, <1>6, Assembled DEF Tame

(***************************************************************************)
(* Stopping.                                                                *)
(***************************************************************************)
LEMMA AnnouncedStop ==
    ASSUME RunnerInv, runner' \in Announced
    PROVE  Tame /\ runner'.stopReq = runner.stopReq + 1 /\ runner'.lock = runner.lock
<1> runner \in AnyRunner /\ runner.startHook \in Hooks
  BY Zenon, RunnerIsAny DEF RunnerInv, AnyRunner
<1> PICK h \in Cancelled(runner.startHook) :
      runner' = [runner EXCEPT !.stopReq = @ + 1, !.startHook = h]
  BY Zenon DEF Announced
<1> /\ h \in Hooks /\ (h \in Executing => runner.startHook \in Executing)
    /\ (runner.startHook = "none" => h = "none")
  BY Zenon, CancelledHook
<1> runner.stopReq + 1 \in Int
  BY DEF AnyRunner
<1> runner' = [runner EXCEPT !.stopReq = runner.stopReq + 1, !.startHook = h]
  BY Zenon
<1>1. runner' \in AnyRunner
  BY Zenon DEF AnyRunner
<1> QED BY Zenon, <1>1 DEF Tame, AnyRunner

\* A stop is announced, and waits for the transition lock.
LEMMA StopEntered ==
    ASSUME RunnerInv, NEW p \in Procs, runner' \in Announced,
           call' \in [Procs -> CallRecord], call[p].pc \in {"idle", "stop_sched", "drain"},
           call'[p].pc = "stop_lock", call'[p].op # "none",
           p \in revoked => call'[p].op = call[p].op,
           \A q \in Procs \ {p} : /\ call'[q].pc = call[q].pc /\ call'[q].op = call[q].op
                                  /\ call'[q].owns = call[q].owns,
           schedLock' \in {schedLock, p}, UNCHANGED revoked
    PROVE  RunnerInv'
<1> TypeOK /\ LocksInv /\ RequestsInv
  BY Zenon DEF RunnerInv
<1>1. Tame /\ runner'.stopReq = runner.stopReq + 1 /\ runner'.lock = runner.lock
  BY Zenon, AnnouncedStop
<1>2. CallsInv'
  BY Zenon DEF CallsInv, RequestsInv, TypeOK, Procs, StartPcs
<1>3. Moves(p)
  BY Zenon, <1>1 DEF Moves, LocksInv, StopPcs, LockPcs, NoSchedPcs
<1>4. LifecycleInv' /\ OneLifecycleActs'
  BY Zenon, <1>1, TameStep
<1> QED BY Zenon, <1>1, <1>2, <1>3, <1>4, Assembled DEF Tame

LEMMA StopAdmittedStep ==
    ASSUME RunnerInv, NEW p \in Procs, StopAdmitted(p)
    PROVE  RunnerInv'
<1> TypeOK /\ LocksInv /\ RequestsInv /\ runner \in AnyRunner
  BY Zenon, RunnerIsAny DEF RunnerInv
<1> DEFINE others == IF call[p].op = "stop_all" THEN Superseded ELSE call
<1> call[p].pc = "stop_sched" /\ schedLock = Nobody /\ UNCHANGED revoked /\ Nobody \notin Procs
  BY Zenon, CallersAssumption DEF StopAdmitted, Procs, Nobody, Rollback, Tick
<1>1. others \in [Procs -> CallRecord]
  BY ZenonT(30) DEF Superseded, TypeOK, CallRecord
<1>2. \A q \in Procs : /\ others[q].pc = call[q].pc /\ others[q].op = call[q].op
                       /\ others[q].owns = call[q].owns
  BY Zenon DEF Superseded, TypeOK, CallRecord
<1> HIDE DEF others
<1>3. CASE /\ runner' \in Announced /\ schedLock' = p
           /\ call' = [others EXCEPT ![p].pc = "stop_lock"]
  <2>1. /\ call'[p] = [others[p] EXCEPT !.pc = "stop_lock"]
        /\ \A q \in Procs \ {p} : call'[q] = others[q]
        /\ call' \in [Procs -> CallRecord]
    BY <1>1, <1>3 DEF CallRecord, StopPcs
  <2>2. call'[p].pc = "stop_lock" /\ call'[p].op = call[p].op /\ call[p].op # "none"
    BY <1>1, <1>2, <2>1 DEF CallRecord, RequestsInv
  <2> QED BY Zenon, <1>2, <1>3, <2>1, <2>2, StopEntered
<1>4. CASE call' = [others EXCEPT ![p] = Idle] /\ UNCHANGED <<runner, schedLock>>
  <2>1. /\ call'[p] = Idle /\ (\A q \in Procs \ {p} : call'[q] = others[q])
        /\ call' \in [Procs -> CallRecord]
    BY Zenon, <1>1, <1>4 DEF CallRecord, Idle
  <2>2. CallsInv'
    BY <1>2, <1>4, <2>1 DEF CallsInv, RequestsInv, TypeOK, Procs, Idle, StartPcs
  <2>3. Moves(p)
    BY <1>2, <1>4, <2>1 DEF Moves, LocksInv, StopPcs, LockPcs, NoSchedPcs, Idle
  <2>4. LifecycleInv' /\ OneLifecycleActs'
    BY Zenon, <1>2, <1>4, <2>1, TameStep DEF Tame, Idle
  <2> QED BY Zenon, <1>4, <2>2, <2>3, <2>4, Assembled
<1> QED BY Zenon, <1>3, <1>4 DEF StopAdmitted, others

\* Where stop() leaves its caller.
LEMMA AfterStopCall ==
    ASSUME RunnerInv, NEW p \in Procs, call[p].pc # "idle"
    PROVE  \A c \in {AfterStop(call[p]), Idle} :
             /\ c \in CallRecord
             /\ c = Idle \/ (c.op = call[p].op /\ c.op # "none" /\ c.pc = "drain")
<1> call[p] \in CallRecord /\ call[p].op # "none"
  BY Zenon DEF RunnerInv, TypeOK, RequestsInv
<1>1. Idle \in CallRecord
  BY Zenon DEF Idle, CallRecord
<1>2. [call[p] EXCEPT !.pc = "drain"] \in CallRecord
  BY Zenon DEF CallRecord
<1>3. [call[p] EXCEPT !.pc = "drain"].op = call[p].op /\ [call[p] EXCEPT !.pc = "drain"].pc = "drain"
  BY Zenon DEF CallRecord
<1>4. AfterStop(call[p]) \in {Idle, [call[p] EXCEPT !.pc = "drain"]}
  BY Zenon DEF AfterStop
<1> QED BY Zenon, <1>1, <1>2, <1>3, <1>4

\* A stop ends, and starts nothing.
LEMMA StopEnded ==
    ASSUME RunnerInv, NEW p \in Procs, UNCHANGED revoked, call[p].pc # "idle",
           NEW c \in {AfterStop(call[p]), Idle}, Proceeds(p, c), Tame,
           runner'.stopReq = IF call[p].pc \in StopPcs THEN runner.stopReq - 1 ELSE runner.stopReq,
           runner'.lock = IF call[p].pc \in LockPcs THEN Nobody ELSE runner.lock
    PROVE  RunnerInv'
<1>1. /\ CallsInv' /\ Moves(p)
      /\ call'[p].pc \in {"idle", "drain"} /\ \A q \in Procs \ {p} : call'[q] = call[q]
  BY Zenon, AfterStopCall, CallEnded
<1>2. LifecycleInv' /\ OneLifecycleActs'
  BY Zenon, <1>1, TameStep
<1> QED BY Zenon, <1>1, <1>2, Assembled DEF Tame

LEMMA PastTickLoopRunner ==
    ASSUME NEW r \in AnyRunner, r.startHook \notin Executing
    PROVE  \E h \in Hooks : /\ PastTickLoop(r) = [r EXCEPT !.startHook = "none", !.stopHook = h]
                            /\ PcPastTickLoop(r) = "stop_hook"
<1> DEFINE h == IF r.stopHook \in {"none", "failed"} THEN "created" ELSE r.stopHook
           s == [r EXCEPT !.startHook = "none"]
<1>1. h \in Hooks
  BY Zenon DEF AnyRunner, Hooks, Executing
<1>2. DropStartHook(r) = s
  BY Zenon, DroppedStartHook
<1>3. WithStopHook(s) = [r EXCEPT !.startHook = "none", !.stopHook = h]
  BY Zenon DEF WithStopHook, AnyRunner
<1> QED BY Zenon, <1>1, <1>2, <1>3 DEF PastTickLoop, PcPastTickLoop

\* stop() with the tick loop out of the way: it holds the lock, and either waits
\* for a start hook or has the stop hook run beside none.
LEMMA StopGoesOn ==
    ASSUME RunnerInv, NEW p \in Procs, UNCHANGED revoked,
           call[p].pc \in {"stop_lock", "stop_task", "stop_drain"}, runner.lock \in {p, Nobody},
           NEW r \in AnyRunner, r.lock = p, runner' = PastTickLoop(r),
           r = [runner EXCEPT !.running = r.running, !.lock = p],
           NEW c \in CallRecord, c.op = call[p].op, c.pc = PcPastTickLoop(r),
           ~c.owns => runner.task = "none", Proceeds(p, c)
    PROVE  RunnerInv'
<1> TypeOK /\ LocksInv /\ RequestsInv /\ LifecycleInv /\ OneLifecycleActs /\ runner \in AnyRunner
  BY Zenon, RunnerIsAny DEF RunnerInv
<1> call[p].op # "none" /\ Nobody \notin Procs
  BY Zenon, CallersAssumption DEF RequestsInv, Procs, Nobody, Rollback, Tick
<1> /\ r.cleanup = runner.cleanup /\ r.retired = runner.retired /\ r.orphan = runner.orphan
    /\ r.task = runner.task /\ r.startHook = runner.startHook /\ r.stopHook = runner.stopHook
    /\ r.stopFailed = runner.stopFailed /\ r.stopReq = runner.stopReq
  BY Zenon DEF AnyRunner
<1>1. c.pc \in {"stop_drain", "stop_hook"}
  BY Zenon DEF PcPastTickLoop
<1>2. /\ CallsInv'
      /\ call'[p] = c /\ \A q \in Procs \ {p} : call'[q] = call[q]
      /\ \A q \in Procs : schedLock' = q => call'[q].pc \notin NoSchedPcs
  BY Zenon, <1>1, Proceeded DEF NoSchedPcs, StartPcs
<1>3. \A q \in Procs \ {p} : call'[q].pc \notin LockPcs
  BY <1>2 DEF LocksInv
<1>4. ASSUME runner' \in AnyRunner, runner'.lock = p, runner'.stopReq = runner.stopReq
      PROVE  Moves(p)
  BY Zenon, <1>1, <1>2, <1>4 DEF Moves, StopPcs, LockPcs
<1>5. CASE r.startHook \in Executing
  <2>1. runner' = r /\ c.pc = "stop_drain"
    BY Zenon, <1>5 DEF PastTickLoop, PcPastTickLoop
  <2>2. LifecycleInv'
    BY ZenonT(30), <1>2, <1>3, <2>1 DEF LifecycleInv, LockPcs
  <2>3. OneLifecycleActs'
    BY Zenon, <2>1 DEF OneLifecycleActs
  <2> QED BY Zenon, <1>2, <1>4, <2>1, <2>2, <2>3, Assembled
<1>6. CASE r.startHook \notin Executing
  <2> PICK h \in Hooks : /\ runner' = [r EXCEPT !.startHook = "none", !.stopHook = h]
                         /\ c.pc = "stop_hook"
    BY Zenon, <1>6, PastTickLoopRunner
  <2>1. /\ runner' \in AnyRunner /\ runner'.lock = p /\ runner'.stopReq = runner.stopReq
        /\ runner'.task = r.task /\ runner'.cleanup = r.cleanup /\ runner'.startHook = "none"
        /\ runner'.retired = r.retired /\ runner'.orphan = r.orphan
    BY ZenonT(30) DEF AnyRunner, Hooks
  <2>2. LifecycleInv'
    BY <1>2, <1>3, <2>1 DEF LifecycleInv, LockPcs, Executing
  <2>3. OneLifecycleActs'
    BY Zenon, <2>1 DEF OneLifecycleActs, Executing
  <2> QED BY Zenon, <1>2, <1>4, <2>1, <2>2, <2>3, Assembled
<1> QED BY Zenon, <1>5, <1>6

LEMMA StopLockedStep ==
    ASSUME RunnerInv, NEW p \in Procs, StopLocked(p)
    PROVE  RunnerInv'
<1> TypeOK /\ LocksInv /\ RequestsInv /\ LifecycleInv /\ OneLifecycleActs /\ runner \in AnyRunner
  BY Zenon, RunnerIsAny DEF RunnerInv
<1> DEFINE r == [runner EXCEPT !.running = FALSE, !.lock = p]
<1> call[p] \in CallRecord /\ call[p].pc = "stop_lock" /\ runner.lock = Nobody /\ UNCHANGED revoked
  BY Zenon DEF StopLocked, TypeOK
<1> call[p].op # "none"
  BY Zenon DEF RequestsInv
<1>1. CASE /\ runner' = [runner EXCEPT !.stopReq = @ - 1]
           /\ Proceeds(p, AfterStop(call[p]))
  <2> runner.stopReq - 1 \in Int /\ runner' = [runner EXCEPT !.stopReq = runner.stopReq - 1]
    BY <1>1 DEF AnyRunner
  <2>1. Tame /\ runner'.lock = runner.lock /\ runner'.stopReq = runner.stopReq - 1
    BY Zenon DEF Tame, AnyRunner
  <2> QED BY Zenon, <1>1, <2>1, StopEnded DEF StopPcs, LockPcs
<1>2. CASE /\ runner' = [r EXCEPT !.cancel = TRUE]
           /\ Proceeds(p, [call[p] EXCEPT !.pc = "stop_task"])
  <2> DEFINE c == [call[p] EXCEPT !.pc = "stop_task"]
  <2> c \in CallRecord /\ c.op = call[p].op /\ c.pc = "stop_task" /\ c.pc \notin NoSchedPcs
    BY Zenon DEF NoSchedPcs, CallRecord, StopPcs
  <2> HIDE DEF c
  <2>1. /\ CallsInv'
        /\ call'[p] = c /\ \A q \in Procs \ {p} : call'[q] = call[q]
        /\ \A q \in Procs : schedLock' = q => call'[q].pc \notin NoSchedPcs
    BY Zenon, <1>2, Proceeded DEF c, StartPcs
  <2>2. runner' \in AnyRunner /\ runner'.lock = p /\ runner'.stopReq = runner.stopReq
    BY Zenon, <1>2 DEF AnyRunner
  <2>3. Moves(p)
    BY Zenon, <2>1, <2>2 DEF Moves, StopPcs, LockPcs
  <2>4. /\ runner'.task = runner.task /\ runner'.cleanup = runner.cleanup
        /\ runner'.startHook = runner.startHook /\ runner'.stopHook = runner.stopHook
        /\ runner'.retired = runner.retired /\ runner'.orphan = runner.orphan
        /\ runner'.stopFailed = runner.stopFailed
    BY Zenon, <1>2 DEF AnyRunner
  <2>5. p # Nobody
    BY Zenon, CallersAssumption DEF Procs, Nobody, Rollback, Tick
  <2>6. LifecycleInv'
    BY ZenonT(30), <2>1, <2>2, <2>4, <2>5 DEF LifecycleInv
  <2>7. OneLifecycleActs'
    BY Zenon, <2>4 DEF OneLifecycleActs
  <2> QED BY Zenon, <2>1, <2>2, <2>3, <2>6, <2>7, Assembled
<1>3. CASE /\ ~(r.task \in LoopAlive /\ ~call[p].lease)
           /\ runner' = PastTickLoop(r)
           /\ Proceeds(p, [call[p] EXCEPT !.pc = PcPastTickLoop(r), !.owns = call[p].lease])
  <2> DEFINE c == [call[p] EXCEPT !.pc = PcPastTickLoop(r), !.owns = call[p].lease]
  <2>1. PcPastTickLoop(r) \in StopPcs
    BY Zenon DEF PcPastTickLoop, StopPcs
  <2>2. /\ r \in AnyRunner /\ r.lock = p /\ r.task = runner.task
        /\ r = [runner EXCEPT !.running = r.running, !.lock = p]
    BY Zenon DEF AnyRunner
  <2>3. c \in CallRecord /\ c.op = call[p].op /\ c.pc = PcPastTickLoop(r) /\ c.owns = call[p].lease
    BY Zenon, <2>1 DEF CallRecord
  <2>4. ~call[p].lease => runner.task = "none"
    BY Zenon, <1>3, <2>2 DEF AnyRunner
  <2> HIDE DEF c, r
  <2> QED BY Zenon, <1>3, <2>2, <2>3, <2>4, StopGoesOn DEF c
<1> QED BY Zenon, <1>1, <1>2, <1>3 DEF StopLocked

LEMMA StopContinuesStep ==
    ASSUME RunnerInv, NEW p \in Procs, StopContinues(p)
    PROVE  RunnerInv'
<1> TypeOK /\ LocksInv /\ RequestsInv /\ LifecycleInv /\ runner \in AnyRunner
  BY Zenon, RunnerIsAny DEF RunnerInv
<1> DEFINE c == [call[p] EXCEPT !.pc = PcPastTickLoop(runner)]
<1>1. /\ call[p] \in CallRecord /\ call[p].pc \in {"stop_task", "stop_drain"} /\ UNCHANGED revoked
      /\ runner' = PastTickLoop(runner) /\ Proceeds(p, c)
      /\ call[p].pc = "stop_task" => runner.task \notin LoopAlive
  BY Zenon DEF StopContinues, TypeOK
<1>2. runner.lock = p /\ (~call[p].owns => runner.task = "none")
  BY Zenon, <1>1 DEF LocksInv, LockPcs, LifecycleInv, AnyRunner
<1>3. PcPastTickLoop(runner) \in StopPcs
  BY Zenon DEF PcPastTickLoop, StopPcs
<1>4. c \in CallRecord /\ c.op = call[p].op /\ c.pc = PcPastTickLoop(runner) /\ c.owns = call[p].owns
  BY Zenon, <1>1, <1>3 DEF CallRecord
<1>5. runner = [runner EXCEPT !.running = runner.running, !.lock = p]
  BY Zenon, <1>2 DEF AnyRunner
<1> HIDE DEF c
<1> QED BY Zenon, <1>1, <1>2, <1>4, <1>5, StopGoesOn

LEMMA StopCompletesStep ==
    ASSUME RunnerInv, NEW p \in Procs, StopCompletes(p)
    PROVE  RunnerInv'
<1> TypeOK /\ LocksInv /\ RequestsInv /\ LifecycleInv /\ OneLifecycleActs /\ runner \in AnyRunner
  BY Zenon, RunnerIsAny DEF RunnerInv
<1> DEFINE handoff == call[p].owns /\ runner.task \in LoopAlive
           r == IF handoff THEN runner ELSE DropStopHook(runner)
<1>1. /\ call[p].pc = "stop_hook" /\ runner.stopHook = "ok" /\ UNCHANGED revoked
      /\ Proceeds(p, AfterStop(call[p]))
      /\ runner' = Unlocked([r EXCEPT !.cleanup = handoff, !.quarantined = FALSE,
                                      !.stopFailed = FALSE, !.stopReq = @ - 1])
  BY Zenon DEF StopCompletes
<1>2. handoff \in BOOLEAN /\ (runner.task # "none" => handoff)
  BY Zenon, <1>1 DEF LifecycleInv, AnyRunner
<1>3. PICK h \in Hooks \ Executing : r = [runner EXCEPT !.stopHook = h]
  <2>1. DropStopHook(runner) = [runner EXCEPT !.stopHook = "none"]
    BY Zenon, <1>1, DroppedStopHook DEF Executing
  <2>2. runner = [runner EXCEPT !.stopHook = "ok"]
    BY Zenon, <1>1 DEF AnyRunner
  <2> QED BY Zenon, <2>1, <2>2 DEF Hooks, Executing
<1> HIDE DEF handoff, r
<1>4. /\ runner.stopReq - 1 \in Int
      /\ runner' = [runner EXCEPT !.stopHook = h, !.cleanup = handoff, !.quarantined = FALSE,
                     !.stopFailed = FALSE, !.stopReq = runner.stopReq - 1, !.lock = Nobody]
  BY <1>1, <1>3 DEF Unlocked, AnyRunner
<1>5. /\ runner' \in AnyRunner /\ runner'.lock = Nobody /\ runner'.stopReq = runner.stopReq - 1
      /\ runner'.task = runner.task /\ runner'.cleanup = handoff /\ runner'.stopHook = h
      /\ runner'.startHook = runner.startHook /\ runner'.retired = runner.retired
      /\ runner'.orphan = runner.orphan
  BY Zenon, <1>2, <1>4 DEF AnyRunner
<1>6. /\ CallsInv' /\ Moves(p)
      /\ call'[p].pc \in {"idle", "drain"} /\ \A q \in Procs \ {p} : call'[q] = call[q]
  BY Zenon, <1>1, <1>5, AfterStopCall, CallEnded DEF StopPcs, LockPcs
<1>7. \A q \in Procs : call'[q].pc \notin LockPcs
  BY Zenon, <1>1, <1>6 DEF LocksInv, LockPcs
<1>8. LifecycleInv'
  BY Zenon, <1>1, <1>2, <1>5, <1>7 DEF LifecycleInv, LockPcs
<1>9. OneLifecycleActs'
  BY Zenon, <1>5 DEF OneLifecycleActs
<1> QED BY Zenon, <1>5, <1>6, <1>8, <1>9, Assembled

\* stop() fails in a wait under the lock, with what it waited for cancelled.
LEMMA FailedStop ==
    ASSUME RunnerInv, NEW g \in Cancelled(runner.startHook) \cup {runner.startHook},
           NEW h \in Cancelled(runner.stopHook) \cup {runner.stopHook}, NEW b \in BOOLEAN,
           runner' = StopFails([runner EXCEPT !.startHook = g, !.stopHook = h, !.cancel = b])
    PROVE  Tame /\ runner'.lock = Nobody /\ runner'.stopReq = runner.stopReq - 1
<1> runner \in AnyRunner /\ runner.startHook \in Hooks /\ runner.stopHook \in Hooks
  BY Zenon, RunnerIsAny DEF RunnerInv, AnyRunner
<1> /\ g \in Hooks /\ (g \in Executing => runner.startHook \in Executing)
    /\ (runner.startHook = "none" => g = "none")
  BY Zenon, CancelledHook
<1> h \in Hooks /\ (h \in Executing => runner.stopHook \in Executing)
  BY Zenon, CancelledHook
<1> /\ runner.stopReq - 1 \in Int
    /\ runner' = [runner EXCEPT !.startHook = g, !.stopHook = h, !.cancel = b,
                   !.stopFailed = TRUE, !.stopReq = runner.stopReq - 1, !.lock = Nobody]
  BY DEF StopFails, Unlocked, AnyRunner
<1> runner' \in AnyRunner
  BY Zenon DEF AnyRunner
<1> QED BY ZenonT(30) DEF Tame, AnyRunner

LEMMA StopHookFailsStep ==
    ASSUME RunnerInv, NEW p \in Procs, StopHookFails(p)
    PROVE  RunnerInv'
<1> /\ call[p].pc = "stop_hook" /\ UNCHANGED revoked /\ Proceeds(p, AfterStop(call[p]))
    /\ runner' = StopFails(runner) /\ runner \in AnyRunner
  BY Zenon, RunnerIsAny DEF StopHookFails, RunnerInv
<1> PICK b \in BOOLEAN : runner' =
      StopFails([runner EXCEPT !.startHook = runner.startHook, !.stopHook = runner.stopHook,
                               !.cancel = b])
  BY Zenon DEF AnyRunner
<1>1. Tame /\ runner'.lock = Nobody /\ runner'.stopReq = runner.stopReq - 1
  BY Zenon, FailedStop
<1> QED BY Zenon, <1>1, StopEnded DEF StopPcs, LockPcs

LEMMA StopTimesOutStep ==
    ASSUME RunnerInv, NEW p \in Procs, StopTimesOut(p)
    PROVE  RunnerInv'
<1> runner \in AnyRunner /\ UNCHANGED revoked /\ Proceeds(p, AfterStop(call[p]))
  BY Zenon, RunnerIsAny DEF StopTimesOut, RunnerInv
<1>1. CASE /\ call[p].pc = "stop_lock"
           /\ runner' = [runner EXCEPT !.stopFailed = TRUE, !.stopReq = @ - 1]
  <2> /\ runner.stopReq - 1 \in Int
      /\ runner' = [runner EXCEPT !.stopFailed = TRUE, !.stopReq = runner.stopReq - 1]
    BY <1>1 DEF AnyRunner
  <2>1. Tame /\ runner'.lock = runner.lock /\ runner'.stopReq = runner.stopReq - 1
    BY Zenon DEF Tame, AnyRunner
  <2> QED BY Zenon, <1>1, <2>1, StopEnded DEF StopPcs, LockPcs
<1>2. ASSUME call[p].pc \in {"stop_task", "stop_drain", "stop_hook"},
             NEW g \in Cancelled(runner.startHook) \cup {runner.startHook},
             NEW h \in Cancelled(runner.stopHook) \cup {runner.stopHook}, NEW b \in BOOLEAN,
             runner' = StopFails([runner EXCEPT !.startHook = g, !.stopHook = h, !.cancel = b])
      PROVE  RunnerInv'
  BY Zenon, <1>2, FailedStop, StopEnded DEF StopPcs, LockPcs
<1>3. CASE call[p].pc = "stop_task" /\ runner' = StopFails([runner EXCEPT !.cancel = TRUE])
  <2> [runner EXCEPT !.cancel = TRUE] =
        [runner EXCEPT !.startHook = runner.startHook, !.stopHook = runner.stopHook, !.cancel = TRUE]
    BY Zenon DEF AnyRunner
  <2> QED BY Zenon, <1>2, <1>3
<1>4. CASE /\ call[p].pc = "stop_drain"
           /\ \E h \in Cancelled(runner.startHook) :
                runner' = StopFails([runner EXCEPT !.startHook = h])
  <2> PICK h \in Cancelled(runner.startHook) : runner' = StopFails([runner EXCEPT !.startHook = h])
    BY Zenon, <1>4
  <2> PICK b \in BOOLEAN : runner' =
        StopFails([runner EXCEPT !.startHook = h, !.stopHook = runner.stopHook, !.cancel = b])
    BY Zenon DEF AnyRunner
  <2> QED BY Zenon, <1>2, <1>4
<1>5. CASE /\ call[p].pc = "stop_hook"
           /\ \E h \in Cancelled(runner.stopHook) :
                runner' = StopFails([runner EXCEPT !.stopHook = h])
  <2> PICK h \in Cancelled(runner.stopHook) : runner' = StopFails([runner EXCEPT !.stopHook = h])
    BY Zenon, <1>5
  <2> PICK b \in BOOLEAN : runner' =
        StopFails([runner EXCEPT !.startHook = runner.startHook, !.stopHook = h, !.cancel = b])
    BY Zenon DEF AnyRunner
  <2> QED BY Zenon, <1>2, <1>5
<1> QED BY Zenon, <1>1, <1>3, <1>4, <1>5 DEF StopTimesOut

(***************************************************************************)
(* Draining.                                                                *)
(***************************************************************************)
LEMMA DrainTriesStep ==
    ASSUME RunnerInv, NEW p \in Procs, DrainTries(p)
    PROVE  RunnerInv'
<1> TypeOK /\ RequestsInv
  BY Zenon DEF RunnerInv
<1> /\ call[p].pc = "drain" /\ runner' \in Announced /\ UNCHANGED <<schedLock, revoked>>
    /\ call' = [call EXCEPT ![p].pc = "stop_lock"]
  BY Zenon DEF DrainTries
<1>1. /\ call'[p] = [call[p] EXCEPT !.pc = "stop_lock"]
      /\ \A q \in Procs \ {p} : call'[q] = call[q]
      /\ call' \in [Procs -> CallRecord]
  BY DEF TypeOK, CallRecord, StopPcs
<1>2. call'[p].pc = "stop_lock" /\ call'[p].op = call[p].op /\ call[p].op # "none"
  BY <1>1 DEF TypeOK, CallRecord, RequestsInv
<1> QED BY Zenon, <1>1, <1>2, StopEntered

\* A stop is cancelled wherever it waits, and the runner quarantined or not.
LEMMA CancelledStop ==
    ASSUME RunnerInv, NEW p \in Procs, call[p].pc \in StopPcs
    PROVE  LET r == StopCancelled(call[p].pc, runner) IN
           /\ r \in AnyRunner
           /\ r.lock = IF call[p].pc \in LockPcs THEN Nobody ELSE runner.lock
           /\ r.stopReq = runner.stopReq - 1
           /\ r.stopFailed \in {TRUE, runner.stopFailed}
           /\ r.lock = runner.lock \/ r.stopFailed
           /\ r.task = runner.task /\ r.cleanup = runner.cleanup /\ r.retired = runner.retired
           /\ r.orphan = runner.orphan /\ r.startHook = runner.startHook
           /\ r.stopHook = runner.stopHook
<1> runner \in AnyRunner /\ runner.stopReq - 1 \in Int
  BY RunnerIsAny DEF RunnerInv, AnyRunner
<1>1. CASE call[p].pc = "stop_lock"
  <2> StopCancelled(call[p].pc, runner) = [runner EXCEPT !.stopReq = runner.stopReq - 1]
    BY Zenon, <1>1 DEF StopCancelled
  <2> QED BY Zenon, <1>1 DEF AnyRunner, LockPcs
<1>2. CASE call[p].pc # "stop_lock"
  <2> StopCancelled(call[p].pc, runner) =
        [runner EXCEPT !.stopFailed = TRUE, !.stopReq = runner.stopReq - 1, !.lock = Nobody]
    BY Zenon, <1>2 DEF StopCancelled, StopFails, Unlocked, AnyRunner
  <2> QED BY ZenonT(30), <1>2 DEF AnyRunner, LockPcs, StopPcs
<1> QED BY Zenon, <1>1, <1>2

LEMMA DrainExpiresStep ==
    ASSUME RunnerInv, NEW p \in Procs, DrainExpires(p)
    PROVE  RunnerInv'
<1> DEFINE r == StopCancelled(call[p].pc, runner)
<1>1. /\ call[p].pc \in StopPcs /\ UNCHANGED revoked /\ Proceeds(p, Idle)
      /\ runner' \in {r, [r EXCEPT !.quarantined = TRUE]}
  BY Zenon DEF DrainExpires
<1>2. /\ r \in AnyRunner
      /\ r.lock = IF call[p].pc \in LockPcs THEN Nobody ELSE runner.lock
      /\ r.stopReq = runner.stopReq - 1
      /\ r.stopFailed \in {TRUE, runner.stopFailed}
      /\ r.lock = runner.lock \/ r.stopFailed
      /\ r.task = runner.task /\ r.cleanup = runner.cleanup /\ r.retired = runner.retired
      /\ r.orphan = runner.orphan /\ r.startHook = runner.startHook
      /\ r.stopHook = runner.stopHook
  BY Zenon, <1>1, CancelledStop
<1> HIDE DEF r
<1>3. Tame /\ runner'.lock = r.lock /\ runner'.stopReq = r.stopReq
  BY Zenon, <1>1, <1>2 DEF Tame, AnyRunner
<1>4. call[p].pc # "idle"
  BY Zenon, <1>1 DEF StopPcs
<1> QED BY Zenon, <1>1, <1>2, <1>3, <1>4, StopEnded

LEMMA DrainEndsStep ==
    ASSUME RunnerInv, NEW p \in Procs, DrainGivesUp(p) \/ DrainEnds(p)
    PROVE  RunnerInv'
<1> /\ call[p].pc = "drain" /\ UNCHANGED revoked /\ Proceeds(p, Idle) /\ runner \in AnyRunner
    /\ runner' \in {runner, [runner EXCEPT !.quarantined = TRUE]}
  BY Zenon, RunnerIsAny DEF DrainGivesUp, DrainEnds, RunnerInv
<1>1. Tame /\ runner'.lock = runner.lock /\ runner'.stopReq = runner.stopReq
  BY Zenon DEF Tame, AnyRunner
<1> QED BY Zenon, <1>1, StopEnded DEF StopPcs, LockPcs

(***************************************************************************)
(* The tick loop.                                                           *)
(***************************************************************************)
\* A loop that ends leaves cleanup_required behind, unless it leaves nothing.
LEMMA LoopEnded ==
    ASSUME RunnerInv, runner.task # "none", NEW r \in AnyRunner, runner' = LoopExit(r),
           r.startHook = runner.startHook, r.cleanup, r.retired = runner.retired,
           r.orphan = runner.orphan,
           \A q \in Procs : call'[q].pc = "start_hook" => call[q].pc = "start_hook"
    PROVE  /\ LifecycleInv' /\ OneLifecycleActs' /\ runner' \in AnyRunner
           /\ runner'.lock = r.lock /\ runner'.stopReq = r.stopReq
<1> LifecycleInv /\ OneLifecycleActs
  BY Zenon DEF RunnerInv
<1> DEFINE s == [r EXCEPT !.running = FALSE, !.cancel = FALSE, !.task = "none"]
<1> /\ s \in AnyRunner /\ s.task = "none" /\ s.startHook = r.startHook /\ s.stopHook = r.stopHook
    /\ s.cleanup = r.cleanup /\ s.retired = r.retired /\ s.orphan = r.orphan
    /\ s.lock = r.lock /\ s.stopReq = r.stopReq
  BY Zenon DEF AnyRunner, LoopAlive
<1>1. \/ LoopExit(r) = s
      \/ /\ r.startHook = "none" /\ r.stopHook \notin Executing
         /\ LoopExit(r) = [s EXCEPT !.stopHook = "none", !.cleanup = FALSE]
  BY Zenon, LoopExited
<1> HIDE DEF s
<1>2. /\ runner' \in AnyRunner /\ runner'.lock = r.lock /\ runner'.stopReq = r.stopReq
      /\ runner'.task = "none" /\ runner'.startHook = runner.startHook
      /\ runner'.retired = runner.retired /\ runner'.orphan = runner.orphan
      /\ runner'.cleanup \/ (runner'.startHook = "none" /\ runner'.stopHook = "none")
  <2>1. CASE runner' = s
    BY Zenon, <2>1
  <2>2. CASE /\ r.startHook = "none"
             /\ runner' = [s EXCEPT !.stopHook = "none", !.cleanup = FALSE]
    <3>1. runner' \in AnyRunner
      BY ZenonT(30), <2>2 DEF AnyRunner, Hooks
    <3>2. /\ runner'.lock = s.lock /\ runner'.stopReq = s.stopReq /\ runner'.task = s.task
          /\ runner'.startHook = s.startHook /\ runner'.retired = s.retired
          /\ runner'.orphan = s.orphan /\ runner'.stopHook = "none"
      BY Zenon, <2>2 DEF AnyRunner
    <3> QED BY Zenon, <2>2, <3>1, <3>2
  <2> QED BY Zenon, <1>1, <2>1, <2>2
<1>3. runner.startHook \notin Executing
  BY Zenon DEF OneLifecycleActs
<1>4. LifecycleInv'
  BY Zenon, <1>2, <1>3 DEF LifecycleInv, Executing
<1>5. OneLifecycleActs'
  BY Zenon, <1>2, <1>3 DEF OneLifecycleActs
<1> QED BY Zenon, <1>2, <1>4, <1>5

LEMMA LeaseEnds ==
    ASSUME RunnerInv, CallbackEnds
    PROVE  /\ call' \in [Procs -> CallRecord]
           /\ \A q \in Procs : /\ call'[q].pc = call[q].pc /\ call'[q].op = call[q].op
                               /\ call'[q].owns = call[q].owns
<1> call \in [Procs -> CallRecord] /\ Tick \in Procs
  BY Zenon DEF RunnerInv, TypeOK, Procs
<1>1. /\ call'[Tick] = [call[Tick] EXCEPT !.lease = FALSE]
      /\ \A q \in Procs \ {Tick} : call'[q] = call[q]
      /\ call' \in [Procs -> CallRecord]
  BY ZenonT(30) DEF CallbackEnds, CallRecord
<1>2. /\ call'[Tick].pc = call[Tick].pc /\ call'[Tick].op = call[Tick].op
      /\ call'[Tick].owns = call[Tick].owns
  BY <1>1 DEF CallRecord
<1> QED BY Zenon, <1>1, <1>2

\* The loop ends by itself, and no call gets anywhere.
LEMMA LoopEnds ==
    ASSUME RunnerInv, runner.task # "none", NEW r \in AnyRunner, runner' = LoopExit(r),
           r.startHook = runner.startHook, r.cleanup, r.retired = runner.retired,
           r.orphan = runner.orphan, r.lock = runner.lock, r.stopReq = runner.stopReq,
           UNCHANGED <<schedLock, revoked>>, UNCHANGED call \/ CallbackEnds
    PROVE  RunnerInv'
<1>1. /\ call' \in [Procs -> CallRecord]
      /\ \A q \in Procs : /\ call'[q].pc = call[q].pc /\ call'[q].op = call[q].op
                          /\ call'[q].owns = call[q].owns
  BY Zenon, LeaseEnds DEF RunnerInv, TypeOK
<1>2. /\ LifecycleInv' /\ OneLifecycleActs' /\ runner' \in AnyRunner
      /\ runner'.lock = r.lock /\ runner'.stopReq = r.stopReq
  BY Zenon, <1>1, LoopEnded
<1>3. CallsInv' /\ Moves(Tick)
  BY Zenon, <1>1, <1>2, CallsKept
<1> QED BY Zenon, <1>2, <1>3, Assembled DEF Procs

\* A step of the loop, of a hook or of the strategy that starts nothing.
LEMMA TameLoopStep ==
    ASSUME RunnerInv, Tame, runner'.lock = runner.lock, runner'.stopReq = runner.stopReq,
           UNCHANGED <<schedLock, revoked>>, UNCHANGED call \/ CallbackEnds
    PROVE  RunnerInv'
<1>1. /\ call' \in [Procs -> CallRecord]
      /\ \A q \in Procs : /\ call'[q].pc = call[q].pc /\ call'[q].op = call[q].op
                          /\ call'[q].owns = call[q].owns
  BY Zenon, LeaseEnds DEF RunnerInv, TypeOK
<1>2. CallsInv' /\ Moves(Tick)
  BY Zenon, <1>1, CallsKept
<1>3. LifecycleInv' /\ OneLifecycleActs'
  BY Zenon, <1>1, TameStep
<1> QED BY Zenon, <1>2, <1>3, Assembled DEF Procs, Tame

LEMMA LoopStep ==
    ASSUME RunnerInv, LoopTicks \/ LoopLeaves \/ TickReturns \/ TickRaises
    PROVE  RunnerInv'
<1> runner \in AnyRunner /\ LifecycleInv
  BY Zenon, RunnerIsAny DEF RunnerInv
<1> /\ runner.task \in {"idle", "on_tick"} /\ UNCHANGED <<schedLock, revoked>>
    /\ UNCHANGED call \/ CallbackEnds
  BY Zenon DEF LoopTicks, LoopLeaves, TickReturns, TickRaises
<1> runner.cleanup
  BY Zenon DEF LifecycleInv
<1>1. ASSUME NEW where \in LoopAlive, runner' = [runner EXCEPT !.task = where]
      PROVE  RunnerInv'
  <2>1. Tame /\ runner'.lock = runner.lock /\ runner'.stopReq = runner.stopReq
    BY Zenon, <1>1 DEF Tame, AnyRunner, LoopAlive, InCallback
  <2> QED BY Zenon, <2>1, TameLoopStep
<1>2. CASE runner' = LoopExit(runner)
  BY Zenon, <1>2, LoopEnds
<1>3. CASE runner' = LoopExit([runner EXCEPT !.state = "ERROR"])
  <2> DEFINE r == [runner EXCEPT !.state = "ERROR"]
  <2>1. /\ r \in AnyRunner /\ r.startHook = runner.startHook /\ r.cleanup = runner.cleanup
        /\ r.retired = runner.retired /\ r.orphan = runner.orphan /\ r.lock = runner.lock
        /\ r.stopReq = runner.stopReq
    BY Zenon DEF AnyRunner, States
  <2> HIDE DEF r
  <2> QED BY Zenon, <1>3, <2>1, LoopEnds DEF r
<1>4. "idle" \in LoopAlive /\ InCallback \subseteq LoopAlive
  BY Zenon DEF LoopAlive
<1> QED BY Zenon, <1>1, <1>2, <1>3, <1>4 DEF LoopTicks, LoopLeaves, TickReturns, TickRaises

LEMMA SquareOffStep ==
    ASSUME RunnerInv, SquareOff
    PROVE  RunnerInv'
<1> LifecycleInv /\ OneLifecycleActs /\ runner \in AnyRunner
  BY Zenon, RunnerIsAny DEF RunnerInv
<1> runner.task = "on_square_off" /\ UNCHANGED <<schedLock, revoked>> /\ CallbackEnds
  BY Zenon DEF SquareOff
<1> runner.cleanup /\ runner.startHook \notin Executing /\ ~runner.retired
  BY Zenon DEF LifecycleInv, OneLifecycleActs
<1> PICK h \in Hooks : runner' = [runner EXCEPT !.running = FALSE, !.cleanup = TRUE,
                                                !.task = "square_off", !.stopHook = h]
  <2> DEFINE h == IF runner.stopHook \in {"none", "failed"} THEN "created" ELSE runner.stopHook
  <2>1. h \in Hooks
    BY Zenon DEF AnyRunner, Hooks, Executing
  <2>2. runner' = [runner EXCEPT !.running = FALSE, !.cleanup = TRUE,
                                 !.task = "square_off", !.stopHook = h]
    BY Zenon DEF SquareOff, WithStopHook, AnyRunner
  <2> HIDE DEF h
  <2> QED BY Zenon, <2>1, <2>2
<1>1. /\ runner' \in AnyRunner /\ runner'.lock = runner.lock /\ runner'.stopReq = runner.stopReq
      /\ runner'.task = "square_off" /\ runner'.cleanup /\ runner'.startHook = runner.startHook
      /\ runner'.retired = runner.retired /\ runner'.orphan = runner.orphan
  BY Zenon DEF AnyRunner, LoopAlive
<1>2. /\ call' \in [Procs -> CallRecord]
      /\ \A q \in Procs : /\ call'[q].pc = call[q].pc /\ call'[q].op = call[q].op
                          /\ call'[q].owns = call[q].owns
  BY Zenon, LeaseEnds
<1>3. CallsInv' /\ Moves(Tick)
  BY Zenon, <1>1, <1>2, CallsKept
<1>4. LifecycleInv'
  BY Zenon, <1>1, <1>2 DEF LifecycleInv
<1>5. OneLifecycleActs'
  BY Zenon, <1>1 DEF OneLifecycleActs
<1> QED BY Zenon, <1>1, <1>3, <1>4, <1>5, Assembled DEF Procs

LEMMA SquareOffEndsStep ==
    ASSUME RunnerInv, SquareOffEnds \/ SquareOffFails \/ SquareOffInterrupted
    PROVE  RunnerInv'
<1> runner \in AnyRunner /\ LifecycleInv
  BY Zenon, RunnerIsAny DEF RunnerInv
<1> runner.task = "square_off" /\ UNCHANGED <<schedLock, call, revoked>>
  BY Zenon DEF SquareOffEnds, SquareOffFails, SquareOffInterrupted
<1> runner.cleanup
  BY Zenon DEF LifecycleInv
<1>1. ASSUME NEW r \in AnyRunner, runner' = LoopExit(r), r.startHook = runner.startHook,
             r.cleanup, r.retired = runner.retired, r.orphan = runner.orphan,
             r.lock = runner.lock, r.stopReq = runner.stopReq
      PROVE  RunnerInv'
  BY Zenon, <1>1, LoopEnds
<1>2. CASE SquareOffEnds
  <2> DEFINE r == [runner EXCEPT !.cleanup = TRUE, !.quarantined = FALSE, !.stopFailed = FALSE]
  <2>1. /\ r \in AnyRunner /\ r.startHook = runner.startHook /\ r.cleanup
        /\ r.retired = runner.retired /\ r.orphan = runner.orphan /\ r.lock = runner.lock
        /\ r.stopReq = runner.stopReq
    BY Zenon DEF AnyRunner
  <2>2. runner' = LoopExit(r)
    BY Zenon, <1>2 DEF SquareOffEnds
  <2> HIDE DEF r
  <2> QED BY Zenon, <1>1, <2>1, <2>2
<1>3. CASE SquareOffFails
  <2> PICK h \in Cancelled(runner.stopHook) :
        runner' = LoopExit([runner EXCEPT !.stopHook = h, !.stopFailed = TRUE, !.state = "ERROR"])
    BY Zenon, <1>3 DEF SquareOffFails
  <2> DEFINE r == [runner EXCEPT !.stopHook = h, !.stopFailed = TRUE, !.state = "ERROR"]
  <2> h \in Hooks
    BY Zenon, CancelledHook DEF AnyRunner
  <2>1. /\ r \in AnyRunner /\ r.startHook = runner.startHook /\ r.cleanup = runner.cleanup
        /\ r.retired = runner.retired /\ r.orphan = runner.orphan /\ r.lock = runner.lock
        /\ r.stopReq = runner.stopReq
    BY Zenon DEF AnyRunner, States
  <2> HIDE DEF r
  <2> QED BY Zenon, <1>1, <2>1 DEF r
<1>4. CASE SquareOffInterrupted
  BY Zenon, <1>1, <1>4 DEF SquareOffInterrupted
<1> QED BY Zenon, <1>2, <1>3, <1>4

\* A cancelled loop takes the stop its callback awaits along, and only that.
LEMMA LoopCancelledStep ==
    ASSUME RunnerInv, LoopCancelled
    PROVE  RunnerInv'
<1> TypeOK /\ LocksInv /\ RequestsInv /\ LifecycleInv /\ runner \in AnyRunner
  BY Zenon, RunnerIsAny DEF RunnerInv
<1> DEFINE c == call[Tick]
           r == IF Awaiting /\ c.pc \in StopPcs THEN StopCancelled(c.pc, runner) ELSE runner
<1> UNCHANGED revoked /\ runner.task \in LoopAlive /\ c \in CallRecord /\ Tick \in Procs
  BY Zenon DEF LoopCancelled, TypeOK, Procs
<1> runner.task # "none"
  BY Zenon DEF LoopAlive, InCallback
<1> runner.cleanup
  BY Zenon DEF LifecycleInv
<1>1. /\ r \in AnyRunner
      /\ r.stopFailed \in {TRUE, runner.stopFailed} /\ (r.lock = runner.lock \/ r.stopFailed)
      /\ r.task = runner.task /\ r.cleanup = runner.cleanup /\ r.retired = runner.retired
      /\ r.orphan = runner.orphan /\ r.startHook = runner.startHook
      /\ r.stopHook = runner.stopHook
  BY Zenon, CancelledStop
<1>2. /\ Awaiting => r.stopReq = IF c.pc \in StopPcs THEN runner.stopReq - 1 ELSE runner.stopReq
      /\ Awaiting => r.lock = IF c.pc \in LockPcs THEN Nobody ELSE runner.lock
      /\ ~Awaiting => r = runner
  BY Zenon, CancelledStop DEF RequestsInv, StartPcs, StopPcs, LockPcs
<1> HIDE DEF r
<1>3. ASSUME NEW d \in CallRecord, Proceeds(Tick, IF Awaiting THEN Idle ELSE d),
             d.pc = c.pc, d.op = c.op, d.owns = c.owns,
             runner'.lock = r.lock, runner'.stopReq = r.stopReq
      PROVE  /\ CallsInv' /\ Moves(Tick)
             /\ \A q \in Procs : call'[q].pc \notin {"idle", "drain"} =>
                                   call'[q].pc = call[q].pc /\ call'[q].owns = call[q].owns
  <2>1. CASE Awaiting
    <3> Idle \in CallRecord
      BY Zenon DEF Idle, CallRecord
    <3>1. /\ CallsInv' /\ Moves(Tick)
          /\ call'[Tick].pc \in {"idle", "drain"} /\ \A q \in Procs \ {Tick} : call'[q] = call[q]
      BY Zenon, <1>2, <1>3, <2>1, CallEnded
    <3> QED BY Zenon, <3>1
  <2>2. CASE ~Awaiting
    <3>1. call'[Tick] = d /\ (\A q \in Procs \ {Tick} : call'[q] = call[q])
          /\ call' \in [Procs -> CallRecord]
      BY Zenon, <1>3, <2>2 DEF Proceeds, TypeOK
    <3>2. UNCHANGED schedLock
      BY <1>3, <2>2 DEF Proceeds, LocksInv, NoSchedPcs, Idle
    <3>3. CallsInv' /\ Moves(Tick)
      BY Zenon, <1>2, <1>3, <2>2, <3>1, <3>2, CallsKept
    <3> QED BY Zenon, <1>3, <3>1, <3>3
  <2> QED BY Zenon, <2>1, <2>2
<1>4. CASE /\ runner' = LoopExit(r)
           /\ Proceeds(Tick, IF Awaiting THEN Idle ELSE [c EXCEPT !.lease = FALSE])
  <2> DEFINE d == [c EXCEPT !.lease = FALSE]
  <2>1. d \in CallRecord /\ d.pc = c.pc /\ d.op = c.op /\ d.owns = c.owns
    BY Zenon DEF CallRecord
  <2>2. \A q \in Procs : call'[q].pc = "start_hook" => call[q].pc = "start_hook"
    BY Zenon, <1>4, <2>1 DEF Proceeds, TypeOK, Idle
  <2> HIDE DEF d
  <2>3. /\ LifecycleInv' /\ OneLifecycleActs' /\ runner' \in AnyRunner
        /\ runner'.lock = r.lock /\ runner'.stopReq = r.stopReq
    BY Zenon, <1>1, <1>4, <2>2, LoopEnded
  <2>4. CallsInv' /\ Moves(Tick)
    BY Zenon, <1>3, <1>4, <2>1, <2>3 DEF d
  <2> QED BY Zenon, <2>3, <2>4, Assembled
<1>5. CASE /\ runner' = [r EXCEPT !.cancel = FALSE]
           /\ Proceeds(Tick, IF Awaiting THEN Idle ELSE c)
  <2>1. Tame /\ runner'.lock = r.lock /\ runner'.stopReq = r.stopReq
    BY Zenon, <1>1, <1>5 DEF Tame, AnyRunner
  <2>2. /\ CallsInv' /\ Moves(Tick)
        /\ \A q \in Procs : call'[q].pc \notin {"idle", "drain"} =>
                              call'[q].pc = call[q].pc /\ call'[q].owns = call[q].owns
    BY Zenon, <1>3, <1>5, <2>1
  <2>3. LifecycleInv' /\ OneLifecycleActs'
    BY Zenon, <2>1, <2>2, TameStep
  <2> QED BY Zenon, <2>1, <2>2, <2>3, Assembled DEF Tame
<1> QED BY Zenon, <1>4, <1>5 DEF LoopCancelled, r

LEMMA CallbackStopsStep ==
    ASSUME RunnerInv, CallbackStops
    PROVE  RunnerInv'
<1> TypeOK
  BY Zenon DEF RunnerInv
<1> call[Tick] = Idle /\ UNCHANGED <<schedLock, revoked>> /\ Tick \in Procs /\ Tick \notin revoked
  BY Zenon, CallersAssumption DEF CallbackStops, Procs, TypeOK
<1>1. \E d \in CallRecord :
        /\ call' = [call EXCEPT ![Tick] = d]
        /\ \/ runner' \in Announced /\ d.op = "self" /\ d.pc = "stop_lock"
           \/ UNCHANGED runner /\ d.op = "stop_all" /\ d.pc = "stop_sched"
  <2>1. ASSUME NEW awaited \in BOOLEAN, NEW o \in {"self", "stop_all"},
               NEW pc \in {"stop_lock", "stop_sched"}
        PROVE  LET c == [Idle EXCEPT !.lease = TRUE, !.awaited = awaited]
                   d == [c EXCEPT !.op = o, !.pc = pc] IN
               d \in CallRecord /\ d.op = o /\ d.pc = pc
    BY Zenon, <2>1 DEF Idle, CallRecord, StopPcs
  <2> QED BY Zenon, <2>1 DEF CallbackStops
<1>2. PICK d \in CallRecord :
        /\ call' = [call EXCEPT ![Tick] = d]
        /\ \/ runner' \in Announced /\ d.op = "self" /\ d.pc = "stop_lock"
           \/ UNCHANGED runner /\ d.op = "stop_all" /\ d.pc = "stop_sched"
  BY Zenon, <1>1
<1>3. CASE runner' \in Announced /\ d.op = "self" /\ d.pc = "stop_lock"
  <2>1. /\ call'[Tick] = d /\ (\A q \in Procs \ {Tick} : call'[q] = call[q])
        /\ call' \in [Procs -> CallRecord]
    BY Zenon, <1>2 DEF TypeOK
  <2>2. call[Tick].pc = "idle"
    BY DEF Idle
  <2> QED BY Zenon, <1>3, <2>1, <2>2, StopEntered
<1>4. CASE UNCHANGED runner /\ d.op = "stop_all" /\ d.pc = "stop_sched"
  BY Zenon, <1>2, <1>4, CallMade DEF Available, StartPcs
<1> QED BY Zenon, <1>2, <1>3, <1>4

(***************************************************************************)
(* Hook bodies, and the other writers of the strategy's state.              *)
(***************************************************************************)
LEMMA HookStep ==
    ASSUME RunnerInv, HookBegins \/ StartHookRuns \/ StopHookRuns
    PROVE  RunnerInv'
<1> runner \in AnyRunner /\ UNCHANGED <<schedLock, call, revoked>>
  BY Zenon, RunnerIsAny DEF RunnerInv, HookBegins, StartHookRuns, StopHookRuns
<1>1. ASSUME NEW h \in Hooks, NEW s \in States, runner.startHook \in Executing,
             runner' = [runner EXCEPT !.startHook = h, !.state = s]
      PROVE  RunnerInv'
  <2>1. runner' \in AnyRunner
    BY Zenon, <1>1 DEF AnyRunner
  <2>2. Tame /\ runner'.lock = runner.lock /\ runner'.stopReq = runner.stopReq
    BY Zenon, <1>1, <2>1 DEF Tame, AnyRunner, Executing
  <2> QED BY Zenon, <2>2, TameLoopStep
<1>2. ASSUME NEW h \in Hooks, NEW s \in States, runner.stopHook \in Executing,
             runner' = [runner EXCEPT !.stopHook = h, !.state = s]
      PROVE  RunnerInv'
  <2>1. runner' \in AnyRunner
    BY Zenon, <1>2 DEF AnyRunner
  <2>2. Tame /\ runner'.lock = runner.lock /\ runner'.stopReq = runner.stopReq
    BY Zenon, <1>2, <2>1 DEF Tame, AnyRunner, Executing
  <2> QED BY Zenon, <2>2, TameLoopStep
<1>3. ASSUME NEW hook \in {"worker", "async"}, NEW from \in States, NEW to \in States,
             NEW o \in Outcomes(hook, from, to)
      PROVE  o[1] \in Hooks /\ o[2] \in States
  BY <1>3 DEF Outcomes, Hooks, Executing
<1>4. CASE HookBegins
  <2> PICK body \in {"worker", "async"} :
        \/ runner.startHook = "created" /\ runner' = [runner EXCEPT !.startHook = body]
        \/ runner.stopHook = "created" /\ runner' = [runner EXCEPT !.stopHook = body]
    BY Zenon, <1>4 DEF HookBegins
  <2>1. body \in Hooks /\ "created" \in Executing /\ runner.state \in States
    BY Zenon DEF Hooks, Executing, AnyRunner
  <2>2. CASE runner.startHook = "created" /\ runner' = [runner EXCEPT !.startHook = body]
    <3> runner' = [runner EXCEPT !.startHook = body, !.state = runner.state]
      BY Zenon, <2>2 DEF AnyRunner
    <3> QED BY ZenonT(30), <1>1, <2>1, <2>2
  <2>3. CASE runner.stopHook = "created" /\ runner' = [runner EXCEPT !.stopHook = body]
    <3> runner' = [runner EXCEPT !.stopHook = body, !.state = runner.state]
      BY Zenon, <2>3 DEF AnyRunner
    <3> QED BY Zenon, <1>2, <2>1, <2>3
  <2> QED BY Zenon, <2>2, <2>3
<1>5. CASE StartHookRuns
  <2> runner.state \in States /\ Started(runner.state) \in States
    BY Zenon DEF AnyRunner, Started, States
  <2> PICK o \in Outcomes(runner.startHook, runner.state, Started(runner.state)) :
        runner' = [runner EXCEPT !.startHook = o[1], !.state = o[2]]
    BY Zenon, <1>5 DEF StartHookRuns
  <2> runner.startHook \in {"worker", "async"} /\ runner.startHook \in Executing
    BY Zenon, <1>5 DEF StartHookRuns, Executing
  <2>1. o[1] \in Hooks /\ o[2] \in States
    BY Zenon, <1>3
  <2> QED BY Zenon, <1>1, <2>1
<1>6. CASE StopHookRuns
  <2> runner.state \in States /\ "STOPPED" \in States
    BY Zenon DEF AnyRunner, States
  <2> PICK o \in Outcomes(runner.stopHook, runner.state, "STOPPED") :
        runner' = [runner EXCEPT !.stopHook = o[1], !.state = o[2]]
    BY Zenon, <1>6 DEF StopHookRuns
  <2> runner.stopHook \in {"worker", "async"} /\ runner.stopHook \in Executing
    BY Zenon, <1>6 DEF StopHookRuns, Executing
  <2>1. o[1] \in Hooks /\ o[2] \in States
    BY Zenon, <1>3
  <2> QED BY Zenon, <1>2, <2>1
<1> QED BY Zenon, <1>4, <1>5, <1>6

LEMMA StrategyStep ==
    ASSUME RunnerInv, Pause \/ Resume
    PROVE  RunnerInv'
<1> /\ runner \in AnyRunner /\ UNCHANGED <<schedLock, call, revoked>>
    /\ \E s \in States : runner' = [runner EXCEPT !.state = s]
  BY Zenon, RunnerIsAny DEF RunnerInv, Pause, Resume, States
<1>1. Tame /\ runner'.lock = runner.lock /\ runner'.stopReq = runner.stopReq
  BY Zenon DEF Tame, AnyRunner
<1> QED BY Zenon, <1>1, TameLoopStep

\* Only a runner that owns nothing is retired: no call is about to start it.
LEMMA RegisterStep ==
    ASSUME RunnerInv, Register
    PROVE  RunnerInv'
<1> LifecycleInv /\ OneLifecycleActs /\ runner \in AnyRunner
  BY Zenon, RunnerIsAny DEF RunnerInv
<1> UNCHANGED <<schedLock, call, revoked>> /\ runner' = [runner EXCEPT !.retired = TRUE]
  BY Zenon DEF Register
<1>1. runner.task = "none" /\ runner.startHook = "none" /\ ~runner.cleanup
  BY Zenon DEF Register, HasLiveOwner, RequiresStop, AnyRunner
<1>2. /\ runner' \in AnyRunner /\ runner'.lock = runner.lock /\ runner'.stopReq = runner.stopReq
      /\ runner'.task = runner.task /\ runner'.cleanup = runner.cleanup
      /\ runner'.startHook = runner.startHook /\ runner'.stopHook = runner.stopHook
      /\ runner'.stopFailed = runner.stopFailed /\ runner'.orphan = runner.orphan
  BY Zenon DEF AnyRunner
<1>3. CallsInv' /\ Moves(Tick)
  BY Zenon, <1>2, CallsKept DEF RunnerInv, TypeOK
<1>4. LifecycleInv'
  BY Zenon, <1>1, <1>2 DEF LifecycleInv
<1>5. OneLifecycleActs'
  BY Zenon, <1>1, <1>2 DEF OneLifecycleActs, Executing
<1> QED BY Zenon, <1>2, <1>3, <1>4, <1>5, Assembled DEF Procs

(***************************************************************************)
(* The theorems.                                                            *)
(***************************************************************************)
LEMMA InitRunnerInv == Init => RunnerInv
<1> SUFFICES ASSUME Init PROVE RunnerInv
  BY Zenon
<1> runner = NewRunner /\ schedLock = Nobody /\ call = [p \in Procs |-> Idle] /\ revoked = {}
  BY Zenon DEF Init
<1> Nobody \notin Procs /\ Tick \in Procs
  BY Zenon, CallersAssumption DEF Procs, Nobody, Rollback, Tick
<1>1. Idle \in CallRecord /\ Idle.pc = "idle"
  BY Zenon DEF Idle, CallRecord
<1>2. TypeOK
  BY <1>1, ProcsFinite DEF TypeOK, NewRunner, RunnerRecord, Hooks, States
<1>3. \A p \in Procs : call[p].pc = "idle"
  BY Zenon, <1>1
<1>4. Stopping = {}
  BY Zenon, <1>3 DEF Stopping, StopPcs
<1>5. LocksInv
  BY Zenon, <1>3, <1>4, FS_EmptySet DEF LocksInv, NewRunner, LockPcs
<1>6. RequestsInv /\ LifecycleInv /\ OneLifecycleActs
  BY Zenon, <1>3 DEF RequestsInv, LifecycleInv, OneLifecycleActs, NewRunner, Executing, StartPcs
<1> QED BY Zenon, <1>2, <1>5, <1>6 DEF RunnerInv

LEMMA CallerStep ==
    ASSUME RunnerInv, NEW p \in Callers,
           StartOne(p) \/ StartDirectly(p) \/ CallStop(p) \/ Revoke(p) \/ SubmitRollback(p)
    PROVE  RunnerInv'
<1> p \in Procs /\ p # Tick
  BY Zenon, CallersAssumption DEF Procs
<1>1. ASSUME NEW o \in {"start", "direct", "stop", "stop_all"},
             NEW pc \in {"start_sched", "start_lock", "stop_sched"}, Available(p),
             call' = [call EXCEPT ![p] = [Idle EXCEPT !.op = o, !.pc = pc]],
             UNCHANGED <<runner, schedLock, revoked>>
      PROVE  RunnerInv'
  <2> DEFINE c == [Idle EXCEPT !.op = o, !.pc = pc]
  <2>1. c \in CallRecord /\ c.op = o /\ c.pc = pc
    BY Zenon DEF Idle, CallRecord
  <2>2. call' = [call EXCEPT ![p] = c]
    BY Zenon, <1>1
  <2> HIDE DEF c
  <2> QED BY Zenon, <1>1, <2>1, <2>2, CallMade
<1>2. CASE StartOne(p)
  BY Zenon, <1>1, <1>2 DEF StartOne
<1>3. CASE StartDirectly(p)
  BY Zenon, <1>1, <1>3 DEF StartDirectly
<1>4. CASE CallStop(p)
  BY Zenon, <1>1, <1>4 DEF CallStop
<1> QED BY Zenon, <1>2, <1>3, <1>4, RevokeStep, SubmitRollbackStep

\* RunnerInv is inductive.
LEMMA RunnerInvStep == RunnerInv /\ [Next]_vars => RunnerInv'
<1> SUFFICES ASSUME RunnerInv, [Next]_vars PROVE RunnerInv'
  BY Zenon
<1>1. ASSUME NEW p \in Procs, Advances(p) PROVE RunnerInv'
  BY Zenon, <1>1, StartAdmittedStep, StartLockedStep, StartHookEndedStep, StartHookTimesOutStep,
     StopAdmittedStep, StopLockedStep, StopContinuesStep, StopCompletesStep, StopHookFailsStep,
     StopTimesOutStep, DrainTriesStep, DrainExpiresStep, DrainEndsStep DEF Advances
<1>2. CASE UNCHANGED vars
  BY Zenon, <1>2 DEF vars, RunnerInv, TypeOK, LocksInv, Stopping, RequestsInv, LifecycleInv,
              OneLifecycleActs
<1>3. CASE RollbackUnanswered
  BY Zenon, <1>3, RollbackUnansweredStep
<1>4. CASE LoopTicks \/ LoopLeaves \/ TickReturns \/ TickRaises
  BY Zenon, <1>4, LoopStep
<1>5. CASE SquareOff
  BY Zenon, <1>5, SquareOffStep
<1>6. CASE SquareOffEnds \/ SquareOffFails \/ SquareOffInterrupted
  BY Zenon, <1>6, SquareOffEndsStep
<1>7. CASE LoopCancelled
  BY Zenon, <1>7, LoopCancelledStep
<1>8. CASE CallbackStops
  BY Zenon, <1>8, CallbackStopsStep
<1>9. CASE HookBegins \/ StartHookRuns \/ StopHookRuns
  BY Zenon, <1>9, HookStep
<1>10. CASE Pause \/ Resume
  BY Zenon, <1>10, StrategyStep
<1>11. CASE Register
  BY Zenon, <1>11, RegisterStep
<1> QED BY Zenon, <1>1, <1>2, <1>3, <1>4, <1>5, <1>6, <1>7, <1>8, <1>9, <1>10, <1>11, CallerStep
           DEF Next

THEOREM Safety == Spec => []RunnerInv
BY InitRunnerInv, RunnerInvStep, PTL DEF Spec

\* At most one lifecycle of a strategy acts, whoever starts, stops, rolls back,
\* squares off or replaces it: no start hook runs beside a stop hook or a tick loop,
\* no hook and no loop is forgotten while it runs, and a replaced runner stays still.
THEOREM LifecyclesAreExclusive == Spec => []OneLifecycleActs
<1>1. RunnerInv => OneLifecycleActs
  BY Zenon DEF RunnerInv
<1> QED BY <1>1, Safety, PTL

\* The two locks and the announced stops belong to the calls that are in progress,
\* so that no lock and no stop request outlives the call that took it.
THEOREM LocksAreOwned == Spec => []OwnershipIsExact
<1>1. RunnerInv => OwnershipIsExact
  BY Zenon DEF RunnerInv, LocksInv, OwnershipIsExact, LockPcs, NoSchedPcs, Stopping
<1> QED BY <1>1, Safety, PTL
=============================================================================
