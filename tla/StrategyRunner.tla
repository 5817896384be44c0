---------------------------- MODULE StrategyRunner ----------------------------
(***************************************************************************)
(* A StrategyRunner of flinttrade_engine.scheduler, from the moment it is   *)
(* registered under a name of StrategyScheduler until register() puts       *)
(* another in its place, and the calls that race on it: start_one with the  *)
(* rollback of a route that gave up waiting, a direct runner.start,         *)
(* stop_one, stop_all, the square-off of its tick loop, and a stop called   *)
(* from inside a callback of the strategy.                                  *)
(*                                                                          *)
(* Everything but synchronous hook bodies runs on one event loop, so an     *)
(* action is what happens between two awaits.  A hook is a task: "created"  *)
(* until the loop first runs it, then "worker" (a synchronous body on a     *)
(* thread, which nothing interrupts) or "async" (which cancel() may end),   *)
(* then "ok" or "failed"; "none" when the runner holds no hook.  A deadline *)
(* may expire at any moment of the wait it bounds.                          *)
(***************************************************************************)
EXTENDS Naturals, FiniteSets

CONSTANT Callers        \* the routes and owners that start and stop the strategy

Rollback == "rollback"  \* the _drain_failed_start a timed-out start submits
Tick == "tick"          \* the stop a strategy callback calls
Procs == Callers \cup {Rollback, Tick}
Nobody == "nobody"

ASSUME CallersAssumption ==
    IsFiniteSet(Callers) /\ Callers \cap {Rollback, Tick, Nobody} = {}

States == {"STOPPED", "ACTIVE", "PAUSED", "ERROR"}
Executing == {"created", "worker", "async"}
InCallback == {"on_tick", "on_square_off"}
LoopAlive == {"idle", "square_off"} \cup InCallback
StopPcs == {"stop_lock", "stop_task", "stop_drain", "stop_hook"}

VARIABLES
    runner,         \* the fields of the StrategyRunner and of its strategy
    schedLock,      \* holder of _scheduler_transition_lock
    call,           \* what each call in progress does and where it has got to
    revoked         \* callers whose route stopped waiting for a start

vars == <<runner, schedLock, call, revoked>>

\* retired: register() replaced it.  task: where the tick loop is, with cancel
\* set while a cancellation is on its way to it.  orphan: a hook or a loop still
\* ran when the runner dropped its only reference to it.
NewRunner ==
    [running |-> FALSE, cleanup |-> FALSE, quarantined |-> FALSE, retired |-> FALSE,
     stopReq |-> 0, stopFailed |-> FALSE, startHook |-> "none", stopHook |-> "none",
     task |-> "none", cancel |-> FALSE, lock |-> Nobody, state |-> "STOPPED",
     orphan |-> FALSE]

\* stale: an aggregate stop began since the start was admitted.  Of the stop a
\* callback calls, lease: the callback still runs; awaited: it waits for the stop;
\* owns: the stop found it running, and so does not wait for its loop.
Idle == [op |-> "none", pc |-> "idle", stale |-> FALSE,
         lease |-> FALSE, awaited |-> FALSE, owns |-> FALSE]

Init ==
    /\ runner = NewRunner
    /\ schedLock = Nobody
    /\ call = [p \in Procs |-> Idle]
    /\ revoked = {}

Available(p) == call[p] = Idle /\ p \notin revoked

AggregateStopActive == schedLock # Nobody /\ call[schedLock].op = "stop_all"

(***************************************************************************)
(* Predicates and updates of a runner.                                      *)
(***************************************************************************)
RequiresStop(r) ==
    \/ r.running \/ r.cleanup \/ r.quarantined \/ r.stopFailed
    \/ r.task \in LoopAlive
    \/ r.startHook # "none" \/ r.stopHook # "none"
    \/ r.state # "STOPPED"

HasLiveOwner(r) == RequiresStop(r) \/ r.stopReq > 0

\* What cancel() makes of a hook: one that has not begun never runs, an
\* asynchronous one may end at its await or swallow the cancellation, and one
\* whose worker is active is not cancelled.
Cancelled(hook) ==
    CASE hook = "created" -> {"failed"}
      [] hook = "async" -> {"async", "failed"}
      [] OTHER -> {hook}

DropStartHook(r) ==
    [r EXCEPT !.orphan = @ \/ r.startHook \in Executing, !.startHook = "none"]

DropStopHook(r) ==
    [r EXCEPT !.orphan = @ \/ r.stopHook \in Executing, !.stopHook = "none"]

\* A retained stop hook that runs or succeeded is reused
WithStopHook(r) ==
    [r EXCEPT !.stopHook = IF @ \in {"none", "failed"} THEN "created" ELSE @]

\* What a loop that ends leaves behind: nothing, if it stopped itself
Release(r) ==
    IF /\ r.cleanup /\ ~r.stopFailed /\ r.stopReq = 0 /\ r.startHook = "none"
       /\ r.state = "STOPPED" /\ r.stopHook \in {"none", "ok"}
    THEN [DropStopHook(r) EXCEPT !.cleanup = FALSE]
    ELSE r

LoopExit(r) == Release([r EXCEPT !.running = FALSE, !.cancel = FALSE, !.task = "none"])

Unlocked(r) == [r EXCEPT !.lock = Nobody]

\* stop() fails under the transition lock
StopFails(r) == Unlocked([r EXCEPT !.stopFailed = TRUE, !.stopReq = @ - 1])

\* Mutant of StopCancelled: a stop cancelled before it has the lock stays announced
CancelledStaysAnnounced(pc, r) ==
    IF pc = "stop_lock" THEN r ELSE StopFails(r)

\* stop() is cancelled in one of its waits
StopCancelled(pc, r) ==
    IF pc = "stop_lock" THEN [r EXCEPT !.stopReq = @ - 1] ELSE StopFails(r)

\* Mutant of PastTickLoop: the stop hook does not wait for an interrupted start hook
StopsBesideStart(r) == WithStopHook(r)

\* stop() with the tick loop out of the way: an interrupted start hook is waited
\* for and then dropped, and the stop hook runs
PastTickLoop(r) ==
    IF r.startHook \in Executing THEN r ELSE WithStopHook(DropStartHook(r))

PcPastTickLoop(r) == IF r.startHook \in Executing THEN "stop_drain" ELSE "stop_hook"

(***************************************************************************)
(* What becomes of a call when its start() or stop() is over.               *)
(***************************************************************************)
Draining(c) == c.op \in {"start", "rollback", "unanswered"}

\* A drain looks at the runner again, every other caller has its answer
AfterStop(c) == IF Draining(c) THEN [c EXCEPT !.pc = "drain"] ELSE Idle

\* start_one drains what its start left; a direct start only raises
AfterFailedStart(c) == IF c.op = "start" THEN [c EXCEPT !.pc = "drain"] ELSE Idle

\* A request revoked by then is rolled back like a failed one
AfterStart(p, c) ==
    IF c.op = "start" /\ p \in revoked THEN AfterFailedStart(c) ELSE Idle

\* The scheduler lock is given back when the call that holds it ends
Proceeds(p, c) ==
    /\ call' = [call EXCEPT ![p] = c]
    /\ schedLock' = IF c = Idle /\ schedLock = p THEN Nobody ELSE schedLock

(***************************************************************************)
(* Starting.                                                                *)
(***************************************************************************)
\* start_one and start_one_threadsafe up to the scheduler lock
StartOne(p) ==
    /\ Available(p)
    /\ ~runner.retired /\ ~AggregateStopActive
    /\ call' = [call EXCEPT ![p] = [Idle EXCEPT !.op = "start", !.pc = "start_sched"]]
    /\ UNCHANGED <<runner, schedLock, revoked>>

\* runner.start() called by a holder of the runner, past its admission
StartDirectly(p) ==
    /\ Available(p)
    /\ ~AggregateStopActive
    /\ call' = [call EXCEPT ![p] = [Idle EXCEPT !.op = "direct", !.pc = "start_lock"]]
    /\ UNCHANGED <<runner, schedLock, revoked>>

\* start_one gets the scheduler lock: superseded, replaced and revoked requests
\* end here
StartAdmitted(p) ==
    /\ call[p].pc = "start_sched"
    /\ schedLock = Nobody
    /\ IF call[p].stale \/ runner.retired \/ p \in revoked
       THEN /\ call' = [call EXCEPT ![p] = Idle]
            /\ UNCHANGED schedLock
       ELSE /\ call' = [call EXCEPT ![p].pc = "start_lock"]
            /\ schedLock' = p
    /\ UNCHANGED <<runner, revoked>>

\* Why start() refuses once it holds the transition lock
Refused(c, r) ==
    c.stale \/ r.retired \/ (~r.running /\ (r.stopReq > 0 \/ r.stopFailed \/ r.cleanup))

\* start() gets the transition lock: refuse, find the loop running, or create
\* the start hook
StartLocked(p) ==
    LET c == call[p] IN
    /\ c.pc = "start_lock"
    /\ runner.lock = Nobody
    /\ IF Refused(c, runner)
       THEN Proceeds(p, AfterFailedStart(c)) /\ UNCHANGED runner
       ELSE IF runner.running
       THEN Proceeds(p, AfterStart(p, c)) /\ UNCHANGED runner
       ELSE /\ Proceeds(p, [c EXCEPT !.pc = "start_hook"])
            /\ runner' = [DropStartHook(runner) EXCEPT !.cleanup = TRUE, !.lock = p,
                                                        !.startHook = "created"]
    /\ UNCHANGED revoked

\* The start hook ended: activate, unless it failed, a stop was requested
\* meanwhile or an aggregate stop superseded the start
StartHookEnded(p) ==
    LET c == call[p]
        activates == runner.startHook = "ok" /\ ~c.stale /\ runner.stopReq = 0
        idle == Unlocked(DropStartHook(runner)) IN
    /\ c.pc = "start_hook"
    /\ runner.startHook \notin Executing
    /\ IF activates
       THEN /\ runner' = [idle EXCEPT !.orphan = @ \/ idle.task \in LoopAlive,
                                      !.running = TRUE, !.task = "idle"]
            /\ Proceeds(p, AfterStart(p, c))
       ELSE runner' = idle /\ Proceeds(p, AfterFailedStart(c))
    /\ UNCHANGED revoked

\* start() no longer waits for its hook: the hook is cancelled unless a worker
\* runs it, and kept if it survives that
AbandonedStart ==
    {Unlocked([runner EXCEPT !.startHook = IF h \in Executing THEN h ELSE "none"]) :
         h \in Cancelled(runner.startHook)}

StartHookTimesOut(p) ==
    /\ call[p].pc = "start_hook"
    /\ runner.startHook \in Executing
    /\ runner' \in AbandonedStart
    /\ Proceeds(p, AfterFailedStart(call[p]))
    /\ UNCHANGED revoked

(***************************************************************************)
(* The route of a start stops waiting: it revokes the request, waits once   *)
(* more, cancels the coroutine if that has still not ended, and submits a   *)
(* rollback of the runner either way.                                       *)
(***************************************************************************)
Revoke(p) ==
    /\ call[p].op = "start" /\ call[p].pc \in {"start_sched", "start_lock", "start_hook"}
    /\ p \notin revoked
    /\ revoked' = revoked \cup {p}
    /\ UNCHANGED <<runner, schedLock, call>>

\* Where cancelling leaves the coroutine; its own drain is shielded from it
CancelledStart(c) ==
    CASE c.pc \in {"idle", "start_sched"} -> Idle
      [] c.pc \in {"start_lock", "start_hook"} -> AfterFailedStart(c)
      [] OTHER -> c

SubmitRollback(p) ==
    /\ p \in revoked
    /\ call[Rollback] = Idle
    /\ call' = [call EXCEPT ![p] = CancelledStart(@),
                            ![Rollback] = [Idle EXCEPT !.op = "rollback", !.pc = "drain"]]
    /\ revoked' = revoked \ {p}
    /\ IF call[p].pc = "start_hook" THEN runner' \in AbandonedStart ELSE UNCHANGED runner
    /\ UNCHANGED schedLock

\* The route, a thread of its own, stops waiting for the rollback as well, wherever
\* that has got to; the end of its wait and the quarantine are one step
RollbackUnanswered ==
    /\ call[Rollback].op = "rollback"
    /\ runner' = [runner EXCEPT !.quarantined = TRUE]
    /\ call' = [call EXCEPT ![Rollback].op = "unanswered"]
    /\ UNCHANGED <<schedLock, revoked>>

(***************************************************************************)
(* Stopping.                                                                *)
(***************************************************************************)
\* stop_one and stop_all up to the scheduler lock
CallStop(p) ==
    /\ Available(p)
    /\ ~runner.retired
    /\ \E op \in {"stop", "stop_all"} :
         call' = [call EXCEPT ![p] = [Idle EXCEPT !.op = op, !.pc = "stop_sched"]]
    /\ UNCHANGED <<runner, schedLock, revoked>>

\* stop() up to the transition lock, when there is something to stop: it is
\* announced, and a start hook in progress is cancelled
Announced == {[runner EXCEPT !.stopReq = @ + 1, !.startHook = h] :
                  h \in Cancelled(runner.startHook)}

\* The generation an aggregate stop opens supersedes the starts in progress
Superseded ==
    [p \in Procs |-> IF call[p].op \in {"start", "direct"}
                     THEN [call[p] EXCEPT !.stale = TRUE] ELSE call[p]]

\* stop_one and stop_all get the scheduler lock and call stop() on the runner
\* registered by then, which returns if there is nothing to stop
StopAdmitted(p) ==
    LET c == call[p]
        others == IF c.op = "stop_all" THEN Superseded ELSE call IN
    /\ c.pc = "stop_sched"
    /\ schedLock = Nobody
    /\ IF ~runner.retired /\ RequiresStop(runner)
       THEN /\ runner' \in Announced
            /\ call' = [others EXCEPT ![p].pc = "stop_lock"]
            /\ schedLock' = p
       ELSE /\ call' = [others EXCEPT ![p] = Idle]
            /\ UNCHANGED <<runner, schedLock>>
    /\ UNCHANGED revoked

\* stop() gets the transition lock: nothing is left to stop, or the loop is told
\* to end and, unless the caller runs inside it, cancelled and waited for
StopLocked(p) ==
    LET c == call[p]
        r == [runner EXCEPT !.running = FALSE, !.lock = p] IN
    /\ c.pc = "stop_lock"
    /\ runner.lock = Nobody
    /\ IF ~RequiresStop(runner)
       THEN /\ runner' = [runner EXCEPT !.stopReq = @ - 1]
            /\ Proceeds(p, AfterStop(c))
       ELSE IF r.task \in LoopAlive /\ ~c.lease
       THEN /\ runner' = [r EXCEPT !.cancel = TRUE]
            /\ Proceeds(p, [c EXCEPT !.pc = "stop_task"])
       ELSE /\ runner' = PastTickLoop(r)
            /\ Proceeds(p, [c EXCEPT !.pc = PcPastTickLoop(r), !.owns = c.lease])
    /\ UNCHANGED revoked

\* The tick loop, or an interrupted start hook, is over
StopContinues(p) ==
    /\ \/ call[p].pc = "stop_task" /\ runner.task \notin LoopAlive
       \/ call[p].pc = "stop_drain" /\ runner.startHook \notin Executing
    /\ runner' = PastTickLoop(runner)
    /\ Proceeds(p, [call[p] EXCEPT !.pc = PcPastTickLoop(runner)])
    /\ UNCHANGED revoked

\* The stop hook succeeded.  A caller inside a loop that still lives leaves the
\* hook and the cleanup to the end of the loop.
StopCompletes(p) ==
    LET handoff == call[p].owns /\ runner.task \in LoopAlive
        r == IF handoff THEN runner ELSE DropStopHook(runner) IN
    /\ call[p].pc = "stop_hook"
    /\ runner.stopHook = "ok"
    /\ runner' = Unlocked([r EXCEPT !.cleanup = handoff, !.quarantined = FALSE,
                                    !.stopFailed = FALSE, !.stopReq = @ - 1])
    /\ Proceeds(p, AfterStop(call[p]))
    /\ UNCHANGED revoked

StopHookFails(p) ==
    /\ call[p].pc = "stop_hook"
    /\ runner.stopHook = "failed"
    /\ runner' = StopFails(runner)
    /\ Proceeds(p, AfterStop(call[p]))
    /\ UNCHANGED revoked

\* A wait of stop() outlives its deadline: what it waited for is cancelled
StopTimesOut(p) ==
    /\ \/ /\ call[p].pc = "stop_lock"
          /\ runner' = [runner EXCEPT !.stopFailed = TRUE, !.stopReq = @ - 1]
       \/ /\ call[p].pc = "stop_task" /\ runner.task \in LoopAlive
          /\ runner' = StopFails([runner EXCEPT !.cancel = TRUE])
       \/ /\ call[p].pc = "stop_drain" /\ runner.startHook \in Executing
          /\ \E h \in Cancelled(runner.startHook) :
               runner' = StopFails([runner EXCEPT !.startHook = h])
       \/ /\ call[p].pc = "stop_hook" /\ runner.stopHook \in Executing
          /\ \E h \in Cancelled(runner.stopHook) :
               runner' = StopFails([runner EXCEPT !.stopHook = h])
    /\ Proceeds(p, AfterStop(call[p]))
    /\ UNCHANGED revoked

(***************************************************************************)
(* _drain_failed_start: stop() again and again until nothing is owned, or   *)
(* until its deadline passes and the runner is quarantined.                 *)
(***************************************************************************)
DrainTries(p) ==
    /\ call[p].pc = "drain"
    /\ RequiresStop(runner)
    /\ runner' \in Announced
    /\ call' = [call EXCEPT ![p].pc = "stop_lock"]
    /\ UNCHANGED <<schedLock, revoked>>

\* The deadline cancels the attempt in progress
DrainExpires(p) ==
    LET r == StopCancelled(call[p].pc, runner) IN
    /\ Draining(call[p]) /\ call[p].pc \in StopPcs
    /\ runner' = IF HasLiveOwner(r) THEN [r EXCEPT !.quarantined = TRUE] ELSE r
    /\ Proceeds(p, Idle)
    /\ UNCHANGED revoked

DrainGivesUp(p) ==
    /\ call[p].pc = "drain"
    /\ HasLiveOwner(runner)
    /\ runner' = [runner EXCEPT !.quarantined = TRUE]
    /\ Proceeds(p, Idle)
    /\ UNCHANGED revoked

DrainEnds(p) ==
    /\ call[p].pc = "drain"
    /\ ~HasLiveOwner(runner)
    /\ Proceeds(p, Idle)
    /\ UNCHANGED <<runner, revoked>>

(***************************************************************************)
(* The tick loop.                                                           *)
(***************************************************************************)
\* The callback cannot go on before the stop it awaits ends
Awaiting == call[Tick].awaited

CallbackEnds == call' = [call EXCEPT ![Tick].lease = FALSE]

\* A pass of the loop enters _tick, which fetches a quote and calls on_tick or,
\* at the square-off time, calls on_square_off
LoopTicks ==
    /\ runner.task = "idle" /\ ~runner.cancel
    /\ runner.running /\ runner.state = "ACTIVE"
    /\ \E where \in InCallback : runner' = [runner EXCEPT !.task = where]
    /\ UNCHANGED <<schedLock, call, revoked>>

LoopLeaves ==
    /\ runner.task = "idle" /\ ~runner.cancel
    /\ ~runner.running \/ runner.state \notin {"ACTIVE", "PAUSED"}
    /\ runner' = LoopExit(runner)
    /\ UNCHANGED <<schedLock, call, revoked>>

\* _tick returns: the loop sleeps, or leaves if it was stopped, paused or failed
\* during the tick
TickReturns ==
    /\ runner.task = "on_tick" /\ ~runner.cancel /\ ~Awaiting
    /\ runner' = IF runner.running /\ runner.state = "ACTIVE"
                 THEN [runner EXCEPT !.task = "idle"] ELSE LoopExit(runner)
    /\ CallbackEnds
    /\ UNCHANGED <<schedLock, revoked>>

TickRaises ==
    /\ runner.task = "on_tick" /\ ~runner.cancel /\ ~Awaiting
    /\ runner' = LoopExit([runner EXCEPT !.state = "ERROR"])
    /\ CallbackEnds
    /\ UNCHANGED <<schedLock, revoked>>

\* on_square_off returned or raised: _handle_square_off has the stop hook run,
\* without the transition lock
SquareOff ==
    /\ runner.task = "on_square_off" /\ ~runner.cancel /\ ~Awaiting
    /\ runner' = WithStopHook([runner EXCEPT !.running = FALSE, !.cleanup = TRUE,
                                             !.task = "square_off"])
    /\ CallbackEnds
    /\ UNCHANGED <<schedLock, revoked>>

\* Its stop hook succeeded, and the loop ends after it
SquareOffEnds ==
    /\ runner.task = "square_off" /\ ~runner.cancel
    /\ runner.stopHook = "ok"
    /\ runner' = LoopExit([runner EXCEPT !.cleanup = TRUE, !.quarantined = FALSE,
                                         !.stopFailed = FALSE])
    /\ UNCHANGED <<schedLock, call, revoked>>

\* Its stop hook failed or outlived the deadline, and the strategy is in error
SquareOffFails ==
    /\ runner.task = "square_off" /\ ~runner.cancel
    /\ runner.stopHook # "ok"
    /\ \E h \in Cancelled(runner.stopHook) :
         runner' = LoopExit([runner EXCEPT !.stopHook = h, !.stopFailed = TRUE,
                                           !.state = "ERROR"])
    /\ UNCHANGED <<schedLock, call, revoked>>

\* Its stop hook was cancelled by another stop that waited for it, and the loop
\* ends as if it had been cancelled itself
SquareOffInterrupted ==
    /\ runner.task = "square_off" /\ ~runner.cancel
    /\ runner.stopHook = "failed" /\ runner.stopFailed
    /\ runner' = LoopExit(runner)
    /\ UNCHANGED <<schedLock, call, revoked>>

\* The loop receives the cancellation a stop sent it.  Only a callback can
\* swallow it.  A stop() the callback awaits is cancelled with it; a stop_all()
\* it awaits holds it back until every runner has been stopped.
LoopCancelled ==
    LET c == call[Tick]
        r == IF Awaiting /\ c.pc \in StopPcs THEN StopCancelled(c.pc, runner) ELSE runner IN
    /\ runner.task \in LoopAlive /\ runner.cancel
    /\ ~(Awaiting /\ c.op = "stop_all" /\ c.pc \in StopPcs)
    /\ \/ /\ runner' = LoopExit(r)
          /\ Proceeds(Tick, IF Awaiting THEN Idle ELSE [c EXCEPT !.lease = FALSE])
       \/ /\ runner.task \in InCallback
          /\ runner' = [r EXCEPT !.cancel = FALSE]
          /\ Proceeds(Tick, IF Awaiting THEN Idle ELSE c)
    /\ UNCHANGED revoked

\* A callback calls runner.stop() or scheduler.stop_all(), and awaits it or leaves
\* it to a task of its own that inherits the lease
CallbackStops ==
    /\ runner.task \in InCallback /\ ~runner.cancel
    /\ call[Tick] = Idle
    /\ \E awaited \in BOOLEAN :
         LET c == [Idle EXCEPT !.lease = TRUE, !.awaited = awaited] IN
         \/ /\ runner' \in Announced
            /\ call' = [call EXCEPT ![Tick] = [c EXCEPT !.op = "self", !.pc = "stop_lock"]]
         \/ /\ call' = [call EXCEPT ![Tick] = [c EXCEPT !.op = "stop_all", !.pc = "stop_sched"]]
            /\ UNCHANGED runner
    /\ UNCHANGED <<schedLock, revoked>>

(***************************************************************************)
(* Hook bodies, and the other writers of the strategy's state.              *)
(***************************************************************************)
HookBegins ==
    /\ \E body \in {"worker", "async"} :
         \/ runner.startHook = "created" /\ runner' = [runner EXCEPT !.startHook = body]
         \/ runner.stopHook = "created" /\ runner' = [runner EXCEPT !.stopHook = body]
    /\ UNCHANGED <<schedLock, call, revoked>>

\* The transition BaseStrategy.start makes; that of stop ends in STOPPED always
Started(state) == IF state \in {"STOPPED", "ERROR"} THEN "ACTIVE" ELSE state

\* The outcomes of a hook body, which a strategy may override: it returns or raises,
\* with the transition made or not, or returns an awaitable that goes on on the
\* event loop
Outcomes(hook, from, to) ==
    ({"ok", "failed"} \X {from, to})
        \cup {<<"async", from>> : h \in {hook} \cap {"worker"}}

StartHookRuns ==
    /\ runner.startHook \in {"worker", "async"}
    /\ \E o \in Outcomes(runner.startHook, runner.state, Started(runner.state)) :
         runner' = [runner EXCEPT !.startHook = o[1], !.state = o[2]]
    /\ UNCHANGED <<schedLock, call, revoked>>

StopHookRuns ==
    /\ runner.stopHook \in {"worker", "async"}
    /\ \E o \in Outcomes(runner.stopHook, runner.state, "STOPPED") :
         runner' = [runner EXCEPT !.stopHook = o[1], !.state = o[2]]
    /\ UNCHANGED <<schedLock, call, revoked>>

Pause ==
    /\ runner.state = "ACTIVE"
    /\ runner' = [runner EXCEPT !.state = "PAUSED"]
    /\ UNCHANGED <<schedLock, call, revoked>>

Resume ==
    /\ runner.state = "PAUSED"
    /\ runner' = [runner EXCEPT !.state = "ACTIVE"]
    /\ UNCHANGED <<schedLock, call, revoked>>

\* register() retires a runner that owns nothing and puts another in its place
Register ==
    /\ ~runner.retired
    /\ ~HasLiveOwner(runner)
    /\ runner' = [runner EXCEPT !.retired = TRUE]
    /\ UNCHANGED <<schedLock, call, revoked>>

\* The steps of a call once made
Advances(p) ==
    \/ StartAdmitted(p) \/ StartLocked(p) \/ StartHookEnded(p) \/ StartHookTimesOut(p)
    \/ StopAdmitted(p) \/ StopLocked(p) \/ StopContinues(p) \/ StopCompletes(p)
    \/ StopHookFails(p) \/ StopTimesOut(p)
    \/ DrainTries(p) \/ DrainExpires(p) \/ DrainGivesUp(p) \/ DrainEnds(p)

Next ==
    \/ \E p \in Callers : \/ StartOne(p) \/ StartDirectly(p) \/ CallStop(p)
                          \/ Revoke(p) \/ SubmitRollback(p)
    \/ \E p \in Procs : Advances(p)
    \/ RollbackUnanswered
    \/ LoopTicks \/ LoopLeaves \/ TickReturns \/ TickRaises
    \/ SquareOff \/ SquareOffEnds \/ SquareOffFails \/ SquareOffInterrupted
    \/ LoopCancelled \/ CallbackStops
    \/ HookBegins \/ StartHookRuns \/ StopHookRuns
    \/ Pause \/ Resume \/ Register

Spec == Init /\ [][Next]_vars

(***************************************************************************)
(* Properties.                                                              *)
(***************************************************************************)
Hooks == Executing \cup {"none", "ok", "failed"}

RunnerRecord ==
    [running: BOOLEAN, cleanup: BOOLEAN, quarantined: BOOLEAN, retired: BOOLEAN,
     stopReq: 0..Cardinality(Procs), stopFailed: BOOLEAN, startHook: Hooks,
     stopHook: Hooks, task: LoopAlive \cup {"none"}, cancel: BOOLEAN,
     lock: Procs \cup {Nobody}, state: States, orphan: BOOLEAN]

CallRecord ==
    [op: {"none", "start", "direct", "stop", "stop_all", "rollback", "unanswered", "self"},
     pc: StopPcs \cup {"idle", "start_sched", "start_lock", "start_hook", "stop_sched",
                       "drain"},
     stale: BOOLEAN, lease: BOOLEAN, awaited: BOOLEAN, owns: BOOLEAN]

TypeOK ==
    /\ runner \in RunnerRecord
    /\ schedLock \in Procs \cup {Nobody}
    /\ call \in [Procs -> CallRecord]
    /\ revoked \subseteq Callers

\* One lifecycle acts at a time.  A start hook, also one that outlived its deadline
\* on a worker, never runs beside a stop hook or a tick loop; no hook and no loop
\* is forgotten while it runs, so has_live_owner, which register() and the drains
\* go by, sees every one; and a runner that was replaced neither ticks nor starts
\* again.
OneLifecycleActs ==
    /\ runner.startHook \in Executing =>
         runner.stopHook \notin Executing /\ runner.task = "none"
    /\ ~runner.orphan
    /\ runner.retired => runner.task = "none" /\ runner.startHook = "none"

\* Whoever holds the transition lock is in a wait that has a deadline, or about to
\* take one step, so every other call gets its turn however long hooks and callbacks
\* run; whoever holds the scheduler lock is past it, in such a wait, in a drain or
\* waiting for the transition lock; and the stop requests announced are exactly the
\* stops in progress, so that none is left behind to refuse every later start.
OwnershipIsExact ==
    /\ \A p \in Procs :
         /\ runner.lock = p =>
              call[p].pc \in {"start_hook", "stop_task", "stop_drain", "stop_hook"}
         /\ schedLock = p => call[p].pc \notin {"idle", "start_sched", "stop_sched"}
    /\ runner.stopReq = Cardinality({p \in Procs : call[p].pc \in StopPcs})
=============================================================================
