---------------------------- MODULE EntryApprovals ----------------------------
(***************************************************************************)
(* Entries of the autonomous agent: the session that proposes, monitors and *)
(* squares them off (flinttrade_ai/autonomous_agent.py and start_agent,     *)
(* stop_agent in flinttrade_core/agent_routes.py), the durable queue in     *)
(* which the operator approves them (PendingOrderQueue in                   *)
(* flinttrade_engine/action_center.py) and the dispatch of an approved one. *)
(*                                                                          *)
(* An intent is claimed at most once, so its dispatch is identified with it.*)
(* The gated path to the broker is OrderAdmission's; here a dispatch is     *)
(* refused for certain, is acknowledged, or has an unknown outcome, with a  *)
(* router task that may still reach the broker.                             *)
(***************************************************************************)
EXTENDS Naturals

CONSTANTS
    Symbols,        \* symbols the agent trades
    MaxIntents,     \* bound: approval requests
    MaxSessions,    \* bound: agent sessions
    MaxCrashes      \* bound: process crashes

ASSUME SymbolsAssumption == Symbols # {}
ASSUME BoundsAssumption == MaxIntents \in Nat /\ MaxSessions \in Nat /\ MaxCrashes \in Nat

Intents == 1 .. MaxIntents
None == 0       \* no intent

VARIABLES
    status, uncertain, symbol, producer,    \* approval_requests
    allocated,                              \* ids handed out
    dispatch,                               \* progress of the claimed ones
    late,                                   \* router tasks nobody waits for any more
    sent,                                   \* times an intent reached the broker
    session, alive, phase,                  \* _RUNNER: producer_ref, thread, status
    stopRequested, squareOff, toExit,
    again,                                  \* the loop has yet to check for a failed stop
    entryIntents, tracked,                  \* session memory, by symbol
    exited,                                 \* entries with an accepted exit
    posted,                                 \* record_approved_entry calls on the loop
    told, unmarked,                         \* history: entries the session was told of,
                                            \* outcomes that could not be stored
    crashes

history == <<told, unmarked>>
rowVars == <<status, uncertain, symbol, producer, allocated>>
stopVars == <<stopRequested, squareOff, toExit, again>>
sessionVars == <<session, alive, phase, stopVars>>
bookVars == <<tracked, exited, posted>>
vars == <<rowVars, dispatch, late, sent, sessionVars, entryIntents, bookVars, history, crashes>>

Init ==
    /\ status = [i \in Intents |-> "absent"] /\ uncertain = [i \in Intents |-> FALSE]
    /\ producer = [i \in Intents |-> 0]
    /\ symbol = [i \in Intents |-> CHOOSE s \in Symbols : TRUE]
    /\ allocated = 0
    /\ dispatch = [i \in Intents |-> "none"] /\ late = {} /\ sent = [i \in Intents |-> 0]
    /\ session = 0 /\ alive = FALSE /\ phase = "stopped"
    /\ stopRequested = FALSE /\ squareOff = FALSE /\ toExit = {} /\ again = FALSE
    /\ entryIntents = [s \in Symbols |-> None] /\ tracked = [s \in Symbols |-> None]
    /\ exited = {} /\ posted = {} /\ told = {} /\ unmarked = {} /\ crashes = 0

-----------------------------------------------------------------------------
(* Proposing: execute and its entry_intent_sink.                            *)

\* Mutant: any failed intent may be followed by another.
MutReplaceable(i) == status[i] \in {"rejected", "expired", "failed"}

\* What _persist lets a new intent replace: nothing may be live for the old one.
Replaceable(i) == status[i] \in {"rejected", "expired", "failed"} /\ ~uncertain[i]

\* The row is inserted, or the insert fails; the id stays this symbol's either way.
Insert(i, s) ==
    /\ producer' = [producer EXCEPT ![i] = session] /\ symbol' = [symbol EXCEPT ![i] = s]
    /\ \/ status' = [status EXCEPT ![i] = "pending"]
       \/ UNCHANGED status

\* An execute that has passed its check of the stop flag still persists its intent.
Proposing(s) == alive /\ phase \in {"running", "stopping"} /\ tracked[s] = None

\* A first intent for the symbol, or one after the last was closed for certain.
Propose(s) ==
    /\ Proposing(s) /\ allocated < MaxIntents
    /\ entryIntents[s] # None => Replaceable(entryIntents[s])
    /\ allocated' = allocated + 1
    /\ entryIntents' = [entryIntents EXCEPT ![s] = allocated + 1]
    /\ Insert(allocated + 1, s)
    /\ UNCHANGED <<uncertain, dispatch, late, sent, sessionVars, bookVars, history, crashes>>

\* The insert is retried under the same id, never under a new one.
Retry(s) ==
    /\ Proposing(s) /\ entryIntents[s] # None /\ status[entryIntents[s]] = "absent"
    /\ Insert(entryIntents[s], s)
    /\ UNCHANGED <<uncertain, allocated, dispatch, late, sent, sessionVars, entryIntents,
                   bookVars, history, crashes>>

-----------------------------------------------------------------------------
(* The operator, the clock and the queue.                                   *)

\* _expire_stale once the deadline has passed, or reject.
Close(i) ==
    /\ status[i] = "pending"
    /\ \E to \in {"expired", "rejected"} : status' = [status EXCEPT ![i] = to]
    /\ UNCHANGED <<uncertain, symbol, producer, allocated, dispatch, late, sent, sessionVars,
                   entryIntents, bookVars, history, crashes>>

\* claim_for_dispatch
Claimable(i) == status[i] = "pending"

Claim(i) ==
    /\ Claimable(i)
    /\ status' = [status EXCEPT ![i] = "dispatching"]
    /\ dispatch' = [dispatch EXCEPT ![i] = "claimed"]
    /\ UNCHANGED <<uncertain, symbol, producer, allocated, late, sent, sessionVars,
                   entryIntents, bookVars, history, crashes>>

-----------------------------------------------------------------------------
(* dispatch_action_center_approval.                                         *)

Progress(i, from, to) == dispatch[i] = from /\ dispatch' = [dispatch EXCEPT ![i] = to]

\* The session that produced the intent is current, its thread lives and no stop has
\* been requested; otherwise, or when another check fails, the entry is not sent; a
\* check that raises leaves the outcome unknown to the route.
Active(i) == producer[i] = session /\ alive /\ ~stopRequested

Check(i) ==
    /\ \/ Active(i) /\ Progress(i, "claimed", "checked")
       \/ \E to \in {"refused", "unknown"} : Progress(i, "claimed", to)
    /\ UNCHANGED <<rowVars, late, sent, sessionVars, entryIntents, bookVars, history, crashes>>

\* _dispatch_live_order refuses before anything can reach the broker: below 500.
Refuse(i) ==
    /\ Progress(i, "checked", "refused")
    /\ UNCHANGED <<rowVars, late, sent, sessionVars, entryIntents, bookVars, history, crashes>>

AtBroker(i) == sent' = [sent EXCEPT ![i] = @ + 1]

\* The entry reaches the broker.
Send(i) ==
    /\ Progress(i, "checked", "sent") /\ AtBroker(i)
    /\ UNCHANGED <<rowVars, late, sessionVars, entryIntents, bookVars, history, crashes>>

\* Mutant: an exception after the claim ends the request without closing the row.
MutTimeout(i) ==
    /\ Progress(i, "checked", "none")
    /\ UNCHANGED <<rowVars, late, sent, sessionVars, entryIntents, bookVars, history, crashes>>

\* The wait times out before it has; or it never will, and only that is not known.
Timeout(i) ==
    /\ Progress(i, "checked", "unknown")
    /\ late' \in {late, late \cup {i}}
    /\ UNCHANGED <<rowVars, sent, sessionVars, entryIntents, bookVars, history, crashes>>

\* The router task reaches the broker after all.
SendLate(i) ==
    /\ i \in late /\ late' = late \ {i} /\ AtBroker(i)
    /\ UNCHANGED <<rowVars, dispatch, sessionVars, entryIntents, bookVars, history, crashes>>

\* The broker's answer comes with an order id, or is lost or has none.
Answer(i) ==
    /\ \E to \in {"placed", "unknown"} : Progress(i, "sent", to)
    /\ UNCHANGED <<rowVars, late, sent, sessionVars, entryIntents, bookVars, history, crashes>>

\* record_approved_entry is posted to the loop of the producing session, if that
\* still runs, and awaited; the wait may time out and leave it posted.
Record(i) ==
    /\ Progress(i, "placed", "recorded")
    /\ \/ alive /\ producer[i] = session /\ posted' = posted \cup {i}
       \/ UNCHANGED posted
    /\ UNCHANGED <<rowVars, late, sent, sessionVars, entryIntents, tracked, exited, history,
                   crashes>>

\* It runs, and tracks the entry unless the symbol already is.
RecordApprovedEntry(i) ==
    /\ i \in posted /\ posted' = posted \ {i}
    /\ \/ /\ tracked[symbol[i]] = None
          /\ tracked' = [tracked EXCEPT ![symbol[i]] = i] /\ told' = told \cup {i}
       \/ tracked[symbol[i]] # None /\ UNCHANGED <<tracked, told>>
    /\ UNCHANGED <<rowVars, dispatch, late, sent, sessionVars, entryIntents, exited, unmarked,
                   crashes>>

\* Mutant: a timed-out dispatch is closed as a certain failure.
MutVerdict(i) == IF dispatch[i] = "recorded" THEN <<"approved", FALSE>> ELSE <<"failed", FALSE>>

\* The status and the outcome_uncertain flag a finished dispatch is closed with.
Verdict(i) ==
    IF dispatch[i] = "recorded" THEN <<"approved", FALSE>>
    ELSE <<"failed", dispatch[i] = "unknown">>

\* mark_approved and mark_failed; when the store raises the row keeps its status.
Resolve(i) ==
    /\ dispatch[i] \in {"refused", "unknown", "recorded"} /\ status[i] = "dispatching"
    /\ dispatch' = [dispatch EXCEPT ![i] = "none"]
    /\ \/ /\ status' = [status EXCEPT ![i] = Verdict(i)[1]]
          /\ uncertain' = [uncertain EXCEPT ![i] = Verdict(i)[2]]
          /\ UNCHANGED unmarked
       \/ unmarked' = unmarked \cup {i} /\ UNCHANGED <<status, uncertain>>
    /\ UNCHANGED <<symbol, producer, allocated, late, sent, sessionVars, entryIntents,
                   bookVars, told, crashes>>

-----------------------------------------------------------------------------
(* The session.                                                             *)

\* start_agent takes the single slot once the last thread is gone.
Start ==
    /\ ~alive /\ session < MaxSessions
    /\ session' = session + 1 /\ alive' = TRUE /\ phase' = "running"
    /\ stopRequested' = FALSE /\ squareOff' = FALSE /\ toExit' = {}
    /\ entryIntents' = [s \in Symbols |-> None] /\ tracked' = [s \in Symbols |-> None]
    /\ again' = FALSE
    /\ UNCHANGED <<rowVars, dispatch, late, sent, exited, posted, history, crashes>>

\* An accepted exit order drops the symbol.
Exit(s) ==
    /\ tracked' = [tracked EXCEPT ![s] = None]
    /\ exited' = exited \cup {tracked[s]} /\ UNCHANGED posted

\* A stop-loss or take-profit exit of monitor.
MonitorExit(s) ==
    /\ alive /\ phase \in {"running", "stopping"} /\ tracked[s] # None
    /\ Exit(s)
    /\ UNCHANGED <<rowVars, dispatch, late, sent, sessionVars, entryIntents, history, crashes>>

\* stop_agent, at any time and repeatedly.  After a failed square-off at the
\* square-off time the loop looks at the status once more, and tries again.
RequestStop ==
    /\ alive
    /\ stopRequested' = TRUE /\ squareOff' \in {squareOff, TRUE}
    /\ \/ phase = "running" /\ phase' = "stopping" /\ UNCHANGED again
       \/ phase = "stop_failed" /\ again /\ phase' = "stopping" /\ again' = FALSE
       \/ phase # "running" /\ UNCHANGED <<phase, again>>
    /\ UNCHANGED <<rowVars, dispatch, late, sent, session, alive, toExit, entryIntents,
                   bookVars, history, crashes>>

Open == {s \in Symbols : tracked[s] # None}

\* _square_off_all starts from a copy of the tracked positions: at the square-off
\* time, at the market's close with positions open, or on a stop.
BeginSquareOff ==
    /\ alive
    /\ \/ phase = "running" /\ again' \in BOOLEAN
       \/ phase = "stopping" /\ squareOff /\ again' = FALSE
    /\ phase' = "squaring" /\ stopRequested' = TRUE /\ squareOff' = TRUE /\ toExit' = Open
    /\ UNCHANGED <<rowVars, dispatch, late, sent, session, alive, entryIntents, bookVars,
                   history, crashes>>

\* One exit is accepted, is refused, or aborts the rest.
SquareOffOne(s) ==
    /\ phase = "squaring" /\ s \in toExit
    /\ \/ toExit' = toExit \ {s} /\ Exit(s)
       \/ toExit' = toExit \ {s} /\ UNCHANGED bookVars
       \/ toExit' = {} /\ UNCHANGED bookVars
    /\ UNCHANGED <<rowVars, dispatch, late, sent, session, alive, phase, stopRequested,
                   squareOff, again, entryIntents, history, crashes>>

\* Mutant: the verdict forgets what was recorded during the square-off.
MutFlat == TRUE

\* _square_off_all returns whether nothing is tracked any more.
Flat == Open = {}

\* _finish_square_off
FinishSquareOff ==
    /\ phase = "squaring" /\ toExit = {}
    /\ phase' = IF Flat THEN "squared_off" ELSE "stop_failed"
    /\ UNCHANGED <<rowVars, dispatch, late, sent, session, alive, stopVars, entryIntents,
                   bookVars, history, crashes>>

\* Mutant: only the market's close ends the loop without a square-off.
MutLeaveLoop ==
    /\ phase = "running" /\ alive /\ Open = {} /\ phase' = "stopped"
    /\ UNCHANGED <<rowVars, dispatch, late, sent, session, alive, stopVars, entryIntents,
                   bookVars, history, crashes>>

\* The loop ends without a square-off: stopped without one, or closed with nothing
\* open ...
LeaveLoop ==
    /\ \/ phase = "stopping" /\ ~squareOff /\ phase' = "stopped"
       \/ phase = "running" /\ alive /\ Open = {} /\ phase' = "stopped"
    /\ UNCHANGED <<rowVars, dispatch, late, sent, session, alive, stopVars, entryIntents,
                   bookVars, history, crashes>>

\* ... or by an exception.
Fail ==
    /\ phase \in {"running", "stopping"} /\ alive /\ phase' = "error"
    /\ UNCHANGED <<rowVars, dispatch, late, sent, session, alive, stopVars, entryIntents,
                   bookVars, history, crashes>>

\* The thread's last act is reject_pending_by_producer, which may fail.
EndThread ==
    /\ alive /\ phase \in {"squared_off", "stop_failed", "stopped", "error"}
    /\ alive' = FALSE /\ posted' = {}
    /\ \/ status' = [i \in Intents |-> IF status[i] = "pending" /\ producer[i] = session
                                       THEN "rejected" ELSE status[i]]
       \/ UNCHANGED status
    /\ UNCHANGED <<uncertain, symbol, producer, allocated, dispatch, late, sent, session,
                   phase, stopVars, entryIntents, tracked, exited, history, crashes>>

\* _reconcile_interrupted_dispatches when the queue is opened again.
Reconciled(i) ==
    IF status[i] = "dispatching" THEN <<"failed", TRUE>> ELSE <<status[i], uncertain[i]>>

\* The process dies, with the session, the dispatches and the router tasks, and the
\* next one opens the queue.
CrashRestart ==
    /\ crashes < MaxCrashes /\ crashes' = crashes + 1
    /\ status' = [i \in Intents |-> Reconciled(i)[1]]
    /\ uncertain' = [i \in Intents |-> Reconciled(i)[2]]
    /\ dispatch' = [i \in Intents |-> "none"] /\ late' = {}
    /\ alive' = FALSE /\ phase' = "stopped" /\ again' = FALSE /\ posted' = {}
    /\ stopRequested' = FALSE /\ squareOff' = FALSE /\ toExit' = {}
    /\ entryIntents' = [s \in Symbols |-> None] /\ tracked' = [s \in Symbols |-> None]
    /\ UNCHANGED <<symbol, producer, allocated, sent, session, exited, history>>

Dispatching(i) ==
    Check(i) \/ Refuse(i) \/ Send(i) \/ Timeout(i) \/ Answer(i) \/ Record(i) \/ Resolve(i)

Ending ==
    \/ BeginSquareOff \/ FinishSquareOff \/ LeaveLoop \/ EndThread
    \/ \E s \in Symbols : SquareOffOne(s)

Next ==
    \/ \E s \in Symbols : Propose(s) \/ Retry(s) \/ MonitorExit(s)
    \/ \E i \in Intents : Close(i) \/ Claim(i) \/ Dispatching(i) \/ SendLate(i) \/ RecordApprovedEntry(i)
    \/ Start \/ RequestStop \/ Ending \/ Fail \/ CrashRestart

\* The request thread of an approval runs to its end: every wait of it has a
\* timeout.  The session's thread does once its loop has been told to stop.
Fairness ==
    /\ \A i \in Intents : WF_vars(Dispatching(i))
    /\ WF_vars(phase # "running" /\ Ending)

Spec == Init /\ [][Next]_vars /\ Fairness

-----------------------------------------------------------------------------
(* Properties.                                                              *)

\* The type invariant; only an entry the session was told of is exited.
TypeOK ==
    /\ status \in [Intents -> {"absent", "pending", "dispatching", "approved", "rejected",
                               "expired", "failed"}]
    /\ uncertain \in [Intents -> BOOLEAN] /\ symbol \in [Intents -> Symbols]
    /\ producer \in [Intents -> 0 .. MaxSessions] /\ allocated \in 0 .. MaxIntents
    /\ dispatch \in [Intents -> {"none", "claimed", "checked", "sent", "unknown", "refused",
                                 "placed", "recorded"}]
    /\ late \subseteq Intents /\ sent \in [Intents -> Nat]
    /\ session \in 0 .. MaxSessions /\ alive \in BOOLEAN
    /\ phase \in {"running", "stopping", "squaring", "squared_off", "stop_failed", "stopped", "error"}
    /\ stopRequested \in BOOLEAN /\ squareOff \in BOOLEAN /\ toExit \subseteq Symbols /\ again \in BOOLEAN
    /\ entryIntents \in [Symbols -> Intents \cup {None}]
    /\ tracked \in [Symbols -> Intents \cup {None}]
    /\ exited \subseteq told /\ told \subseteq Intents /\ posted \subseteq Intents
    /\ unmarked \subseteq Intents /\ crashes \in 0 .. MaxCrashes

\* What the queue tells the operator is true: an intent closed as rejected, expired
\* or failed for certain never reaches the broker, and an approved one has.
OutcomesAreTrue ==
    \A i \in Intents :
        /\ status[i] \in {"rejected", "expired"} \/ (status[i] = "failed" /\ ~uncertain[i]) =>
            sent[i] = 0 /\ i \notin late
        /\ status[i] = "approved" => sent[i] = 1

\* "Never risk a second entry" (_persist), "cannot dispatch the same intent twice"
\* (claim_for_dispatch): a session enters a symbol at most once, by one intent,
\* whatever timed out, was retried, was approved twice or crashed.
OneEntryPerSymbol ==
    \A i, j \in Intents :
        producer[i] = producer[j] /\ symbol[i] = symbol[j] =>
            IF i = j THEN sent[i] <= 1 ELSE sent[i] = 0 \/ sent[j] = 0

\* A session reports that it has squared off only when every entry it was told of
\* has an accepted exit, those it was told of while it squared off included.
SquaredOffMeansExited ==
    [][phase = "squaring" /\ phase' = "squared_off" =>
        \A i \in told : producer[i] = session => i \in exited]_vars

\* Every claimed intent is closed, unless the store refused to.
DispatchesResolve ==
    \A i \in Intents : status[i] = "dispatching" ~> status[i] # "dispatching" \/ i \in unmarked

\* A session that has been asked to stop comes to an end.
StopsEnd == stopRequested ~> ~alive
=============================================================================
