-------------------------- MODULE MTMCircuitBreaker --------------------------
(***************************************************************************)
(* MTMCircuitBreaker of flinttrade_engine/safety.py: the account-level      *)
(* daily-loss breaker.  A breached P&L update latches the account for the   *)
(* trading session, drains its admitted writes and dispatches a flatten;    *)
(* the latch of an earlier session is rolled over by the next update or     *)
(* normal write.  Every step is one critical section of _condition or one   *)
(* call outside it.                                                         *)
(*                                                                          *)
(* A process whose journal failed its startup check publishes no router, so *)
(* only processes with a bound journal are modelled.  What a flatten does   *)
(* at the broker is the subject of EmergencyIntents; here it only leaves    *)
(* durable intents behind, or settles them.                                 *)
(***************************************************************************)
EXTENDS Naturals, FiniteSets

CONSTANTS
    Selectors,      \* broker accounts
    NoAccount,      \* no broker account
    Checks,         \* concurrent check_and_act calls
    Writers,        \* threads that perform normal broker writes
    Guarded,        \* the account whose latch ImplementsLatch is about
    JournalFaults,  \* whether durable storage may fail: the cases considered
    Busied,         \* bound: accounts with any activity, in each case
    MaxDay,         \* bound: trading sessions
    MaxStamp,       \* bound: changes of episode rows, in each case
    MaxCrashes      \* bound: process crashes

ASSUME SelectorsAssumption == IsFiniteSet(Selectors) /\ NoAccount \notin Selectors
ASSUME GuardedAssumption == Guarded \in Selectors
ASSUME ThreadsAssumption == IsFiniteSet(Checks) /\ IsFiniteSet(Writers)
ASSUME FaultsAssumption ==
    JournalFaults \subseteq BOOLEAN /\ Busied \in [BOOLEAN -> SUBSET Selectors]
ASSUME BoundsAssumption == {MaxDay, MaxCrashes} \subseteq Nat /\ MaxStamp \in [BOOLEAN -> Nat]

VARIABLES
    episode, unsettled, stamp,          \* durable MTM episodes and intents
    triggered, sessionKey, known,       \* _triggered_selectors, _session_keys, _episodes
    dispatching, normalWrites,          \* _dispatching_selectors, _normal_writes_...
    generation,                         \* _reset_generation
    degraded,                           \* the dispatcher's wrapper journal
    writing, pc, account, began,        \* writer and check threads
    today, up, faulty, crashes,         \* the world; faulty: storage may fail, fixed
    fireDay, vetoed                   \* history

durableVars == <<episode, unsettled, stamp>>
latchVars == <<triggered, sessionKey, known>>
countVars == <<dispatching, normalWrites>>
checkVars == <<pc, account, began>>
worldVars == <<today, up, faulty, crashes>>
historyVars == <<fireDay, vetoed>>
vars == <<durableVars, latchVars, countVars, generation, degraded, writing,
          checkVars, worldVars, historyVars>>

Idle == "idle"
\* An episode row: its session, a stamp that stands for its id and revision, and
\* whether its affected account has been recorded.
NoEpisode == [session |-> 0, stamp |-> 0, targeted |-> FALSE]

Init ==
    /\ episode = [s \in Selectors |-> NoEpisode] /\ unsettled = {} /\ stamp = 0
    /\ triggered = {} /\ sessionKey = [s \in Selectors |-> 0]
    /\ known = [s \in Selectors |-> NoEpisode]
    /\ dispatching = {} /\ normalWrites = [s \in Selectors |-> 0]
    /\ generation = 0 /\ degraded = FALSE
    /\ writing = [w \in Writers |-> NoAccount]
    /\ pc = [t \in Checks |-> Idle] /\ account = [t \in Checks |-> NoAccount]
    /\ began = [t \in Checks |-> 0]
    /\ today = 1 /\ up = TRUE /\ faulty \in JournalFaults /\ crashes = 0
    /\ fireDay = [s \in Selectors |-> 0] /\ vetoed = FALSE

-------------------------------------------------------------------------------
(* Roll-over.  A view is what the critical sections read and write of one   *)
(* account: its durable episode and its latch.                              *)

View(s) == [episode |-> episode[s], key |-> sessionKey[s], known |-> known[s],
            latched |-> s \in triggered]

SetView(s, v) ==
    /\ episode' = [episode EXCEPT ![s] = v.episode]
    /\ sessionKey' = [sessionKey EXCEPT ![s] = v.key]
    /\ known' = [known EXCEPT ![s] = v.known]
    /\ triggered' = IF v.latched THEN triggered \cup {s} ELSE triggered \ {s}

Result(v, ok) == [view |-> v, ok |-> ok]

\* Mutant: a latch of the running session already counts as a prior one.
PriorOrCurrent(key) == key # 0 /\ key <= today

\* _is_prior_session, false for an account without a session key.
PriorSession(key) == key # 0 /\ key < today

\* Mutant: only writes in flight hold the latch, a flatten does not.
WritesOnly(s) == normalWrites[s] > 0

\* A dispatch or a write of the account is in flight.
Busy(s) == s \in dispatching \/ normalWrites[s] > 0

\* Mutant: the episode is deactivated over unsettled broker intents.
UnchangedEpisode(s, row, expected) == row = expected

\* deactivate_episode: the row is the expected one and nothing is unsettled;
\* otherwise EmergencyIntentConflict.
Deactivatable(s, row, expected) == row = expected /\ s \notin unsettled

\* _roll_over_prior_session_locked: ok is FALSE when it raises.  A latch without
\* a remembered episode passes None to the journal, which is a TypeError; a
\* failed durable write may have committed.
RollOver(s, v) ==
    LET gone == [v EXCEPT !.episode = NoEpisode]
        released == [gone EXCEPT !.key = 0, !.known = NoEpisode, !.latched = FALSE]
        failures == IF faulty THEN {Result(v, FALSE)} ELSE {}
    IN  IF ~PriorSession(v.key) \/ Busy(s) THEN {Result(v, TRUE)}
        ELSE IF v.known = NoEpisode THEN {Result(v, FALSE)}
        ELSE IF ~Deactivatable(s, v.episode, v.known) THEN {Result(v, TRUE)} \cup failures
        ELSE {Result(released, TRUE)} \cup failures
             \cup (IF faulty THEN {Result(gone, FALSE)} ELSE {})

-------------------------------------------------------------------------------
(* Normal writes.                                                           *)

\* Mutant: an episode found in the journal is not rolled over a second time.
RestoreOnly(s, v) ==
    {Result([v EXCEPT !.latched = TRUE, !.key = v.episode.session, !.known = v.episode], TRUE)}

\* A durable episode restores the latch from its own row, and is rolled over
\* when it belongs to a prior session.
Restore(s, v) ==
    RollOver(s, [v EXCEPT !.latched = TRUE, !.key = v.episode.session, !.known = v.episode])

\* The critical section of broker_write_admission.
Admission(s) ==
    UNION {IF ~r.ok THEN {r}
           ELSE (IF faulty THEN {Result(r.view, FALSE)} ELSE {})
                \cup {Result(q.view, q.ok /\ ~q.view.latched) :
                         q \in IF r.view.episode # NoEpisode THEN Restore(s, r.view) ELSE {r}}
           : r \in RollOver(s, View(s))}

AdmitNormalWrite(w, s) ==
    /\ up /\ writing[w] = NoAccount
    /\ \E r \in Admission(s) : r.ok /\ SetView(s, r.view)
    /\ normalWrites' = [normalWrites EXCEPT ![s] = @ + 1]
    /\ writing' = [writing EXCEPT ![w] = s]
    /\ UNCHANGED <<unsettled, stamp, dispatching, generation, degraded, checkVars,
                   worldVars, historyVars>>

\* A refused write may still have restored or rolled over the latch.
RefuseNormalWrite(w, s) ==
    /\ up /\ writing[w] = NoAccount
    /\ \E r \in Admission(s) : ~r.ok /\ SetView(s, r.view)
    /\ UNCHANGED <<unsettled, stamp, countVars, generation, degraded, writing,
                   checkVars, worldVars, historyVars>>

FinishNormalWrite(w) ==
    /\ up /\ writing[w] # NoAccount
    /\ normalWrites' = [normalWrites EXCEPT ![writing[w]] = @ - 1]
    /\ writing' = [writing EXCEPT ![w] = NoAccount]
    /\ UNCHANGED <<durableVars, latchVars, dispatching, generation, degraded,
                   checkVars, worldVars, historyVars>>

-------------------------------------------------------------------------------
(* check_and_act.                                                           *)

\* An update within the limit only rolls over.
CheckWithinLimit(s) ==
    /\ up
    /\ \E r \in RollOver(s, View(s)) :
          /\ SetView(s, r.view)
          /\ r.view # View(s)
    /\ UNCHANGED <<unsettled, stamp, countVars, generation, degraded, writing,
                   checkVars, worldVars, historyVars>>

\* A breached update whose roll-over raises: the check ends there.
CheckRaises(s) ==
    /\ up
    /\ \E r \in RollOver(s, View(s)) : ~r.ok /\ SetView(s, r.view)
    /\ vetoed' = TRUE
    /\ UNCHANGED <<unsettled, stamp, countVars, generation, degraded, writing,
                   checkVars, worldVars, fireDay>>

\* Mutant: a second check of the account dispatches as well.
NeverDispatching(s) == FALSE

\* A further breached update returns at once; it only sets the latch, which an
\* account being flattened has already (ExclusiveFlatten).
AlreadyDispatching(s) == s \in dispatching

\* activate_episode: a new row, or a prior session's renewed.
Renewed(row) ==
    IF row = NoEpisode THEN [session |-> today, stamp |-> stamp + 1, targeted |-> FALSE]
    ELSE IF row.session < today THEN [row EXCEPT !.session = today, !.stamp = stamp + 1]
    ELSE row

\* The episode write of a breach: durable, or refused by storage with the write
\* committed or not.  Then the wrapper journal keeps it (ready) or nothing does.
Activate(s, v, ready) ==
    LET row == Renewed(v.episode)
    IN  \/ /\ ready
           /\ SetView(s, [episode |-> row, key |-> row.session, known |-> row, latched |-> TRUE])
           /\ UNCHANGED degraded
        \/ /\ faulty
           /\ degraded' \in IF ready THEN {degraded, TRUE} ELSE {degraded}
           /\ \E stored \in IF ready /\ ~degraded' THEN {row} ELSE {v.episode, row} :
                 SetView(s, [v EXCEPT !.episode = stored, !.latched = TRUE,
                                      !.key = IF ready THEN today ELSE @])

\* A breached update latches the account and starts its flatten.
CheckFires(t, s) ==
    /\ up /\ pc[t] = Idle /\ stamp < MaxStamp[faulty]
    /\ ~AlreadyDispatching(s)
    /\ \E r \in RollOver(s, View(s)), ready \in BOOLEAN :
          /\ r.ok
          /\ Activate(s, r.view, ready)
          /\ pc' = [pc EXCEPT ![t] = IF ready THEN "drain" ELSE "finish"]
    /\ stamp' = stamp + 1
    /\ account' = [account EXCEPT ![t] = s]
    /\ began' = [began EXCEPT ![t] = generation]
    /\ dispatching' = dispatching \cup {s}
    /\ fireDay' = [fireDay EXCEPT ![s] = today]
    /\ UNCHANGED <<unsettled, normalWrites, generation, writing, worldVars, vetoed>>

WritesDrained(s) == normalWrites[s] = 0

\* _wait_for_normal_writes returned; without a dispatcher, or when its lease or
\* its targets are unavailable, the check ends.
Drained(t) ==
    /\ up /\ pc[t] = "drain" /\ WritesDrained(account[t])
    /\ pc' = [pc EXCEPT ![t] = "bind"]
    /\ UNCHANGED <<durableVars, latchVars, countVars, generation, degraded, writing,
                   account, began, worldVars, historyVars>>

\* The drain timed out, or the dispatch failed before binding its target.
GivesUp(t) ==
    /\ up
    /\ \/ pc[t] = "drain" /\ ~WritesDrained(account[t])
       \/ pc[t] = "bind"
    /\ pc' = [pc EXCEPT ![t] = "finish"]
    /\ UNCHANGED <<durableVars, latchVars, countVars, generation, degraded, writing,
                   account, began, worldVars, historyVars>>

\* _bind_episode_targets: recording the account for the first time changes the
\* row the breaker remembers.
BindTargets(t) ==
    /\ up /\ pc[t] = "bind" /\ stamp < MaxStamp[faulty]
    /\ LET s == account[t]
           row == IF episode[s] = NoEpisode THEN Renewed(NoEpisode) ELSE episode[s]
           bound == IF row.targeted THEN row
                    ELSE [row EXCEPT !.targeted = TRUE, !.stamp = stamp + 1]
       IN  \/ /\ ~degraded /\ UNCHANGED degraded
              /\ episode' = [episode EXCEPT ![s] = bound]
           \/ /\ degraded \/ faulty
              /\ degraded' = TRUE
              /\ \E stored \in {episode[s]} \cup (IF degraded THEN {} ELSE {row, bound}) :
                    episode' = [episode EXCEPT ![s] = stored]
    /\ stamp' = stamp + 1
    /\ pc' = [pc EXCEPT ![t] = "sweep"]
    /\ UNCHANGED <<unsettled, latchVars, countVars, generation, writing, account,
                   began, worldVars, historyVars>>

\* The planned reduction: durable intents are left or settled.  Degraded, the
\* durable journal is not touched any more.
Sweep(t) ==
    /\ up /\ pc[t] = "sweep"
    /\ \/ /\ ~degraded
          /\ degraded' \in {FALSE, faulty}
          /\ unsettled' \in {unsettled \cup {account[t]}, unsettled \ {account[t]}}
       \/ degraded /\ UNCHANGED <<degraded, unsettled>>
    /\ pc' = [pc EXCEPT ![t] = "finish"]
    /\ UNCHANGED <<episode, stamp, latchVars, countVars, generation, writing, account,
                   began, worldVars, historyVars>>

\* The finally clause of check_and_act.
FinishCheck(t) ==
    /\ up /\ pc[t] = "finish"
    /\ dispatching' = IF began[t] = generation THEN dispatching \ {account[t]} ELSE dispatching
    /\ pc' = [pc EXCEPT ![t] = Idle]
    /\ account' = [account EXCEPT ![t] = NoAccount]
    /\ began' = [began EXCEPT ![t] = 0]
    /\ UNCHANGED <<durableVars, latchVars, normalWrites, generation, degraded, writing,
                   worldVars, historyVars>>

-------------------------------------------------------------------------------
(* The daily reset, the calendar, crash and restart.                        *)

\* reset_daily: all triggered accounts at once, over their current rows.
ResetDaily ==
    /\ up /\ triggered # {}
    /\ dispatching = {} /\ \A s \in triggered : normalWrites[s] = 0
    /\ \A s \in triggered : episode[s] # NoEpisode /\ s \notin unsettled
    /\ episode' = [s \in Selectors |-> IF s \in triggered THEN NoEpisode ELSE episode[s]]
    /\ generation' = generation + 1
    /\ triggered' = {} /\ sessionKey' = [s \in Selectors |-> 0]
    /\ known' = [s \in Selectors |-> NoEpisode]
    /\ fireDay' = [s \in Selectors |-> 0]
    /\ UNCHANGED <<unsettled, stamp, countVars, degraded, writing, checkVars,
                   worldVars, vetoed>>

\* A storage failure of reset_daily that committed: refused, and the latch stays.
ResetDailyFails ==
    /\ up /\ faulty /\ triggered # {}
    /\ dispatching = {} /\ \A s \in triggered : normalWrites[s] = 0
    /\ \A s \in triggered : episode[s] # NoEpisode /\ s \notin unsettled
    /\ episode' = [s \in Selectors |-> IF s \in triggered THEN NoEpisode ELSE episode[s]]
    /\ UNCHANGED <<unsettled, stamp, latchVars, countVars, generation, degraded,
                   writing, checkVars, worldVars, historyVars>>

NextDay ==
    /\ today < MaxDay
    /\ today' = today + 1
    /\ UNCHANGED <<durableVars, latchVars, countVars, generation, degraded, writing,
                   checkVars, up, faulty, crashes, historyVars>>

\* A crash in the middle of a flatten may leave durable intents.
Crash ==
    /\ up /\ crashes < MaxCrashes
    /\ crashes' = crashes + 1 /\ up' = FALSE
    /\ \E left \in SUBSET {account[t] : t \in {u \in Checks : pc[u] = "sweep"}} :
          unsettled' = IF degraded THEN unsettled ELSE unsettled \cup left
    /\ triggered' = {} /\ sessionKey' = [s \in Selectors |-> 0]
    /\ known' = [s \in Selectors |-> NoEpisode]
    /\ dispatching' = {} /\ normalWrites' = [s \in Selectors |-> 0]
    /\ generation' = 0 /\ degraded' = FALSE
    /\ writing' = [w \in Writers |-> NoAccount]
    /\ pc' = [t \in Checks |-> Idle] /\ account' = [t \in Checks |-> NoAccount]
    /\ began' = [t \in Checks |-> 0]
    /\ UNCHANGED <<episode, stamp, today, faulty, historyVars>>

\* Mutant: only accounts with unsettled intents are latched again.
RestoredUnsettled == {s \in Selectors : episode[s] # NoEpisode} \cap unsettled

\* The accounts bind_emergency_journal latches: all but the settled ones of a
\* prior session, whose episodes it deactivates.
Restored ==
    {s \in Selectors : /\ episode[s] # NoEpisode
                       /\ episode[s].session < today => s \in unsettled}

Restart ==
    /\ ~up /\ up' = TRUE
    /\ triggered' = Restored
    /\ episode' = [s \in Selectors |->
          IF episode[s].session < today /\ s \notin unsettled THEN NoEpisode ELSE episode[s]]
    /\ known' = [s \in Selectors |-> IF s \in Restored THEN episode[s] ELSE NoEpisode]
    /\ sessionKey' = [s \in Selectors |-> IF s \in Restored THEN episode[s].session ELSE 0]
    /\ UNCHANGED <<unsettled, stamp, countVars, generation, degraded, writing,
                   checkVars, today, faulty, crashes, historyVars>>

CheckStep(t) ==
    \/ \E s \in Busied[faulty] : CheckFires(t, s)
    \/ Drained(t) \/ GivesUp(t) \/ BindTargets(t) \/ Sweep(t) \/ FinishCheck(t)

Next ==
    \/ \E t \in Checks : CheckStep(t)
    \/ \E s \in Busied[faulty] : CheckWithinLimit(s) \/ CheckRaises(s)
    \/ \E w \in Writers :
          \/ \E s \in Busied[faulty] : AdmitNormalWrite(w, s) \/ RefuseNormalWrite(w, s)
          \/ FinishNormalWrite(w)
    \/ ResetDaily \/ ResetDailyFails \/ NextDay \/ Crash \/ Restart

Spec == Init /\ [][Next]_vars

-------------------------------------------------------------------------------
(* Properties.                                                              *)

Flattening(t) == pc[t] \in {"bind", "sweep"}
Episodes == [session : Nat, stamp : Nat, targeted : BOOLEAN]

\* Every variable keeps its type; no account's write counter goes below zero.
TypeOK ==
    /\ episode \in [Selectors -> Episodes] /\ known \in [Selectors -> Episodes]
    /\ unsettled \subseteq Selectors /\ stamp \in Nat
    /\ triggered \subseteq Selectors /\ sessionKey \in [Selectors -> Nat]
    /\ dispatching \subseteq Selectors /\ normalWrites \in [Selectors -> Nat]
    /\ generation \in Nat /\ degraded \in BOOLEAN
    /\ writing \in [Writers -> Selectors \cup {NoAccount}]
    /\ pc \in [Checks -> {Idle, "drain", "bind", "sweep", "finish"}]
    /\ account \in [Checks -> Selectors \cup {NoAccount}] /\ began \in [Checks -> Nat]
    /\ today \in Nat /\ up \in BOOLEAN /\ faulty \in BOOLEAN /\ crashes \in Nat
    /\ fireDay \in [Selectors -> Nat] /\ vetoed \in BOOLEAN

\* An account is flattened by one check at a time, which is the one recorded in
\* _dispatching_selectors, and stays latched meanwhile, also across the session
\* change and a daily reset; none of its normal writes is between admission and
\* return: none was still in flight when the flatten began, and none was let in.
ExclusiveFlatten ==
    /\ dispatching \subseteq triggered
    /\ \A t, u \in Checks : t # u /\ pc[t] # Idle => account[t] # account[u]
    /\ dispatching = {account[t] : t \in {u \in Checks : pc[u] # Idle}}
    /\ \A t \in Checks, w \in Writers : Flattening(t) => writing[w] # account[t]

\* A running process is latched for every account with a durable episode, after
\* any crash, roll-over, renewal, reset or failed journal write.
EpisodeLatches ==
    up => \A s \in Selectors : episode[s] # NoEpisode => s \in triggered

\* An account whose broker intents are unsettled keeps its durable episode: no
\* roll-over, daily reset or restart lets its latch go.
UnsettledKeepsEpisode == \A s \in unsettled : episode[s] # NoEpisode

\* "The breaker latches for the trading day": no normal write is admitted for an
\* account on the day its flatten was started, short of a daily reset.
LatchStep ==
    \A w \in Writers :
        writing[w] = NoAccount /\ writing'[w] # NoAccount => fireDay[writing'[w]] # today
LatchesForTheDay == [][LatchStep]_vars

\* While storage works the breaker keeps that promise.
DurableLatchesForTheDay == [][~faulty => LatchStep]_vars

\* While storage works the latch ends with the session: an account that did not fire today, has no
\* unsettled intent and no dispatch or write in flight can be traded, however
\* its episode changed since the breaker last looked at it.
DurableReopens ==
    ~faulty => \A s \in Selectors :
        up /\ fireDay[s] < today /\ s \notin unsettled /\ ~Busy(s)
            => \E r \in Admission(s) : r.ok

\* The breaker implements the emergency latch for an account (any one: they are
\* alike): no write of it is admitted while it is latched, it is flattened only
\* behind the latch, with no write of it in flight, and neither a roll-over nor a
\* daily reset lifts the latch under a flatten.
Latched == INSTANCE EmergencyLatch WITH
    Accounts <- {Guarded},
    open <- up /\ Guarded \notin triggered,
    sweeping <- {Guarded} \cap {account[t] : t \in {u \in Checks : Flattening(u)}},
    writing <- {Guarded} \cap {writing[w] : w \in Writers}
ImplementsLatch == Latched!Spec

\* "A dead durable store must not veto the account flatten": no breached update
\* ends before its flatten is started.
NeverVetoed == ~vetoed

====
