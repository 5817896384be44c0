--------------------------- MODULE EmergencyIntents ---------------------------
(***************************************************************************)
(* The write-ahead journal of emergency broker mutations                    *)
(* (flinttrade_engine/emergency_intents.py) driven by the planned-target    *)
(* dispatcher of safety.py, for one broker account.  A scope is one         *)
(* resource a reducing write acts on (a position).  Dispatches of one       *)
(* account are serialised by the generation lease; what interleaves with    *)
(* them is the broker, the operator, storage failures and crashes.          *)
(*                                                                          *)
(* Episodes are the subject of KillSwitch; here binding the targets is      *)
(* taken to have succeeded, durably or in the process-local mirror.         *)
(***************************************************************************)
EXTENDS Naturals, FiniteSets

CONSTANTS
    Scopes,         \* resources of the account
    Sources,        \* emergency sources: the kill switch and the MTM breaker
    JournalFaults,  \* whether durable storage may fail: the cases considered
    UsedIds,        \* intent ids an earlier process already used up, in each case
    QuietReads,     \* planned_quiet_reads
    MaxLag,         \* consecutive reads that may lag behind the broker
    ReadAttempts,   \* bound: planned_readback_attempts
    MaxId,          \* bound: intent ids either journal hands out, in each case
    MaxCrashes      \* bound: process crashes, in each case

ASSUME SetsAssumption == IsFiniteSet(Scopes) /\ IsFiniteSet(Sources)
ASSUME FaultsAssumption == JournalFaults \subseteq BOOLEAN
ASSUME ReadsAssumption ==
    /\ QuietReads \in Nat \ {0} /\ ReadAttempts \in Nat /\ QuietReads <= ReadAttempts
    /\ MaxLag \in Nat /\ MaxLag < QuietReads
ASSUME BoundsAssumption == {UsedIds, MaxId, MaxCrashes} \subseteq [BOOLEAN -> Nat]

VARIABLES
    primary, primaryNext,           \* EmergencyIntentJournal: rows, AUTOINCREMENT
    fallback, fallbackNext,         \* InMemoryEmergencyIntentJournal
    degraded, intentIds,            \* EmergencyDispatchIntentJournal
    latched,                        \* sources with an active episode
    pc, source, unresolved,         \* _dispatch_planned_target and its locals
    todo, failed, blocked, newly,
    quiet, lag, attempt,
    cur, answer, complete,
    open, inflight, working,        \* the broker
    faulty,                         \* whether durable storage may fail, fixed
    overexited, crashes             \* history

primaryVars == <<primary, primaryNext>>
fallbackVars == <<fallback, fallbackNext, intentIds>>
journalVars == <<primaryVars, fallbackVars, degraded>>
loopVars == <<todo, failed, blocked, newly, quiet, lag, attempt>>
callVars == <<source, unresolved, loopVars, cur, answer, complete>>
brokerVars == <<open, inflight, working, overexited>>
worldVars == <<faulty, crashes>>
vars == <<journalVars, latched, pc, callVars, brokerVars, worldVars>>

Idle == "idle"
States == {"reserved", "acknowledged", "outcome_unknown"}
None == [id |-> 0, source |-> "none", state |-> "none"]
Empty == [s \in Scopes |-> None]
Ids == 1 .. MaxId[faulty]
NoIds == [i \in Ids |-> 0]
NoScope == "none"
Zero == [s \in Scopes |-> 0]

Present(journal) == {s \in Scopes : journal[s] # None}

Init ==
    /\ faulty \in JournalFaults
    /\ primary = Empty /\ primaryNext = UsedIds[faulty] + 1
    /\ fallback = Empty /\ fallbackNext = 1
    /\ degraded = FALSE /\ intentIds = NoIds
    /\ latched = {}
    /\ pc = Idle /\ source = "none" /\ unresolved = Empty
    /\ todo = {} /\ failed = {} /\ blocked = FALSE /\ newly = FALSE
    /\ quiet = 0 /\ lag = 0 /\ attempt = 0
    /\ cur = NoScope /\ answer = "none" /\ complete = FALSE
    /\ open = {} /\ inflight = Zero /\ working = Zero
    /\ overexited = {} /\ crashes = 0

-------------------------------------------------------------------------------
(* The wrapper journal.                                                     *)

\* _mirror_intent over the rows of R, in intent id order: each is reserved in
\* the mirror unless its scope is there already, and takes over the row's state.
MirroredId(R, s) ==
    IF fallback[s] # None THEN fallback[s].id
    ELSE fallbackNext + Cardinality({r \in R : fallback[r] = None
                                               /\ primary[r].id < primary[s].id})
MirroredRow(R, s) ==
    LET state == IF primary[s].state # "reserved" THEN primary[s].state
                 ELSE IF fallback[s] # None THEN fallback[s].state ELSE "reserved"
        owner == IF fallback[s] # None THEN fallback[s].source ELSE primary[s].source
    IN  [id |-> MirroredId(R, s), source |-> owner, state |-> state]
Mirror(R) ==
    /\ fallback' = [s \in Scopes |-> IF s \in R THEN MirroredRow(R, s) ELSE fallback[s]]
    /\ fallbackNext' = fallbackNext + Cardinality({r \in R : fallback[r] = None})
    /\ intentIds' = [i \in Ids |->
          IF \E s \in R : primary[s].id = i
          THEN MirroredId(R, CHOOSE s \in R : primary[s].id = i) ELSE intentIds[i]]

\* _fallback_intent_id
FallbackId(i) == IF i \in Ids /\ intentIds[i] # 0 THEN intentIds[i] ELSE i

\* The same row update in either journal.
WithState(journal, i, state) ==
    [s \in Scopes |-> IF journal[s].id = i /\ journal[s] # None
                      THEN [journal[s] EXCEPT !.state = state] ELSE journal[s]]
Without(journal, S) == [s \in Scopes |-> IF s \in S THEN None ELSE journal[s]]

\* One durable write through the wrapper: while healthy it commits; a storage
\* failure degrades the wrapper, whether or not the write had committed.
\* Degraded, the durable journal is not touched.
DurableWrite(committed) ==
    \/ ~degraded /\ primary' = committed /\ UNCHANGED degraded
    \/ ~degraded /\ faulty /\ primary' \in {primary, committed} /\ degraded' = TRUE
    \/ degraded /\ UNCHANGED <<primary, degraded>>

-------------------------------------------------------------------------------
(* One dispatch: read what is unresolved, then plan, write, read back.      *)

\* unresolved(selector, verbs, source=...)
Unresolved(src, journal) ==
    [s \in Scopes |-> IF journal[s].source = src THEN journal[s] ELSE None]

\* The source latches and its dispatcher reads its unresolved intents, from
\* durable storage (mirroring them) or, degraded, from the mirror.
Begin(src) ==
    /\ pc = Idle
    /\ latched' = latched \cup {src}
    /\ \/ /\ ~degraded /\ UNCHANGED degraded
          /\ unresolved' = Unresolved(src, primary)
          /\ Mirror(Present(unresolved'))
       \/ /\ degraded \/ faulty
          /\ degraded' = TRUE
          /\ unresolved' = Unresolved(src, fallback)
          /\ UNCHANGED fallbackVars
    /\ source' = src /\ pc' = "read" /\ complete' = FALSE
    /\ todo' = {} /\ failed' = {} /\ blocked' = FALSE /\ newly' = FALSE
    /\ quiet' = 0 /\ lag' = 0 /\ attempt' = 0
    /\ UNCHANGED <<primaryVars, cur, answer, brokerVars, worldVars>>

\* The dispatch returns its result and drops its locals.
Return(result) ==
    /\ pc' = Idle /\ complete' = result
    /\ source' = "none" /\ unresolved' = Empty
    /\ todo' = {} /\ failed' = {} /\ blocked' = FALSE /\ newly' = FALSE
    /\ quiet' = 0 /\ lag' = 0 /\ attempt' = 0
    /\ cur' = NoScope /\ answer' = "none"

\* No router, no planner, or a failed read.
ReadFails ==
    /\ pc \in {"read", "write"}
    /\ Return(FALSE)
    /\ UNCHANGED <<journalVars, latched, brokerVars, worldVars>>

\* The resources the broker shows as not yet flat and quiet.
Unquiet == open \cup {s \in Scopes : working[s] > 0}

\* plan_emergency_reduction: an authoritative read, or one that lags: it may
\* miss resources and still show those whose exit has just filled.
Shows(V) ==
    \/ V = Unquiet /\ lag' = 0
    \/ /\ lag < MaxLag /\ V # Unquiet
       /\ V \subseteq Unquiet \cup Present(unresolved)
       /\ lag' = lag + 1

\* Mutant: the quiet streak survives a read that is not quiet.
KeepStreak == quiet

\* consecutive_quiet = 0
ResetStreak == 0

AttemptsLeft == attempt < ReadAttempts

Read ==
    /\ pc = "read" /\ AttemptsLeft
    /\ attempt' = attempt + 1
    /\ \E V \in SUBSET Scopes :
          /\ Shows(V)
          /\ \/ /\ V = {}
                /\ quiet' = quiet + 1
                /\ pc' = IF quiet' >= QuietReads THEN "settle" ELSE "read"
                /\ UNCHANGED <<todo, blocked, newly>>
             \/ /\ V # {}
                /\ quiet' = ResetStreak
                /\ pc' = "write"
                /\ todo' \in SUBSET V     \* a replaced router ends the plan early
                /\ blocked' = FALSE /\ newly' = FALSE
    /\ UNCHANGED <<journalVars, latched, source, unresolved, failed, cur, answer,
                   complete, brokerVars, worldVars>>

\* The read-back attempts are used up.
ReadsExhausted ==
    /\ pc = "read" /\ ~AttemptsLeft
    /\ Return(FALSE)
    /\ UNCHANGED <<journalVars, latched, brokerVars, worldVars>>

\* A write that already failed in this dispatch, or whose intent is unresolved.
Withheld(s) == s \in failed \/ unresolved[s] # None

\* A planned write is withheld, or its gate cannot be minted.
SkipWrite(s) ==
    /\ pc = "write" /\ s \in todo
    /\ failed' \in IF Withheld(s) THEN {failed} ELSE {failed \cup {s}}
    /\ todo' = todo \ {s} /\ blocked' = TRUE
    /\ UNCHANGED <<journalVars, latched, pc, source, unresolved, newly, quiet, lag,
                   attempt, cur, answer, complete, brokerVars, worldVars>>

\* reserve in one journal: the row of the scope, or a new one with the next id.
Row(journal, s, next) ==
    IF journal[s] # None THEN journal[s]
    ELSE [id |-> next, source |-> source, state |-> "reserved"]
NextId(journal, s, next) == IF journal[s] # None THEN next ELSE next + 1

\* Mutant: a scope that already has a row counts as newly reserved.
AlwaysCreated(journal, s) == TRUE

\* The created flag of reserve.
Created(journal, s) == journal[s] = None

\* The wrapper's reserve: the mirror first, then durable storage.  The row and
\* the created flag come from durable storage unless it failed.
Reserve(s) ==
    /\ pc = "write" /\ s \in todo /\ ~Withheld(s)
    /\ primaryNext \in Ids /\ fallbackNext \in Ids
    /\ fallback' = [fallback EXCEPT ![s] = Row(fallback, s, fallbackNext)]
    /\ fallbackNext' = NextId(fallback, s, fallbackNext)
    /\ \/ /\ ~degraded /\ UNCHANGED degraded
          /\ primary' = [primary EXCEPT ![s] = Row(primary, s, primaryNext)]
          /\ primaryNext' = NextId(primary, s, primaryNext)
          /\ intentIds' = [intentIds EXCEPT ![primary'[s].id] = fallback'[s].id]
       \/ /\ degraded \/ faulty
          /\ degraded' = TRUE
          /\ \/ UNCHANGED primaryVars
             \/ /\ ~degraded
                /\ primary' = [primary EXCEPT ![s] = Row(primary, s, primaryNext)]
                /\ primaryNext' = NextId(primary, s, primaryNext)
          /\ UNCHANGED intentIds
    /\ LET journal == IF degraded' THEN fallback ELSE primary
           journal1 == IF degraded' THEN fallback' ELSE primary'
           created == Created(journal, s)
       IN  /\ unresolved' = [unresolved EXCEPT ![s] = journal1[s]]
           /\ pc' = IF created THEN "send" ELSE "write"
           /\ cur' = IF created THEN s ELSE cur
           /\ blocked' = (blocked \/ ~created)
    /\ todo' = todo \ {s}
    /\ UNCHANGED <<latched, source, failed, newly, quiet, lag, attempt, answer,
                   complete, brokerVars, worldVars>>

\* The write crosses the router.  "unreached": refused before the adapter was
\* invoked.  "lost": the adapter was invoked and its answer never came; the
\* request may still reach the broker.  "garbled": accepted, but the answer does
\* not name the order.
Send ==
    /\ pc = "send"
    /\ answer' \in {"unreached", "refused", "lost", "garbled", "ok"}
    /\ working' = [working EXCEPT ![cur] = IF answer' \in {"ok", "garbled"} THEN @ + 1 ELSE @]
    /\ inflight' = [inflight EXCEPT ![cur] = IF answer' = "lost" THEN @ + 1 ELSE @]
    /\ newly' = (newly \/ answer' # "unreached")
    /\ pc' = "answered"
    /\ UNCHANGED <<journalVars, latched, source, unresolved, todo, failed, blocked,
                   quiet, lag, attempt, cur, complete, open, overexited, worldVars>>

\* Mutant: every failed write is released, also one the adapter was invoked for.
ReleaseFailures == answer \in {"unreached", "refused", "lost"}

\* Only a write that never reached the adapter gives its reservation back.
Releases == answer = "unreached"

\* acknowledge, mark_unknown or release, through the wrapper.  An id the mirror
\* does not know is a KeyError: the write counts as failed and nothing changes.
RecordAnswer ==
    /\ pc = "answered" /\ answer # "garbled"
    /\ LET i == unresolved[cur].id
           local == {s \in Scopes : fallback[s].id = FallbackId(i)}
           durable == {s \in Scopes : primary[s].id = i /\ primary[s].state = "reserved"}
           state == IF answer = "ok" THEN "acknowledged" ELSE "outcome_unknown"
       IN  /\ \/ /\ Releases
                 /\ DurableWrite(Without(primary, durable))
                 /\ fallback' = Without(fallback, local)
                 /\ unresolved' = [unresolved EXCEPT ![cur] = None]
              \/ /\ ~Releases
                 /\ DurableWrite(IF local = {} THEN primary ELSE WithState(primary, i, state))
                 /\ fallback' = WithState(fallback, FallbackId(i), state)
                 /\ UNCHANGED unresolved
           /\ failed' = IF answer = "ok" /\ local # {} THEN failed ELSE failed \cup {cur}
    /\ pc' = "write" /\ cur' = NoScope /\ answer' = "none"
    /\ UNCHANGED <<primaryNext, fallbackNext, intentIds, latched, source, todo,
                   blocked, newly, quiet, lag, attempt, complete, brokerVars,
                   worldVars>>

\* invalid_broker_result: the dispatch ends and leaves the intent reserved.
InvalidAnswer ==
    /\ pc = "answered" /\ answer = "garbled"
    /\ Return(FALSE)
    /\ UNCHANGED <<journalVars, latched, brokerVars, worldVars>>

\* The plan is done: read back, unless nothing was attempted and some write is
\* withheld.
EndPlan ==
    /\ pc = "write" /\ todo = {}
    /\ \/ /\ blocked /\ ~newly
          /\ Return(FALSE)
       \/ /\ ~(blocked /\ ~newly)
          /\ pc' = "read"
          /\ UNCHANGED callVars
    /\ UNCHANGED <<journalVars, latched, brokerVars, worldVars>>

\* settle in one journal: exactly the expected ids must be what is unresolved.
Matching(journal) == {journal[s].id : s \in {r \in Scopes : journal[r].source = source}}
Settled(journal) == [s \in Scopes |-> IF journal[s].source = source THEN None ELSE journal[s]]
Expected == {unresolved[s].id : s \in Present(unresolved)}

\* A quiet broker settles the dispatch's intents; a mismatch fails closed.
Settle ==
    /\ pc = "settle"
    /\ LET translated == {FallbackId(i) : i \in Expected}
           local == Matching(fallback) = translated
           mirrored == IF local THEN Settled(fallback) ELSE fallback
       IN  \/ /\ ~degraded /\ Matching(primary) = Expected
              /\ primary' = Settled(primary) /\ fallback' = mirrored
              /\ UNCHANGED degraded
              /\ Return(local)
           \/ /\ ~degraded /\ Matching(primary) # Expected
              /\ UNCHANGED <<primary, fallback, degraded>>
              /\ Return(FALSE)
           \/ /\ degraded \/ faulty
              /\ degraded' = TRUE
              /\ primary' \in {primary} \cup
                    IF ~degraded /\ Matching(primary) = Expected THEN {Settled(primary)} ELSE {}
              /\ fallback' = mirrored
              /\ Return(local)
    /\ UNCHANGED <<primaryNext, fallbackNext, intentIds, latched, brokerVars, worldVars>>

-------------------------------------------------------------------------------
(* The safety latch around the dispatches.                                  *)

\* Mutant: the latch is lifted whatever the journal still holds.
AlwaysSettled(src) == TRUE

\* deactivate_episodes: no unsettled intent of the source.
NothingUnsettled(src) == \A s \in Scopes : primary[s].source # src

\* The operator's reset, or the breaker's roll-over: always on durable storage.
Reset(src) ==
    /\ pc = Idle /\ src \in latched
    /\ NothingUnsettled(src)
    /\ latched' = latched \ {src}
    /\ complete' = FALSE
    /\ UNCHANGED <<journalVars, pc, source, unresolved, loopVars, cur, answer,
                   brokerVars, worldVars>>

\* A crash loses the process: the mirror, the wrapper and the dispatch.  The
\* next process starts with a healthy wrapper over the same durable rows.
Crash ==
    /\ crashes < MaxCrashes[faulty]
    /\ crashes' = crashes + 1
    /\ fallback' = Empty /\ fallbackNext' = 1 /\ intentIds' = NoIds
    /\ degraded' = FALSE
    /\ Return(FALSE)
    /\ UNCHANGED <<primaryVars, latched, brokerVars, faulty>>

-------------------------------------------------------------------------------
(* The broker and its users.                                                *)

\* A normal order opens exposure, which only an unlatched system admits.
OpenPosition(s) ==
    /\ latched = {} /\ s \notin open
    /\ open' = open \cup {s}
    /\ UNCHANGED <<journalVars, latched, pc, callVars, inflight, working, overexited,
                   worldVars>>

\* A request whose answer was lost reaches the broker late, or never.
Arrive(s) ==
    /\ inflight[s] > 0
    /\ inflight' = [inflight EXCEPT ![s] = @ - 1]
    /\ working' \in {working, [working EXCEPT ![s] = @ + 1]}
    /\ UNCHANGED <<journalVars, latched, pc, callVars, open, overexited, worldVars>>

\* A working exit fills, or the exchange rejects it.
EndExit(s) ==
    /\ working[s] > 0
    /\ working' = [working EXCEPT ![s] = @ - 1]
    /\ \/ /\ open' = open \ {s}
          /\ overexited' = overexited \cup ({s} \ open)
       \/ UNCHANGED <<open, overexited>>
    /\ UNCHANGED <<journalVars, latched, pc, callVars, inflight, worldVars>>

\* The operator closes a position by hand at the broker.  Nothing in the code
\* could see a close between a plan and its write, so the operator is assumed
\* to act only while no dispatch runs and no exit is outstanding.
OperatorClose(s) ==
    /\ pc = Idle /\ s \in open /\ inflight[s] + working[s] = 0
    /\ open' = open \ {s}
    /\ UNCHANGED <<journalVars, latched, pc, callVars, inflight, working, overexited,
                   worldVars>>

Next ==
    \/ \E src \in Sources : Begin(src) \/ Reset(src)
    \/ Read \/ ReadFails \/ ReadsExhausted \/ Send \/ RecordAnswer
    \/ InvalidAnswer \/ EndPlan \/ Settle \/ Crash
    \/ \E s \in Scopes : \/ SkipWrite(s) \/ Reserve(s) \/ OpenPosition(s)
                         \/ Arrive(s) \/ EndExit(s) \/ OperatorClose(s)

Spec == Init /\ [][Next]_vars

-------------------------------------------------------------------------------
(* Properties.                                                              *)

Outstanding(s) == inflight[s] + working[s]
Records == [id : Nat, source : Sources \cup {"none"}, state : States \cup {"none"}]

\* Every variable keeps its type; the quiet streak and the attempts stay within
\* the dispatcher's limits.
TypeOK ==
    /\ \A j \in {primary, fallback, unresolved} : j \in [Scopes -> Records]
    /\ primaryNext \in Nat /\ fallbackNext \in Nat /\ degraded \in BOOLEAN
    /\ intentIds \in [Ids -> Nat] /\ latched \subseteq Sources
    /\ pc \in {Idle, "read", "write", "send", "answered", "settle"}
    /\ source \in Sources \cup {"none"}
    /\ todo \subseteq Scopes /\ failed \subseteq Scopes
    /\ blocked \in BOOLEAN /\ newly \in BOOLEAN /\ complete \in BOOLEAN
    /\ quiet \in 0 .. QuietReads /\ lag \in 0 .. MaxLag /\ attempt \in 0 .. ReadAttempts
    /\ cur \in Scopes \cup {NoScope}
    /\ answer \in {"none", "unreached", "refused", "lost", "garbled", "ok"}
    /\ open \subseteq Scopes /\ overexited \subseteq Scopes
    /\ inflight \in [Scopes -> Nat] /\ working \in [Scopes -> Nat]
    /\ faulty \in BOOLEAN /\ crashes \in Nat

\* A position never has two emergency exits outstanding at the broker, and a
\* flat position is never exited again, whatever answers were lost, delayed
\* or refused and wherever the dispatcher stopped.
AtMostOneExit == \A s \in Scopes : Outstanding(s) <= 1 /\ s \notin overexited

\* Every exit outstanding at the broker is covered by an unresolved intent: the
\* durable one while storage is healthy, the process-local one after that.
OutstandingExitsCovered ==
    \A s \in Scopes : Outstanding(s) > 0 =>
        IF degraded THEN fallback[s] # None ELSE primary[s] # None

\* A dispatch reports success only for a flat account with no exit outstanding,
\* and it stays that way until the latch is lifted.
CompleteMeansQuiet ==
    complete => open = {} /\ \A s \in Scopes : Outstanding(s) = 0

\* While storage works, an outstanding emergency exit keeps some source latched, so
\* no normal order is admitted next to it, across crashes and resets.
DurableExitsLatched ==
    ~faulty /\ (\E s \in Scopes : Outstanding(s) > 0) => latched # {}

\* While storage is healthy the durable journal decides whether a quiet dispatch
\* has settled: the process-local mirror never turns its settlement into a
\* conflict.
DurableSettlementDecides ==
    pc = "settle" /\ ~degraded /\ Matching(primary) = Expected =>
        Matching(fallback) = {FallbackId(i) : i \in Expected}

====
