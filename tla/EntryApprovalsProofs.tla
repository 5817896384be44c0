------------------------ MODULE EntryApprovalsProofs ------------------------
(***************************************************************************)
(* Proofs about EntryApprovals, for every set of symbols and every bound.   *)
(* What has reached the broker can be read off the row of an intent and the *)
(* progress of its dispatch; a session has, for a symbol, one intent that   *)
(* is not closed for certain; and whatever it was told of it tracks until   *)
(* an exit is accepted.                                                     *)
(***************************************************************************)
EXTENDS EntryApprovals, TLAPS

\* What has reached the broker, and what still may.
RowInv ==
    \A i \in Intents :
        /\ status[i] # "dispatching" => dispatch[i] = "none"
        /\ i > allocated => status[i] = "absent"
        /\ sent[i] = 0 \/ (sent[i] = 1 /\ i \notin late)
        /\ \/ status[i] \in {"absent", "pending", "rejected", "expired"}
           \/ status[i] = "failed" /\ ~uncertain[i]
           \/ dispatch[i] \in {"claimed", "checked", "refused"}
           => sent[i] = 0 /\ i \notin late
        /\ status[i] = "approved" \/ dispatch[i] \in {"sent", "placed", "recorded"} =>
             sent[i] = 1

\* Of the intents a session has had for a symbol only the last can be open.
IntentInv ==
    /\ \A i \in Intents : producer[i] <= session
    /\ \A i, j \in Intents :
         /\ i # j /\ i <= allocated /\ j <= allocated
         /\ producer[i] = producer[j] /\ symbol[i] = symbol[j]
         => Replaceable(i) \/ Replaceable(j)
    /\ alive =>
         /\ \A s \in Symbols : entryIntents[s] # None =>
              /\ entryIntents[s] <= allocated
              /\ producer[entryIntents[s]] = session /\ symbol[entryIntents[s]] = s
         /\ \A i \in Intents : i <= allocated /\ producer[i] = session =>
              entryIntents[symbol[i]] = i \/ Replaceable(i)

\* What the session was told of it tracks, or has exited; a square-off has
\* something to exit for every symbol on its list.
SessionInv ==
    /\ phase = "squaring" => alive
    /\ posted # {} => alive
    /\ \A i \in posted : producer[i] = session
    /\ \A i \in told \cup posted : i <= allocated
    /\ \A s \in Symbols : tracked[s] # None => tracked[s] \in told
    /\ alive => \A i \in told : producer[i] = session => i \in exited \/ tracked[symbol[i]] = i
    /\ \A s \in toExit : phase = "squaring" /\ tracked[s] # None

ApprovalsInv == TypeOK /\ RowInv /\ IntentInv /\ SessionInv

(***************************************************************************)
(* Types.                                                                   *)
(***************************************************************************)
LEMMA InitTypeOK == Init => TypeOK
<1> SUFFICES ASSUME Init PROVE TypeOK
  BY Zenon
<1>1. (CHOOSE s \in Symbols : TRUE) \in Symbols
  BY Zenon, SymbolsAssumption
<1>2. symbol \in [Intents -> Symbols]
  BY Zenon, <1>1 DEF Init
<1>3. 0 \in 0 .. MaxIntents /\ 0 \in 0 .. MaxSessions /\ 0 \in 0 .. MaxCrashes
  BY BoundsAssumption
<1>4. /\ entryIntents \in [Symbols -> Intents \cup {None}]
      /\ tracked \in [Symbols -> Intents \cup {None}]
  BY Zenon DEF Init
<1>5. producer \in [Intents -> 0 .. MaxSessions] /\ sent \in [Intents -> Nat]
  BY Zenon, <1>3 DEF Init
<1> QED BY Zenon, <1>2, <1>3, <1>4, <1>5 DEF Init, TypeOK

LEMMA SymbolTypes ==
    ASSUME ApprovalsInv, NEW s \in Symbols,
           Propose(s) \/ Retry(s) \/ MonitorExit(s) \/ SquareOffOne(s)
    PROVE  TypeOK'
<1> USE DEF ApprovalsInv, TypeOK, rowVars, stopVars, sessionVars, bookVars, history
<1>1. CASE Propose(s)
  <2>1. allocated + 1 \in 0 .. MaxIntents /\ allocated + 1 \in Intents
    BY <1>1, BoundsAssumption DEF Propose, Intents
  <2> QED BY Zenon, <1>1, <2>1 DEF Propose, Insert
<1>2. CASE Retry(s)
  BY Zenon, <1>2 DEF Retry, Insert
<1>3. CASE MonitorExit(s)
  BY Zenon, <1>3 DEF MonitorExit, Exit, SessionInv
<1>4. CASE SquareOffOne(s)
  <2>1. tracked[s] \in told
    BY Zenon, <1>4 DEF SquareOffOne, SessionInv
  <2>2. /\ tracked' \in [Symbols -> Intents \cup {None}] /\ exited' \subseteq told
        /\ toExit' \subseteq Symbols /\ UNCHANGED posted
    BY Zenon, <1>4, <2>1 DEF SquareOffOne, Exit
  <2> QED BY Zenon, <1>4, <2>2 DEF SquareOffOne
<1> QED BY Zenon, <1>1, <1>2, <1>3, <1>4

LEMMA IntentTypes ==
    ASSUME ApprovalsInv, NEW i \in Intents,
           Close(i) \/ Claim(i) \/ Dispatching(i) \/ SendLate(i) \/ RecordApprovedEntry(i)
    PROVE  TypeOK'
<1> USE DEF ApprovalsInv, TypeOK, rowVars, stopVars, sessionVars, bookVars, history, None
<1>1. CASE Close(i)
  BY Zenon, <1>1 DEF Close
<1>2. CASE Claim(i)
  BY Zenon, <1>2 DEF Claim
<1>3. CASE Check(i) \/ Refuse(i) \/ Answer(i)
  BY ZenonT(30), <1>3 DEF Check, Refuse, Answer, Progress
<1>4. CASE Send(i)
  BY <1>4 DEF Send, Progress, AtBroker
<1>5. CASE Timeout(i)
  BY Zenon, <1>5 DEF Timeout, Progress
<1>6. CASE Record(i)
  BY Zenon, <1>6 DEF Record, Progress
<1>7. CASE Resolve(i)
  <2> Verdict(i)[1] \in {"approved", "failed"} /\ Verdict(i)[2] \in BOOLEAN
    BY Zenon DEF Verdict
  <2> QED BY Zenon, <1>7 DEF Resolve
<1>8. CASE SendLate(i)
  BY <1>8 DEF SendLate, AtBroker
<1>9. CASE RecordApprovedEntry(i)
  BY Zenon, <1>9 DEF RecordApprovedEntry
<1> QED BY Zenon, <1>1, <1>2, <1>3, <1>4, <1>5, <1>6, <1>7, <1>8, <1>9 DEF Dispatching

LEMMA SessionTypes ==
    ASSUME ApprovalsInv,
           \/ Start \/ RequestStop \/ BeginSquareOff \/ FinishSquareOff \/ LeaveLoop
           \/ Fail \/ EndThread \/ CrashRestart \/ UNCHANGED vars
    PROVE  TypeOK'
<1> USE DEF ApprovalsInv, TypeOK, rowVars, stopVars, sessionVars, bookVars, history, None
<1>1. CASE Start
  <2>1. session + 1 \in 0 .. MaxSessions
    BY <1>1, BoundsAssumption DEF Start
  <2> QED BY Zenon, <1>1, <2>1 DEF Start
<1>2. CASE RequestStop
  BY Zenon, <1>2 DEF RequestStop
<1>3. CASE BeginSquareOff
  BY Zenon, <1>3 DEF BeginSquareOff, Open
<1>4. CASE FinishSquareOff \/ LeaveLoop \/ Fail
  BY Zenon, <1>4 DEF FinishSquareOff, LeaveLoop, Fail
<1>5. CASE EndThread
  BY Zenon, <1>5 DEF EndThread
<1>6. CASE CrashRestart
  <2>1. \A i \in Intents : Reconciled(i)[1] \in {"absent", "pending", "approved", "rejected",
                                                 "expired", "failed"}
                           /\ Reconciled(i)[2] \in BOOLEAN
    BY Zenon DEF Reconciled
  <2>2. crashes' \in 0 .. MaxCrashes
    BY <1>6, BoundsAssumption DEF CrashRestart
  <2> QED BY Zenon, <1>6, <2>1, <2>2 DEF CrashRestart
<1>7. CASE UNCHANGED vars
  BY Zenon, <1>7 DEF vars
<1> QED BY Zenon, <1>1, <1>2, <1>3, <1>4, <1>5, <1>6, <1>7

(***************************************************************************)
(* The rows.                                                                *)
(***************************************************************************)
LEMMA RowFrame ==
    ASSUME RowInv, UNCHANGED <<status, uncertain, allocated, dispatch, late, sent>>
    PROVE  RowInv'
BY Zenon DEF RowInv

LEMMA RowStep == ApprovalsInv /\ [Next]_vars => RowInv'
<1> SUFFICES ASSUME ApprovalsInv, [Next]_vars PROVE RowInv'
  BY Zenon
<1> TypeOK /\ RowInv /\ IntentInv
  BY Zenon DEF ApprovalsInv
<1> USE DEF rowVars, stopVars, sessionVars, bookVars, history
<1>1. ASSUME NEW s \in Symbols, Propose(s) PROVE RowInv'
  <2>1. /\ allocated + 1 \in Intents /\ allocated + 1 > allocated
        /\ \A i \in Intents : i > allocated + 1 => i > allocated
    BY <1>1, BoundsAssumption DEF Propose, TypeOK, Intents
  <2>2. /\ allocated' = allocated + 1 /\ UNCHANGED <<uncertain, dispatch, late, sent>>
        /\ status' \in {status, [status EXCEPT ![allocated + 1] = "pending"]}
    BY Zenon, <1>1 DEF Propose, Insert
  <2>3. ~(allocated + 1 > allocated')
    BY <2>2 DEF TypeOK
  <2> QED BY <2>1, <2>2, <2>3 DEF RowInv, TypeOK
<1>2. ASSUME NEW s \in Symbols, Retry(s) PROVE RowInv'
  <2>1. entryIntents[s] \in Intents /\ entryIntents[s] <= allocated
    BY Zenon, <1>2 DEF Retry, Proposing, IntentInv, TypeOK
  <2>2. status[entryIntents[s]] = "absent"
        /\ status' \in {status, [status EXCEPT ![entryIntents[s]] = "pending"]}
        /\ UNCHANGED <<uncertain, allocated, dispatch, late, sent>>
    BY Zenon, <1>2 DEF Retry, Insert
  <2>3. ~(entryIntents[s] > allocated)
    BY <2>1 DEF Intents, TypeOK
  <2> QED BY <2>1, <2>2, <2>3 DEF RowInv, TypeOK
<1>3. ASSUME NEW s \in Symbols, MonitorExit(s) \/ SquareOffOne(s) PROVE RowInv'
  BY Zenon, <1>3, RowFrame DEF MonitorExit, SquareOffOne
<1>4. ASSUME NEW i \in Intents, Close(i) PROVE RowInv'
  BY <1>4 DEF Close, RowInv, TypeOK
<1>5. ASSUME NEW i \in Intents, Claim(i) PROVE RowInv'
  BY Zenon, <1>5 DEF Claim, Claimable, RowInv, TypeOK
<1>6. ASSUME NEW i \in Intents, Check(i) \/ Refuse(i) \/ Answer(i) PROVE RowInv'
  BY <1>6 DEF Check, Refuse, Answer, Progress, RowInv, TypeOK
<1>7. ASSUME NEW i \in Intents, Send(i) PROVE RowInv'
  BY <1>7 DEF Send, Progress, AtBroker, RowInv, TypeOK
<1>8. ASSUME NEW i \in Intents, Timeout(i) PROVE RowInv'
  BY <1>8 DEF Timeout, Progress, RowInv, TypeOK
<1>9. ASSUME NEW i \in Intents, Record(i) PROVE RowInv'
  BY ZenonT(30), <1>9 DEF Record, Progress, RowInv, TypeOK
<1>10. ASSUME NEW i \in Intents, Resolve(i) PROVE RowInv'
  <2>1. CASE unmarked' = unmarked \cup {i} /\ UNCHANGED <<status, uncertain>>
    BY <1>10, <2>1 DEF Resolve, RowInv, TypeOK
  <2>2. CASE /\ status' = [status EXCEPT ![i] = Verdict(i)[1]]
             /\ uncertain' = [uncertain EXCEPT ![i] = Verdict(i)[2]]
    <3>1. CASE dispatch[i] = "recorded"
      <4> status' = [status EXCEPT ![i] = "approved"] /\ uncertain' = [uncertain EXCEPT ![i] = FALSE]
        BY Zenon, <2>2, <3>1 DEF Verdict
      <4> QED BY <1>10, <3>1 DEF Resolve, RowInv, TypeOK
    <3>2. CASE dispatch[i] = "unknown"
      <4> status' = [status EXCEPT ![i] = "failed"] /\ uncertain' = [uncertain EXCEPT ![i] = TRUE]
        BY Zenon, <2>2, <3>2 DEF Verdict
      <4> QED BY <1>10, <3>2 DEF Resolve, RowInv, TypeOK
    <3>3. CASE dispatch[i] = "refused"
      <4> status' = [status EXCEPT ![i] = "failed"] /\ uncertain' = [uncertain EXCEPT ![i] = FALSE]
        BY Zenon, <2>2, <3>3 DEF Verdict
      <4> QED BY <1>10, <3>3 DEF Resolve, RowInv, TypeOK
    <3> QED BY Zenon, <1>10, <3>1, <3>2, <3>3 DEF Resolve
  <2> QED BY Zenon, <1>10, <2>1, <2>2 DEF Resolve
<1>11. ASSUME NEW i \in Intents, SendLate(i) PROVE RowInv'
  BY <1>11 DEF SendLate, AtBroker, RowInv, TypeOK
<1>12. ASSUME NEW i \in Intents, RecordApprovedEntry(i) PROVE RowInv'
  BY Zenon, <1>12, RowFrame DEF RecordApprovedEntry
<1>13. CASE EndThread
  BY <1>13 DEF EndThread, RowInv, TypeOK
<1>14. CASE CrashRestart
  <2>1. \A i \in Intents :
          /\ status[i] = "dispatching" => status'[i] = "failed" /\ uncertain'[i]
          /\ status[i] # "dispatching" => status'[i] = status[i] /\ uncertain'[i] = uncertain[i]
          /\ dispatch'[i] = "none"
    BY Zenon, <1>14 DEF CrashRestart, Reconciled
  <2>2. late' = {} /\ UNCHANGED <<allocated, sent>>
    BY Zenon, <1>14 DEF CrashRestart
  <2> QED BY <2>1, <2>2 DEF RowInv, TypeOK
<1>15. CASE Start \/ RequestStop \/ BeginSquareOff \/ FinishSquareOff \/ LeaveLoop \/ Fail
  BY Zenon, <1>15, RowFrame DEF Start, RequestStop, BeginSquareOff, FinishSquareOff, LeaveLoop, Fail
<1>16. CASE UNCHANGED vars
  BY Zenon, <1>16, RowFrame DEF vars
<1> QED BY Zenon, <1>1, <1>2, <1>3, <1>4, <1>5, <1>6, <1>7, <1>8, <1>9, <1>10, <1>11, <1>12, <1>13,
           <1>14, <1>15, <1>16 DEF Next, Dispatching, Ending

(***************************************************************************)
(* The intents of a session.                                                *)
(***************************************************************************)
\* An intent closed for certain stays so, and a row keeps its producer and symbol.
RowsKept ==
    /\ \A i \in Intents : Replaceable(i) => Replaceable(i)'
    /\ \A i \in Intents : i <= allocated => producer'[i] = producer[i] /\ symbol'[i] = symbol[i]

LEMMA RowsStep == ApprovalsInv /\ [Next]_vars => RowsKept
<1> SUFFICES ASSUME ApprovalsInv, [Next]_vars PROVE RowsKept
  BY Zenon
<1> TypeOK /\ RowInv /\ IntentInv
  BY Zenon DEF ApprovalsInv
<1> USE DEF rowVars, stopVars, sessionVars, bookVars, history
<1>1. ASSUME NEW s \in Symbols, Propose(s) PROVE RowsKept
  BY <1>1, BoundsAssumption DEF Propose, Insert, RowInv, TypeOK, Intents, RowsKept, Replaceable
<1>2. ASSUME NEW s \in Symbols, Retry(s) PROVE RowsKept
  <2>1. /\ entryIntents[s] \in Intents /\ status[entryIntents[s]] = "absent"
        /\ producer[entryIntents[s]] = session /\ symbol[entryIntents[s]] = s
    BY Zenon, <1>2 DEF Retry, Proposing, IntentInv, TypeOK
  <2> QED BY Zenon, <1>2, <2>1 DEF Retry, Insert, TypeOK, RowsKept, Replaceable
<1>3. CASE UNCHANGED rowVars
  BY Zenon, <1>3 DEF RowsKept, Replaceable
<1>4. ASSUME NEW i \in Intents, Close(i) \/ Claim(i) PROVE RowsKept
  BY Zenon, <1>4 DEF Close, Claim, Claimable, TypeOK, RowsKept, Replaceable
<1>5. ASSUME NEW i \in Intents, Resolve(i) PROVE RowsKept
  BY Zenon, <1>5 DEF Resolve, TypeOK, RowsKept, Replaceable
<1>6. CASE EndThread
  BY Zenon, <1>6 DEF EndThread, TypeOK, RowsKept, Replaceable
<1>7. CASE CrashRestart
  <2>1. \A i \in Intents : status[i] # "dispatching" =>
          status'[i] = status[i] /\ uncertain'[i] = uncertain[i]
    BY Zenon, <1>7 DEF CrashRestart, Reconciled
  <2> QED BY Zenon, <1>7, <2>1 DEF CrashRestart, RowsKept, Replaceable
<1>8. ASSUME NEW s \in Symbols, MonitorExit(s) \/ SquareOffOne(s) PROVE UNCHANGED rowVars
  BY Zenon, <1>8 DEF MonitorExit, SquareOffOne
<1>9. ASSUME NEW i \in Intents,
             \/ Check(i) \/ Refuse(i) \/ Send(i) \/ Timeout(i) \/ Answer(i) \/ Record(i)
             \/ SendLate(i) \/ RecordApprovedEntry(i)
      PROVE  UNCHANGED rowVars
  BY Zenon, <1>9 DEF Check, Refuse, Send, Timeout, Answer, Record, SendLate, RecordApprovedEntry
<1>10. ASSUME Start \/ RequestStop \/ BeginSquareOff \/ FinishSquareOff \/ LeaveLoop \/ Fail
              \/ UNCHANGED vars
       PROVE  UNCHANGED rowVars
  BY Zenon, <1>10 DEF Start, RequestStop, BeginSquareOff, FinishSquareOff, LeaveLoop, Fail, vars
<1> QED BY Zenon, <1>1, <1>2, <1>3, <1>4, <1>5, <1>6, <1>7, <1>8, <1>9, <1>10 DEF Next,
           Dispatching, Ending

LEMMA IntentFrame ==
    ASSUME TypeOK, IntentInv, RowsKept, UNCHANGED allocated, 
           UNCHANGED producer /\ UNCHANGED symbol,
           \/ UNCHANGED session /\ ~alive'
           \/ UNCHANGED session /\ UNCHANGED alive /\ UNCHANGED entryIntents
    PROVE  IntentInv'
<1>1. \A i \in Intents : producer'[i] <= session'
  BY Zenon DEF IntentInv
<1>2. \A i, j \in Intents :
        /\ i # j /\ i <= allocated' /\ j <= allocated'
        /\ producer'[i] = producer'[j] /\ symbol'[i] = symbol'[j]
        => Replaceable(i)' \/ Replaceable(j)'
  BY Zenon DEF IntentInv, RowsKept
<1>3. ASSUME alive'
      PROVE  /\ \A s \in Symbols : entryIntents'[s] # None =>
                  /\ entryIntents'[s] <= allocated'
                  /\ producer'[entryIntents'[s]] = session' /\ symbol'[entryIntents'[s]] = s
             /\ \A i \in Intents : i <= allocated' /\ producer'[i] = session' =>
                  entryIntents'[symbol'[i]] = i \/ Replaceable(i)'
  BY Zenon, <1>3 DEF IntentInv, RowsKept
<1> QED BY Zenon, <1>1, <1>2, <1>3 DEF IntentInv

LEMMA IntentStep == ApprovalsInv /\ [Next]_vars => IntentInv'
<1> SUFFICES ASSUME ApprovalsInv, [Next]_vars PROVE IntentInv'
  BY Zenon
<1> TypeOK /\ RowInv /\ IntentInv /\ RowsKept
  BY Zenon, RowsStep DEF ApprovalsInv
<1> USE DEF rowVars, stopVars, sessionVars, bookVars, history
<1>1. ASSUME NEW s \in Symbols, Propose(s) PROVE IntentInv'
  <2> DEFINE n == allocated + 1
  <2>1. /\ n \in Intents /\ n # None /\ allocated' = n /\ allocated \in Nat /\ alive
        /\ entryIntents' = [entryIntents EXCEPT ![s] = n]
        /\ producer' = [producer EXCEPT ![n] = session] /\ symbol' = [symbol EXCEPT ![n] = s]
        /\ UNCHANGED session /\ UNCHANGED alive
        /\ entryIntents[s] # None => Replaceable(entryIntents[s])
    BY <1>1, BoundsAssumption DEF Propose, Proposing, Insert, TypeOK, Intents, None
  <2>2. /\ producer'[n] = session /\ symbol'[n] = s
        /\ \A i \in Intents : i <= n <=> i <= allocated \/ i = n
        /\ ~(n <= allocated)
    BY <2>1 DEF TypeOK, Intents
  <2>3. \A i \in Intents : i <= allocated /\ producer[i] = session /\ symbol[i] = s => Replaceable(i)'
    <3>1. \A i \in Intents : i <= allocated /\ producer[i] = session /\ symbol[i] = s =>
            Replaceable(i) \/ entryIntents[s] = i
      BY Zenon, <2>1 DEF IntentInv
    <3>2. \A i \in Intents : i # None
      BY DEF Intents, None
    <3> QED BY Zenon, <2>1, <3>1, <3>2 DEF RowsKept
  <2>4. \A i \in Intents : producer'[i] <= session'
    BY <2>1 DEF IntentInv, TypeOK
  <2>5. \A i, j \in Intents :
          /\ i # j /\ i <= allocated' /\ j <= allocated'
          /\ producer'[i] = producer'[j] /\ symbol'[i] = symbol'[j]
          => Replaceable(i)' \/ Replaceable(j)'
    BY ZenonT(30), <2>1, <2>2, <2>3 DEF IntentInv, RowsKept
  <2>6. \A t \in Symbols : entryIntents'[t] # None =>
          /\ entryIntents'[t] <= allocated'
          /\ producer'[entryIntents'[t]] = session' /\ symbol'[entryIntents'[t]] = t
    <3> SUFFICES ASSUME NEW t \in Symbols, entryIntents'[t] # None
                 PROVE  /\ entryIntents'[t] <= allocated'
                        /\ producer'[entryIntents'[t]] = session' /\ symbol'[entryIntents'[t]] = t
      BY Zenon
    <3>1. CASE t = s
      BY Zenon, <2>1, <2>2, <3>1 DEF TypeOK, Intents
    <3>2. CASE t # s
      BY <2>1, <2>2, <3>2 DEF TypeOK, IntentInv, RowsKept
    <3> QED BY Zenon, <3>1, <3>2
  <2>7. \A i \in Intents : i <= allocated' /\ producer'[i] = session' =>
          entryIntents'[symbol'[i]] = i \/ Replaceable(i)'
    BY Zenon, <2>1, <2>2, <2>3 DEF TypeOK, IntentInv, RowsKept
  <2> QED BY Zenon, <2>4, <2>5, <2>6, <2>7 DEF IntentInv
<1>2. ASSUME NEW s \in Symbols, Retry(s) PROVE IntentInv'
  <2>1. /\ entryIntents[s] \in Intents /\ producer[entryIntents[s]] = session
        /\ symbol[entryIntents[s]] = s
    BY Zenon, <1>2 DEF Retry, Proposing, IntentInv, TypeOK
  <2>2. UNCHANGED producer /\ UNCHANGED symbol
    BY Zenon, <1>2, <2>1 DEF Retry, Insert, TypeOK
  <2>3. UNCHANGED allocated /\ UNCHANGED session /\ UNCHANGED alive /\ UNCHANGED entryIntents
    BY Zenon, <1>2 DEF Retry
  <2> QED BY Zenon, <2>2, <2>3, IntentFrame
<1>3. CASE Start
  <2>1. /\ session' = session + 1 /\ session \in Nat /\ UNCHANGED <<producer, symbol, allocated>>
        /\ \A s \in Symbols : entryIntents'[s] = None
    BY <1>3 DEF Start, TypeOK
  <2>2. \A i \in Intents : producer[i] <= session /\ producer[i] \in Nat
    BY DEF IntentInv, TypeOK
  <2>3. \A i \in Intents : producer'[i] <= session' /\ producer'[i] # session'
    BY <2>1, <2>2
  <2>4. \A i, j \in Intents :
          /\ i # j /\ i <= allocated' /\ j <= allocated'
          /\ producer'[i] = producer'[j] /\ symbol'[i] = symbol'[j]
          => Replaceable(i)' \/ Replaceable(j)'
    BY Zenon, <2>1 DEF IntentInv, RowsKept
  <2> QED BY Zenon, <2>1, <2>3, <2>4 DEF IntentInv
<1>4. CASE EndThread \/ CrashRestart
  BY Zenon, <1>4, IntentFrame DEF EndThread, CrashRestart
<1>5. CASE UNCHANGED <<allocated, producer, symbol, session, alive, entryIntents>>
  BY Zenon, <1>5, IntentFrame
<1>6. ASSUME NEW s \in Symbols, MonitorExit(s) \/ SquareOffOne(s)
      PROVE  UNCHANGED <<allocated, producer, symbol, session, alive, entryIntents>>
  BY Zenon, <1>6 DEF MonitorExit, SquareOffOne
<1>7. ASSUME NEW i \in Intents,
             Close(i) \/ Claim(i) \/ Dispatching(i) \/ SendLate(i) \/ RecordApprovedEntry(i)
      PROVE  UNCHANGED <<allocated, producer, symbol, session, alive, entryIntents>>
  BY Zenon, <1>7 DEF Close, Claim, Dispatching, Check, Refuse, Send, Timeout, Answer, Record,
     Resolve,
              SendLate, RecordApprovedEntry
<1>8. ASSUME RequestStop \/ BeginSquareOff \/ FinishSquareOff \/ LeaveLoop \/ Fail \/ UNCHANGED vars
      PROVE  UNCHANGED <<allocated, producer, symbol, session, alive, entryIntents>>
  BY Zenon, <1>8 DEF RequestStop, BeginSquareOff, FinishSquareOff, LeaveLoop, Fail, vars
<1> QED BY Zenon, <1>1, <1>2, <1>3, <1>4, <1>5, <1>6, <1>7, <1>8 DEF Next, Ending

(***************************************************************************)
(* The positions of a session.                                              *)
(***************************************************************************)
LEMMA SessionFrame ==
    ASSUME TypeOK, SessionInv, RowsKept, allocated' \in Nat, allocated <= allocated',
           UNCHANGED <<phase, alive, posted, told, tracked, exited, toExit, session>>
    PROVE  SessionInv'
<1> \A i \in told \cup posted : i \in Intents /\ i <= allocated /\ i <= allocated'
  BY DEF SessionInv, TypeOK, Intents
<1> \A i \in told \cup posted : producer'[i] = producer[i] /\ symbol'[i] = symbol[i]
  BY Zenon DEF RowsKept
<1> QED BY Zenon DEF SessionInv

\* An accepted exit of a tracked position.
LEMMA ExitKeeps ==
    ASSUME TypeOK, SessionInv, NEW s \in Symbols, tracked[s] # None, Exit(s), toExit' \subseteq toExit,
           s \notin toExit', UNCHANGED <<phase, alive, told, session, allocated, producer, symbol>>
    PROVE  SessionInv'
<1>1. /\ tracked' = [tracked EXCEPT ![s] = None] /\ exited' = exited \cup {tracked[s]}
      /\ UNCHANGED posted
  BY Zenon DEF Exit
<1>2. \A t \in Symbols : tracked'[t] = IF t = s THEN None ELSE tracked[t]
  BY Zenon, <1>1 DEF TypeOK
<1>3. \A t \in Symbols : tracked'[t] # None => tracked'[t] \in told'
  BY Zenon, <1>2 DEF SessionInv
<1>4. ASSUME alive', NEW i \in told', producer'[i] = session'
      PROVE  i \in exited' \/ tracked'[symbol'[i]] = i
  <2>1. i \in Intents /\ symbol[i] \in Symbols
    BY Zenon, <1>4 DEF TypeOK
  <2>2. i \in exited \/ tracked[symbol[i]] = i
    BY Zenon, <1>4 DEF SessionInv
  <2> QED BY Zenon, <1>1, <1>2, <2>1, <2>2
<1>5. \A t \in toExit' : phase' = "squaring" /\ tracked'[t] # None
  BY Zenon, <1>2 DEF SessionInv, TypeOK
<1> QED BY Zenon, <1>1, <1>3, <1>4, <1>5 DEF SessionInv

LEMMA SessionStep == ApprovalsInv /\ [Next]_vars => SessionInv'
<1> SUFFICES ASSUME ApprovalsInv, [Next]_vars PROVE SessionInv'
  BY Zenon
<1> TypeOK /\ RowInv /\ IntentInv /\ SessionInv /\ RowsKept
  BY Zenon, RowsStep DEF ApprovalsInv
<1> allocated \in Nat
  BY DEF TypeOK
<1> USE DEF rowVars, stopVars, sessionVars, bookVars, history
<1>1. ASSUME NEW s \in Symbols, Propose(s) \/ Retry(s) PROVE SessionInv'
  BY <1>1, SessionFrame DEF Propose, Retry
<1>2. ASSUME NEW s \in Symbols, MonitorExit(s) PROVE SessionInv'
  <2>1. toExit = {}
    BY Zenon, <1>2 DEF MonitorExit, SessionInv
  <2> QED BY Zenon, <1>2, <2>1, ExitKeeps DEF MonitorExit
<1>3. ASSUME NEW s \in Symbols, SquareOffOne(s) PROVE SessionInv'
  <2>1. tracked[s] # None
    BY Zenon, <1>3 DEF SquareOffOne, SessionInv
  <2>2. CASE toExit' = toExit \ {s} /\ Exit(s)
    BY Zenon, <1>3, <2>1, <2>2, ExitKeeps DEF SquareOffOne
  <2>3. CASE toExit' \subseteq toExit /\ UNCHANGED bookVars
    BY Zenon, <1>3, <2>3 DEF SquareOffOne, SessionInv
  <2> QED BY Zenon, <1>3, <2>2, <2>3 DEF SquareOffOne
<1>4. ASSUME NEW i \in Intents,
             Close(i) \/ Claim(i) \/ Check(i) \/ Refuse(i) \/ Send(i) \/ Timeout(i) \/ Answer(i)
             \/ Resolve(i) \/ SendLate(i)
      PROVE  SessionInv'
  <2>1. UNCHANGED <<allocated, phase, alive, posted, told, tracked, exited, toExit, session>>
    BY Zenon, <1>4 DEF Close, Claim, Check, Refuse, Send, Timeout, Answer, Resolve, SendLate
  <2> QED BY <2>1, SessionFrame
<1>5. ASSUME NEW i \in Intents, Record(i) PROVE SessionInv'
  <2>1. i <= allocated
    BY <1>5 DEF Record, Progress, RowInv, TypeOK, Intents
  <2>2. CASE UNCHANGED posted
    BY <1>5, <2>2, SessionFrame DEF Record
  <2>3. CASE alive /\ producer[i] = session /\ posted' = posted \cup {i}
    BY Zenon, <1>5, <2>1, <2>3 DEF Record, SessionInv
  <2> QED BY Zenon, <1>5, <2>2, <2>3 DEF Record
<1>6. ASSUME NEW i \in Intents, RecordApprovedEntry(i) PROVE SessionInv'
  <2>1. /\ i \in posted /\ posted' = posted \ {i} /\ i <= allocated /\ symbol[i] \in Symbols
        /\ UNCHANGED <<rowVars, sessionVars, exited>>
    BY Zenon, <1>6 DEF RecordApprovedEntry, SessionInv, TypeOK
  <2>2. CASE UNCHANGED <<tracked, told>>
    BY Zenon, <2>1, <2>2 DEF SessionInv
  <2>3. CASE /\ tracked[symbol[i]] = None
             /\ tracked' = [tracked EXCEPT ![symbol[i]] = i] /\ told' = told \cup {i}
    <3>1. \A t \in Symbols : tracked'[t] = IF t = symbol[i] THEN i ELSE tracked[t]
      BY Zenon, <2>1, <2>3 DEF TypeOK
    <3>2. \A t \in Symbols : tracked'[t] # None => tracked'[t] \in told'
      BY <2>3, <3>1 DEF SessionInv
    <3>3. ASSUME alive', NEW j \in told', producer'[j] = session'
          PROVE  j \in exited' \/ tracked'[symbol'[j]] = j
      <4>1. CASE j = i
        BY Zenon, <2>1, <3>1, <4>1
      <4>2. CASE j # i
        <5>1. j \in told /\ j \in Intents /\ symbol[j] \in Symbols /\ j # None
          BY <2>3, <3>3, <4>2 DEF TypeOK, Intents, None
        <5>2. j \in exited \/ tracked[symbol[j]] = j
          BY Zenon, <2>1, <3>3, <5>1 DEF SessionInv
        <5> QED BY Zenon, <2>1, <2>3, <3>1, <5>1, <5>2
      <4> QED BY Zenon, <4>1, <4>2
    <3>4. \A t \in toExit' : phase' = "squaring" /\ tracked'[t] # None
      BY <2>1, <3>1 DEF SessionInv, TypeOK, Intents, None
    <3> QED BY Zenon, <2>1, <2>3, <3>2, <3>3, <3>4 DEF SessionInv
  <2> QED BY Zenon, <1>6, <2>2, <2>3 DEF RecordApprovedEntry
<1>7. CASE Start
  <2>1. posted = {} /\ \A i \in told : producer[i] # session + 1
    BY <1>7 DEF Start, SessionInv, IntentInv, TypeOK
  <2> QED BY Zenon, <1>7, <2>1 DEF Start, SessionInv
<1>8. CASE RequestStop
  <2>1. phase' = "squaring" <=> phase = "squaring"
    BY Zenon, <1>8 DEF RequestStop
  <2> QED BY Zenon, <1>8, <2>1 DEF RequestStop, SessionInv
<1>9. CASE BeginSquareOff
  BY Zenon, <1>9 DEF BeginSquareOff, Open, SessionInv
<1>10. CASE FinishSquareOff \/ LeaveLoop \/ Fail
  <2>1. toExit' = {} /\ phase' # "squaring"
    BY Zenon, <1>10 DEF FinishSquareOff, LeaveLoop, Fail, SessionInv
  <2>2. UNCHANGED <<rowVars, alive, posted, told, tracked, exited, session>>
    BY Zenon, <1>10 DEF FinishSquareOff, LeaveLoop, Fail
  <2> QED BY Zenon, <2>1, <2>2 DEF SessionInv
<1>11. CASE EndThread
  BY Zenon, <1>11 DEF EndThread, SessionInv
<1>12. CASE CrashRestart
  BY Zenon, <1>12 DEF CrashRestart, SessionInv
<1>13. CASE UNCHANGED vars
  BY <1>13, SessionFrame DEF vars
<1> QED BY Zenon, <1>1, <1>2, <1>3, <1>4, <1>5, <1>6, <1>7, <1>8, <1>9, <1>10, <1>11, <1>12, <1>13
        DEF Next, Dispatching, Ending

(***************************************************************************)
(* The theorems.                                                            *)
(***************************************************************************)
LEMMA InitApprovalsInv == Init => ApprovalsInv
<1> SUFFICES ASSUME Init PROVE ApprovalsInv
  BY Zenon
<1> TypeOK
  BY Zenon, InitTypeOK
<1>1. RowInv
  BY Zenon DEF Init, RowInv
<1>2. IntentInv
  <2>1. \A i \in Intents : ~(i <= allocated)
    BY DEF Init, Intents
  <2>2. ~alive /\ \A i \in Intents : producer[i] <= session
    BY DEF Init
  <2> QED BY Zenon, <2>1, <2>2 DEF IntentInv
<1>3. SessionInv
  BY Zenon DEF Init, SessionInv
<1> QED BY Zenon, <1>1, <1>2, <1>3 DEF ApprovalsInv

\* ApprovalsInv is inductive.
LEMMA ApprovalsInvStep == ApprovalsInv /\ [Next]_vars => ApprovalsInv'
<1> SUFFICES ASSUME ApprovalsInv, [Next]_vars PROVE TypeOK'
  BY Zenon, RowStep, IntentStep, SessionStep DEF ApprovalsInv
<1> QED BY Zenon, SymbolTypes, IntentTypes, SessionTypes DEF Next, Ending

\* The invariant holds for every set of symbols and every bound.
THEOREM Safety == Spec => []ApprovalsInv
BY InitApprovalsInv, ApprovalsInvStep, PTL DEF Spec

\* The queue tells the operator the truth: what it closed as rejected, expired or
\* certainly failed never reaches the broker, what it approved has, exactly once.
THEOREM OutcomesStayTrue == Spec => []OutcomesAreTrue
<1>1. ApprovalsInv => OutcomesAreTrue
  BY Zenon DEF ApprovalsInv, RowInv, OutcomesAreTrue
<1> QED BY <1>1, Safety, PTL

\* A session enters a symbol at most once, by one intent, however dispatches time
\* out, inserts are retried, tasks arrive late and the process restarts.
THEOREM EntriesAreSingle == Spec => []OneEntryPerSymbol
<1>1. ApprovalsInv => OneEntryPerSymbol
  <2> SUFFICES ASSUME ApprovalsInv, NEW i \in Intents, NEW j \in Intents,
                      producer[i] = producer[j], symbol[i] = symbol[j]
               PROVE  IF i = j THEN sent[i] <= 1 ELSE sent[i] = 0 \/ sent[j] = 0
    BY Zenon DEF OneEntryPerSymbol
  <2>1. CASE i = j
    BY <2>1 DEF ApprovalsInv, RowInv
  <2>2. CASE i # j /\ i <= allocated /\ j <= allocated
    <3>1. Replaceable(i) \/ Replaceable(j)
      BY Zenon, <2>2 DEF ApprovalsInv, IntentInv
    <3> QED BY Zenon, <2>2, <3>1 DEF ApprovalsInv, RowInv, Replaceable
  <2>3. CASE i # j /\ (i > allocated \/ j > allocated)
    BY Zenon, <2>3 DEF ApprovalsInv, RowInv
  <2> QED BY <2>1, <2>2, <2>3 DEF ApprovalsInv, TypeOK, Intents
<1> QED BY <1>1, Safety, PTL

\* A session reports that it has squared off only when every entry it was told of
\* has an accepted exit.
THEOREM SquareOffsAreComplete == Spec => SquaredOffMeansExited
<1> DEFINE A == phase = "squaring" /\ phase' = "squared_off" =>
                  \A i \in told : producer[i] = session => i \in exited
<1>1. ApprovalsInv /\ [Next]_vars => [A]_vars
  <2> SUFFICES ASSUME ApprovalsInv, Next, phase = "squaring", phase' = "squared_off",
                      NEW i \in told, producer[i] = session
               PROVE  i \in exited
    BY Zenon
  <2> TypeOK /\ SessionInv
    BY Zenon DEF ApprovalsInv
  <2>1. FinishSquareOff
    BY Zenon DEF Next, Ending, Dispatching, Propose, Retry, MonitorExit, Close, Claim, Check,
       Refuse,
           Send, Timeout, Answer, Record, Resolve, SendLate, RecordApprovedEntry, Start,
           RequestStop, BeginSquareOff, LeaveLoop, EndThread, SquareOffOne, Fail, CrashRestart,
           sessionVars
  <2>2. Open = {}
    BY Zenon, <2>1 DEF FinishSquareOff, Flat
  <2>3. i \in Intents /\ symbol[i] \in Symbols /\ i # None
    BY DEF TypeOK, Intents, None
  <2>4. i \in exited \/ tracked[symbol[i]] = i
    BY Zenon DEF SessionInv
  <2> QED BY Zenon, <2>2, <2>3, <2>4 DEF Open
<1> QED BY <1>1, Safety, PTL DEF Spec, SquaredOffMeansExited
=============================================================================
