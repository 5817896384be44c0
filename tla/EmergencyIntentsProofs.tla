------------------------ MODULE EmergencyIntentsProofs ------------------------
(***************************************************************************)
(* Proofs about EmergencyIntents, for every set of positions and sources    *)
(* and every bound.  The journal that decides has a row for every exit that *)
(* is outstanding, so a row that can be created is one for a position with  *)
(* no exit; and a quiet streak longer than the reads that may lag has seen  *)
(* the broker as it is.                                                     *)
(*                                                                          *)
(* Ids of the two journals agree only in a process that opened an empty     *)
(* journal: what is shown is shown while storage works, whatever crashes,   *)
(* or for such a process until it crashes.                                  *)
(***************************************************************************)
EXTENDS EmergencyIntents, FiniteSetTheorems, TLAPS

\* Storage works, or this process opened an empty journal and still runs.
Calm == ~faulty \/ (crashes = 0 /\ UsedIds[faulty] = 0)

\* The journal the wrapper takes its answers from.
Deciding == IF degraded THEN fallback ELSE primary

Quiet == open = {} /\ \A s \in Scopes : Outstanding(s) = 0

\* Where the dispatch is, and what its locals are there.
ControlInv ==
    /\ pc \in {Idle, "read", "settle"} => todo = {}
    /\ pc \in {Idle, "write", "send", "answered"} => quiet = 0
    /\ pc = "read" => quiet < QuietReads
    /\ pc = "settle" => quiet = QuietReads
    /\ pc \in {"send", "answered"} => cur \in Scopes /\ cur \notin todo
    /\ pc # Idle => source \in latched

\* The rows of a journal have ids of their own, below the next one.
Numbered(journal, next) ==
    /\ next # 0
    /\ \A s \in Scopes : journal[s] = None \/ journal[s].id \in 1 .. next - 1
    /\ \A s, t \in Scopes : journal[s].id = journal[t].id /\ journal[s].id # 0 => s = t

\* The mirror has the rows of the durable journal, under the same ids.
InStep ==
    /\ fallbackNext = primaryNext
    /\ \A s \in Scopes : fallback[s].id = primary[s].id /\ fallback[s].source = primary[s].source

JournalInv ==
    /\ Numbered(primary, primaryNext)
    /\ ~faulty => ~degraded /\ \A s \in Scopes : primary[s].id # 0 => primary[s].source \in latched
    /\ faulty => Numbered(fallback, fallbackNext) /\ \A i \in Ids : intentIds[i] \in {0, i}
    /\ faulty /\ ~degraded => InStep

\* An outstanding exit is the only one of an open position, and has a row; a write
\* still to be made is for an open position or one whose row withholds it.
ExitInv ==
    /\ overexited = {}
    /\ \A s \in Scopes : /\ Outstanding(s) \in {0, 1}
                         /\ Outstanding(s) = 1 => s \in open /\ Deciding[s].id # 0
    /\ \A s \in todo : s \in open \/ unresolved[s] # None \/ Deciding[s].id # 0
    /\ pc \in {"send", "answered"} =>
         /\ unresolved[cur] = Deciding[cur] /\ Deciding[cur].id # 0
         /\ Deciding[cur].state = "reserved"
    /\ pc = "send" => Outstanding(cur) = 0 /\ cur \in open
    /\ pc = "answered" /\ answer = "unreached" => Outstanding(cur) = 0

\* A streak longer than the lag has seen a quiet broker, which stays quiet while a
\* source is latched.
QuietInv ==
    /\ quiet > lag => Quiet
    /\ complete => Quiet /\ latched # {}

IntentsInv ==
    /\ TypeOK /\ ControlInv
    /\ Calm => JournalInv /\ ExitInv /\ QuietInv

(***************************************************************************)
(* The operators on journals.                                               *)
(***************************************************************************)
LEMMA NoneIsRecord == None \in Records /\ Empty \in [Scopes -> Records]
BY Zenon DEF None, Records, Empty

LEMMA IdsType == faulty \in BOOLEAN => MaxId[faulty] \in Nat /\ Ids \subseteq Nat
BY BoundsAssumption DEF Ids

\* Only its state changes in a row that is updated.
LEMMA WithStateRows ==
    ASSUME NEW journal \in [Scopes -> Records], NEW i, NEW state \in States
    PROVE  /\ WithState(journal, i, state) \in [Scopes -> Records]
           /\ \A s \in Scopes : /\ WithState(journal, i, state)[s].id = journal[s].id
                                /\ WithState(journal, i, state)[s].source = journal[s].source
                                /\ journal[s] = None => WithState(journal, i, state)[s] = None
BY Zenon DEF WithState, Records

LEMMA WithoutRows ==
    ASSUME NEW journal \in [Scopes -> Records], NEW S
    PROVE  /\ Without(journal, S) \in [Scopes -> Records]
           /\ \A s \in Scopes : Without(journal, S)[s] = IF s \in S THEN None ELSE journal[s]
BY Zenon, NoneIsRecord DEF Without

LEMMA SettledRows ==
    ASSUME NEW journal \in [Scopes -> Records]
    PROVE  /\ Settled(journal) \in [Scopes -> Records]
           /\ \A s \in Scopes :
                Settled(journal)[s] = IF journal[s].source = source THEN None ELSE journal[s]
BY Zenon, NoneIsRecord DEF Settled

LEMMA UnresolvedRows ==
    ASSUME NEW journal \in [Scopes -> Records], NEW src
    PROVE  /\ Unresolved(src, journal) \in [Scopes -> Records]
           /\ \A s \in Scopes :
                Unresolved(src, journal)[s] = IF journal[s].source = src THEN journal[s] ELSE None
BY Zenon, NoneIsRecord DEF Unresolved

LEMMA RowType ==
    ASSUME NEW journal \in [Scopes -> Records], NEW s \in Scopes, NEW next \in Nat,
           source \in Sources \cup {"none"}
    PROVE  Row(journal, s, next) \in Records /\ NextId(journal, s, next) \in Nat
BY DEF Row, NextId, Records, States

\* The number of rows a mirroring adds.
LEMMA AddedRows ==
    ASSUME NEW S, S \subseteq Scopes
    PROVE  Cardinality(S) \in Nat
BY Zenon, SetsAssumption, FS_Subset, FS_CardinalityType

LEMMA MirrorTypes ==
    ASSUME TypeOK, NEW R, R \subseteq Scopes, Mirror(R), UNCHANGED faulty
    PROVE  /\ fallback' \in [Scopes -> Records] /\ fallbackNext' \in Nat
           /\ intentIds' \in [Ids' -> Nat]
<1> /\ fallback \in [Scopes -> Records] /\ primary \in [Scopes -> Records]
    /\ fallbackNext \in Nat /\ intentIds \in [Ids -> Nat]
  BY Zenon DEF TypeOK
<1> Ids' = Ids
  BY Zenon DEF Ids
<1>1. \A s \in Scopes : MirroredId(R, s) \in Nat
  <2> TAKE s \in Scopes
  <2>1. Cardinality({r \in R : fallback[r] = None /\ primary[r].id < primary[s].id}) \in Nat
    BY Zenon, AddedRows
  <2>2. fallback[s].id \in Nat
    BY Zenon DEF Records
  <2> QED BY <2>1, <2>2 DEF MirroredId
<1>2. \A s \in Scopes : MirroredRow(R, s) \in Records
  BY Zenon, <1>1 DEF MirroredRow, Records, States
<1>3. Cardinality({r \in R : fallback[r] = None}) \in Nat
  BY Zenon, AddedRows
<1>4. fallback' \in [Scopes -> Records] /\ fallbackNext' \in Nat
  BY <1>2, <1>3 DEF Mirror
<1>5. \A i \in Ids : (\E s \in R : primary[s].id = i) =>
        MirroredId(R, CHOOSE s \in R : primary[s].id = i) \in Nat
  BY Zenon, <1>1
<1>6. intentIds' \in [Ids -> Nat]
  BY Zenon, <1>5 DEF Mirror
<1> QED BY Zenon, <1>4, <1>6

(***************************************************************************)
(* Types.                                                                   *)
(***************************************************************************)
LEMMA ReturnTypes ==
    ASSUME TypeOK, NEW result \in BOOLEAN, Return(result),
           primary' \in [Scopes -> Records], fallback' \in [Scopes -> Records],
           fallbackNext' \in Nat, degraded' \in BOOLEAN, intentIds' \in [Ids' -> Nat], crashes' \in Nat,
           UNCHANGED <<primaryNext, latched, brokerVars, faulty>>
    PROVE  TypeOK'
<1>1. 0 \in 0 .. QuietReads /\ 0 \in 0 .. MaxLag /\ 0 \in 0 .. ReadAttempts
  BY ReadsAssumption
<1>2. /\ quiet' \in 0 .. QuietReads /\ lag' \in 0 .. MaxLag /\ attempt' \in 0 .. ReadAttempts
  BY Zenon, <1>1 DEF Return
<1>3. unresolved' \in [Scopes -> Records]
  BY Zenon, NoneIsRecord DEF Return
<1>4. /\ pc' \in {Idle, "read", "write", "send", "answered", "settle"}
      /\ source' \in Sources \cup {"none"} /\ cur' \in Scopes \cup {NoScope}
      /\ answer' \in {"none", "unreached", "refused", "lost", "garbled", "ok"}
  BY Zenon DEF Return
<1>5. /\ todo' \subseteq Scopes /\ failed' \subseteq Scopes
      /\ blocked' \in BOOLEAN /\ newly' \in BOOLEAN /\ complete' \in BOOLEAN
  BY Zenon DEF Return
<1>6. /\ primaryNext' \in Nat /\ latched' \subseteq Sources /\ faulty' \in BOOLEAN
      /\ open' \subseteq Scopes /\ overexited' \subseteq Scopes
      /\ inflight' \in [Scopes -> Nat] /\ working' \in [Scopes -> Nat]
  BY Zenon DEF TypeOK, brokerVars
<1> QED BY Zenon, <1>2, <1>3, <1>4, <1>5, <1>6 DEF TypeOK

LEMMA Types == TypeOK /\ ControlInv /\ [Next]_vars => TypeOK'
<1> SUFFICES ASSUME TypeOK, ControlInv, [Next]_vars PROVE TypeOK'
  BY Zenon
<1> USE DEF primaryVars, fallbackVars, journalVars, loopVars, callVars, brokerVars, worldVars
<1>0. /\ primary \in [Scopes -> Records] /\ fallback \in [Scopes -> Records]
      /\ unresolved \in [Scopes -> Records] /\ fallbackNext \in Nat /\ primaryNext \in Nat
      /\ intentIds \in [Ids -> Nat]
  BY Zenon DEF TypeOK
<1>1. ASSUME NEW src \in Sources, Begin(src) PROVE TypeOK'
  <2>1. fallback' \in [Scopes -> Records] /\ fallbackNext' \in Nat /\ intentIds' \in [Ids' -> Nat]
    <3>1. CASE UNCHANGED fallbackVars
      BY Zenon, <1>0, <1>1, <3>1 DEF Begin, Ids
    <3>2. CASE Mirror(Present(unresolved'))
      BY Zenon, <1>1, <3>2, MirrorTypes DEF Begin, Present
    <3> QED BY Zenon, <1>1, <3>1, <3>2 DEF Begin
  <2>2. unresolved' \in [Scopes -> Records]
    BY <1>0, <1>1, UnresolvedRows DEF Begin
  <2>3. 0 \in 0 .. QuietReads /\ 0 \in 0 .. MaxLag /\ 0 \in 0 .. ReadAttempts
    BY ReadsAssumption
  <2>4. /\ quiet' \in 0 .. QuietReads /\ lag' \in 0 .. MaxLag /\ attempt' \in 0 .. ReadAttempts
    BY Zenon, <1>1, <2>3 DEF Begin
  <2>5. /\ todo' \subseteq Scopes /\ failed' \subseteq Scopes
        /\ blocked' \in BOOLEAN /\ newly' \in BOOLEAN /\ complete' \in BOOLEAN
        /\ degraded' \in BOOLEAN /\ faulty' \in BOOLEAN
    BY Zenon, <1>1 DEF Begin, TypeOK
  <2>6. /\ pc' \in {Idle, "read", "write", "send", "answered", "settle"}
        /\ source' \in Sources \cup {"none"} /\ latched' \subseteq Sources
    BY Zenon, <1>1 DEF Begin, TypeOK
  <2> QED BY Zenon, <1>1, <2>1, <2>2, <2>4, <2>5, <2>6 DEF Begin, TypeOK
<1>2. ASSUME NEW src \in Sources, Reset(src) PROVE TypeOK'
  BY Zenon, <1>2 DEF Reset, TypeOK, Ids
<1>3. CASE Read
  <2>1. lag' \in 0 .. MaxLag
    BY <1>3, ReadsAssumption DEF Read, Shows, TypeOK
  <2>2. quiet' \in 0 .. QuietReads /\ attempt' \in 0 .. ReadAttempts
    BY <1>3, ReadsAssumption DEF Read, ResetStreak, AttemptsLeft, TypeOK, ControlInv
  <2>3. todo' \subseteq Scopes /\ blocked' \in BOOLEAN /\ newly' \in BOOLEAN
        /\ pc' \in {Idle, "read", "write", "send", "answered", "settle"}
    BY Zenon, <1>3 DEF Read, TypeOK
  <2> QED BY Zenon, <1>3, <2>1, <2>2, <2>3 DEF Read, TypeOK, Ids
<1>4. CASE ReadFails \/ ReadsExhausted \/ InvalidAnswer
  BY Zenon, <1>0, <1>4, ReturnTypes DEF ReadFails, ReadsExhausted, InvalidAnswer, TypeOK, Ids
<1>5. CASE Send
  <2>1. working' \in [Scopes -> Nat] /\ inflight' \in [Scopes -> Nat]
    <3>1. cur \in Scopes => working[cur] + 1 \in Nat /\ inflight[cur] + 1 \in Nat
      BY DEF TypeOK
    <3>2. working \in [Scopes -> Nat] /\ inflight \in [Scopes -> Nat] /\ cur \in Scopes
      BY Zenon, <1>5 DEF Send, TypeOK, ControlInv
    <3>3. /\ working' \in {working, [working EXCEPT ![cur] = working[cur] + 1]}
          /\ inflight' \in {inflight, [inflight EXCEPT ![cur] = inflight[cur] + 1]}
      <4>1. /\ working' = [working EXCEPT ![cur] = IF answer' \in {"ok", "garbled"} THEN working[cur] + 1
                                                   ELSE working[cur]]
            /\ inflight' = [inflight EXCEPT ![cur] = IF answer' = "lost" THEN inflight[cur] + 1
                                                     ELSE inflight[cur]]
        BY Zenon, <1>5 DEF Send
      <4>2. [working EXCEPT ![cur] = working[cur]] = working
            /\ [inflight EXCEPT ![cur] = inflight[cur]] = inflight
        BY Zenon, <3>2
      <4> QED BY Zenon, <4>1, <4>2
    <3> QED BY Zenon, <3>1, <3>2, <3>3
  <2>2. newly' \in BOOLEAN
    BY Zenon, <1>5 DEF Send, TypeOK
  <2> QED BY Zenon, <1>5, <2>1, <2>2 DEF Send, TypeOK, Ids
<1>6. CASE RecordAnswer
  <2> DEFINE i == unresolved[cur].id
             state == IF answer = "ok" THEN "acknowledged" ELSE "outcome_unknown"
             local == {s \in Scopes : fallback[s].id = FallbackId(i)}
             durable == {s \in Scopes : primary[s].id = i /\ primary[s].state = "reserved"}
  <2>0. state \in States
    BY Zenon DEF States
  <2>1. primary' \in [Scopes -> Records] /\ degraded' \in BOOLEAN
    <3>1. Without(primary, durable) \in [Scopes -> Records]
          /\ WithState(primary, i, state) \in [Scopes -> Records]
      BY <1>0, <2>0, WithoutRows, WithStateRows
    <3>2. \/ DurableWrite(Without(primary, durable))
          \/ DurableWrite(IF local = {} THEN primary ELSE WithState(primary, i, state))
      BY Zenon, <1>6 DEF RecordAnswer
    <3> HIDE DEF durable, i, state, local
    <3> QED BY Zenon, <1>0, <3>1, <3>2 DEF DurableWrite, TypeOK
  <2>2. fallback' \in [Scopes -> Records]
    BY <1>0, <1>6, <2>0, WithoutRows, WithStateRows DEF RecordAnswer
  <2>3. unresolved' \in [Scopes -> Records] /\ failed' \subseteq Scopes
    BY Zenon, <1>0, <1>6, NoneIsRecord DEF RecordAnswer, TypeOK, ControlInv
  <2> QED BY Zenon, <1>6, <2>1, <2>2, <2>3 DEF RecordAnswer, TypeOK, Ids
<1>7. CASE EndPlan
  <2>1. CASE Return(FALSE)
    BY Zenon, <1>0, <1>7, <2>1, ReturnTypes DEF EndPlan, TypeOK, Ids
  <2>2. CASE pc' = "read" /\ UNCHANGED callVars
    BY <1>7, <2>2 DEF EndPlan, TypeOK, Ids
  <2> QED BY Zenon, <1>7, <2>1, <2>2 DEF EndPlan
<1>8. CASE Settle
  <2>1. primary' \in [Scopes -> Records] /\ fallback' \in [Scopes -> Records]
        /\ degraded' \in BOOLEAN
    BY Zenon, <1>0, <1>8, SettledRows DEF Settle, TypeOK
  <2>2. \E result \in BOOLEAN : Return(result)
    BY Zenon, <1>8 DEF Settle
  <2> QED BY Zenon, <1>0, <1>8, <2>1, <2>2, ReturnTypes DEF Settle, TypeOK, Ids
<1>9. CASE Crash
  <2>1. NoIds \in [Ids -> Nat]
    BY Zenon DEF NoIds
  <2>2. Ids' = Ids /\ fallback' \in [Scopes -> Records] /\ primary' \in [Scopes -> Records]
    BY Zenon, <1>0, <1>9, NoneIsRecord DEF Crash, Ids
  <2>3. fallbackNext' \in Nat /\ crashes' \in Nat
    BY <1>9 DEF Crash, TypeOK
  <2>4. degraded' \in BOOLEAN /\ intentIds' \in [Ids' -> Nat]
    BY Zenon, <1>9, <2>1, <2>2 DEF Crash
  <2>5. FALSE \in BOOLEAN /\ Return(FALSE) /\ UNCHANGED <<primaryNext, latched, brokerVars, faulty>>
    BY Zenon, <1>9 DEF Crash
  <2> QED BY Zenon, <2>2, <2>3, <2>4, <2>5, ReturnTypes
<1>10. ASSUME NEW s \in Scopes, SkipWrite(s) PROVE TypeOK'
  BY Zenon, <1>10 DEF SkipWrite, TypeOK, Ids
<1>11. ASSUME NEW s \in Scopes, Reserve(s) PROVE TypeOK'
  <2>1. /\ fallback' \in [Scopes -> Records] /\ fallbackNext' \in Nat
        /\ primary' \in [Scopes -> Records] /\ primaryNext' \in Nat /\ degraded' \in BOOLEAN
    <3>1. /\ Row(fallback, s, fallbackNext) \in Records /\ NextId(fallback, s, fallbackNext) \in Nat
          /\ Row(primary, s, primaryNext) \in Records /\ NextId(primary, s, primaryNext) \in Nat
      BY Zenon, <1>0, RowType DEF TypeOK
    <3>2. /\ fallback' = [fallback EXCEPT ![s] = Row(fallback, s, fallbackNext)]
          /\ fallbackNext' = NextId(fallback, s, fallbackNext)
          /\ \/ UNCHANGED <<primary, primaryNext>>
             \/ /\ primary' = [primary EXCEPT ![s] = Row(primary, s, primaryNext)]
                /\ primaryNext' = NextId(primary, s, primaryNext)
      BY Zenon, <1>11 DEF Reserve
    <3>3. degraded' \in BOOLEAN
      BY Zenon, <1>11 DEF Reserve, TypeOK
    <3> QED BY Zenon, <1>0, <3>1, <3>2, <3>3
  <2>2. intentIds' \in [Ids' -> Nat]
    <3>1. fallback'[s].id \in Nat
      BY Zenon, <2>1 DEF Records
    <3> QED BY Zenon, <1>0, <1>11, <3>1 DEF Reserve, Ids
  <2>3. unresolved' \in [Scopes -> Records]
    BY Zenon, <1>0, <1>11, <2>1 DEF Reserve
  <2>4. cur' \in Scopes \cup {NoScope} /\ pc' \in {"send", "write"} /\ blocked' \in BOOLEAN
    BY Zenon, <1>11 DEF Reserve, TypeOK
  <2> QED BY Zenon, <1>11, <2>1, <2>2, <2>3, <2>4 DEF Reserve, TypeOK
<1>12. ASSUME NEW s \in Scopes, OpenPosition(s) \/ OperatorClose(s) PROVE TypeOK'
  <2>1. open' \subseteq Scopes
    BY Zenon, <1>12 DEF OpenPosition, OperatorClose, TypeOK
  <2>2. UNCHANGED <<journalVars, latched, pc, callVars, inflight, working, overexited, worldVars>>
    BY Zenon, <1>12 DEF OpenPosition, OperatorClose
  <2> QED BY <2>1, <2>2 DEF TypeOK, Ids
<1>13. ASSUME NEW s \in Scopes, Arrive(s) \/ EndExit(s) PROVE TypeOK'
  <2>1. inflight' \in [Scopes -> Nat] /\ working' \in [Scopes -> Nat]
    BY <1>13 DEF Arrive, EndExit, TypeOK
  <2>2. open' \subseteq Scopes /\ overexited' \subseteq Scopes
    BY Zenon, <1>13 DEF Arrive, EndExit, TypeOK
  <2>3. UNCHANGED <<journalVars, latched, pc, callVars, worldVars>>
    BY Zenon, <1>13 DEF Arrive, EndExit
  <2> QED BY <2>1, <2>2, <2>3 DEF TypeOK, Ids
<1>14. CASE UNCHANGED vars
  BY <1>14 DEF vars, TypeOK, Ids
<1> QED BY Zenon, <1>1, <1>2, <1>3, <1>4, <1>5, <1>6, <1>7, <1>8, <1>9, <1>10, <1>11, <1>12, <1>13,
           <1>14 DEF Next

(***************************************************************************)
(* The control of the dispatch.                                             *)
(***************************************************************************)
LEMMA Control == TypeOK /\ ControlInv /\ [Next]_vars => ControlInv'
<1> SUFFICES ASSUME TypeOK, ControlInv, [Next]_vars PROVE ControlInv'
  BY Zenon
<1> USE DEF loopVars, callVars, Idle
<1>1. ASSUME NEW src \in Sources, Begin(src) PROVE ControlInv'
  BY <1>1, ReadsAssumption DEF Begin, ControlInv
<1>2. ASSUME NEW src \in Sources, Reset(src) PROVE ControlInv'
  BY Zenon, <1>2 DEF Reset, ControlInv
<1>3. CASE Read
  <2>1. PICK V \in SUBSET Scopes :
          \/ /\ V = {} /\ quiet' = quiet + 1
             /\ pc' = IF quiet' >= QuietReads THEN "settle" ELSE "read"
             /\ UNCHANGED todo
          \/ /\ quiet' = 0 /\ pc' = "write"
    BY Zenon, <1>3 DEF Read, ResetStreak
  <2>2. pc = "read" /\ UNCHANGED <<source, latched>> /\ quiet \in Nat
    BY <1>3 DEF Read, TypeOK
  <2> QED BY <2>1, <2>2, ReadsAssumption DEF ControlInv
<1>4. CASE \E result \in BOOLEAN : Return(result)
  BY Zenon, <1>4 DEF Return, ControlInv
<1>5. CASE Send
  BY Zenon, <1>5 DEF Send, ControlInv
<1>6. CASE RecordAnswer
  BY Zenon, <1>6 DEF RecordAnswer, ControlInv
<1>7. CASE EndPlan
  <2>1. CASE Return(FALSE)
    BY Zenon, <1>4, <2>1
  <2>2. CASE pc' = "read" /\ UNCHANGED callVars
    <3>1. UNCHANGED <<todo, quiet, cur, source, latched>> /\ pc = "write" /\ todo = {}
      BY Zenon, <1>7, <2>2 DEF EndPlan
    <3> QED BY <2>2, <3>1, ReadsAssumption DEF ControlInv
  <2> QED BY Zenon, <1>7, <2>1, <2>2 DEF EndPlan
<1>8. ASSUME ReadFails \/ ReadsExhausted \/ InvalidAnswer \/ Settle \/ Crash
      PROVE  \E result \in BOOLEAN : Return(result)
  BY Zenon, <1>8 DEF ReadFails, ReadsExhausted, InvalidAnswer, Settle, Crash
<1>9. ASSUME NEW s \in Scopes, SkipWrite(s) PROVE ControlInv'
  BY Zenon, <1>9 DEF SkipWrite, ControlInv
<1>10. ASSUME NEW s \in Scopes, Reserve(s) PROVE ControlInv'
  <2>1. pc = "write" /\ UNCHANGED <<quiet, source, latched>> /\ todo' = todo \ {s}
        /\ (pc' = "write" \/ (pc' = "send" /\ cur' = s))
    BY Zenon, <1>10 DEF Reserve
  <2> QED BY Zenon, <2>1 DEF ControlInv
<1>11. ASSUME NEW s \in Scopes, OpenPosition(s) \/ Arrive(s) \/ EndExit(s) \/ OperatorClose(s)
       PROVE  ControlInv'
  BY Zenon, <1>11 DEF OpenPosition, Arrive, EndExit, OperatorClose, ControlInv
<1>12. CASE UNCHANGED vars
  BY Zenon, <1>12 DEF vars, ControlInv
<1> QED BY Zenon, <1>1, <1>2, <1>3, <1>4, <1>5, <1>6, <1>7, <1>8, <1>9, <1>10, <1>11, <1>12 DEF Next

(***************************************************************************)
(* The journals.                                                            *)
(***************************************************************************)
\* A row is there exactly when it has an id.
LEMMA RowsHaveIds ==
    ASSUME NEW journal, NEW next, Numbered(journal, next)
    PROVE  \A s \in Scopes : journal[s] = None <=> journal[s].id = 0
BY DEF Numbered, None

\* Calm periods are not entered, only left.
LEMMA CalmStep == TypeOK /\ [Next]_vars /\ Calm' => Calm /\ UNCHANGED faulty
<1> SUFFICES ASSUME TypeOK, [Next]_vars PROVE (Calm' => Calm) /\ UNCHANGED faulty
  BY Zenon
<1>1. UNCHANGED faulty /\ (UNCHANGED crashes \/ crashes' = crashes + 1)
  BY Zenon DEF Next, Begin, Reset, Read, ReadFails, ReadsExhausted, Send, RecordAnswer,
     InvalidAnswer,
         EndPlan, Settle, Crash, SkipWrite, Reserve, OpenPosition, Arrive, EndExit, OperatorClose,
         vars, worldVars
<1> QED BY <1>1 DEF Calm, TypeOK

\* A row that keeps its id keeps a journal numbered; so does one that goes.
LEMMA NumberedKept ==
    ASSUME NEW journal, NEW next \in Nat, Numbered(journal, next),
           NEW after,
           \A s \in Scopes : after[s] = None \/ (journal[s] # None /\ after[s].id = journal[s].id)
    PROVE  Numbered(after, next)
<1>1. \A s \in Scopes : after[s] = None \/ after[s].id \in 1 .. next - 1
  BY Zenon DEF Numbered
<1>2. \A s \in Scopes : after[s].id # 0 => after[s].id = journal[s].id
  BY DEF None
<1> QED BY Zenon, <1>1, <1>2 DEF Numbered

\* reserve keeps a journal numbered.
LEMMA NumberedReserve ==
    ASSUME NEW journal \in [Scopes -> Records], NEW next \in Nat, Numbered(journal, next),
           NEW s \in Scopes,
           NEW after, after[s] = Row(journal, s, next),
           \A t \in Scopes \ {s} : after[t] = journal[t]
    PROVE  Numbered(after, NextId(journal, s, next)) /\ after[s].id # 0
<1>1. CASE journal[s] # None
  <2>1. Row(journal, s, next) = journal[s] /\ NextId(journal, s, next) = next
    BY Zenon, <1>1 DEF Row, NextId
  <2>2. \A t \in Scopes : after[t] = journal[t]
    BY Zenon, <2>1
  <2> QED BY <1>1, <2>1, <2>2, RowsHaveIds DEF Numbered
<1>2. CASE journal[s] = None
  <2>1. NextId(journal, s, next) = next + 1 /\ Row(journal, s, next).id = next
    BY Zenon, <1>2 DEF Row, NextId
  <2>2. after[s].id = next
    BY Zenon, <2>1
  <2>3. \A t \in Scopes \ {s} : after[t] = None \/ after[t].id \in 1 .. next - 1
    BY Zenon, <2>2 DEF Numbered
  <2>4. next # 0 /\ next \in 1 .. (next + 1) - 1
    BY DEF Numbered
  <2>5. \A t \in Scopes : after[t] = None \/ after[t].id \in 1 .. (next + 1) - 1
    BY <2>2, <2>3, <2>4
  <2>6. \A t \in Scopes \ {s} : after[t].id # next
    BY <2>3, <2>4 DEF None
  <2>7. \A t, u \in Scopes : after[t].id = after[u].id /\ after[t].id # 0 => t = u
    BY Zenon, <2>2, <2>6 DEF Numbered
  <2> QED BY <2>1, <2>2, <2>4, <2>5, <2>7 DEF Numbered
<1> QED BY Zenon, <1>1, <1>2

\* In a calm process an id means the same row in both journals.
LEMMA SameIds ==
    ASSUME TypeOK, faulty, JournalInv, NEW i \in Nat
    PROVE  FallbackId(i) = i
BY Zenon DEF JournalInv, FallbackId

\* ... so the mirror settles whenever the durable journal does.
LEMMA MirrorMatches ==
    ASSUME TypeOK, faulty, JournalInv, InStep, Matching(primary) = Expected
    PROVE  Matching(fallback) = {FallbackId(i) : i \in Expected}
<1>1. Matching(fallback) = Matching(primary)
  BY Zenon DEF Matching, InStep
<1>2. Expected \subseteq Nat
  BY DEF Expected, Present, TypeOK, Records
<1>3. {FallbackId(i) : i \in Expected} = Expected
  BY Zenon, <1>2, SameIds
<1> QED BY Zenon, <1>1, <1>3

LEMMA JournalFrame ==
    ASSUME JournalInv, UNCHANGED <<primary, primaryNext, fallback, fallbackNext, degraded, intentIds>>,
           UNCHANGED faulty, latched \subseteq latched'
    PROVE  JournalInv'
BY Zenon DEF JournalInv, Numbered, InStep, Ids

\* Mirroring finds every row in the mirror of a calm process.
LEMMA MirrorKeeps ==
    ASSUME TypeOK, faulty, JournalInv, InStep, NEW R, R \subseteq Present(primary), Mirror(R)
    PROVE  /\ \A s \in Scopes : /\ fallback'[s].id = fallback[s].id
                                /\ fallback'[s].source = fallback[s].source
                                /\ fallback[s] = None => fallback'[s] = None
           /\ UNCHANGED fallbackNext
           /\ \A i \in Ids : intentIds'[i] \in {0, i}
<1>1. \A s \in R : s \in Scopes /\ fallback[s] # None
  <2> TAKE s \in R
  <2>1. s \in Scopes /\ primary[s].id # 0
    BY Zenon, RowsHaveIds DEF JournalInv, Present
  <2> QED BY <2>1 DEF InStep, None
<1>2. \A s \in R : MirroredId(R, s) = fallback[s].id
  BY Zenon, <1>1 DEF MirroredId
<1>3. \A s \in R : MirroredRow(R, s).id = fallback[s].id /\ MirroredRow(R, s).source = fallback[s].source
  BY Zenon, <1>1, <1>2 DEF MirroredRow
<1>4. fallback' = [s \in Scopes |-> IF s \in R THEN MirroredRow(R, s) ELSE fallback[s]]
  BY Zenon DEF Mirror
<1>5. {r \in R : fallback[r] = None} = {}
  BY Zenon, <1>1
<1>6. fallbackNext' = fallbackNext
  <2>1. Cardinality({r \in R : fallback[r] = None}) = 0
    BY Zenon, <1>5, FS_EmptySet
  <2> QED BY <2>1 DEF Mirror, TypeOK
<1>7. ASSUME NEW i \in Ids PROVE intentIds'[i] \in {0, i}
  <2>1. CASE \E s \in R : primary[s].id = i
    <3> DEFINE c == CHOOSE s \in R : primary[s].id = i
    <3>1. c \in R /\ primary[c].id = i
      BY Zenon, <2>1
    <3>2. intentIds'[i] = MirroredId(R, c)
      BY Zenon, <2>1 DEF Mirror
    <3> HIDE DEF c
    <3>3. MirroredId(R, c) = i
      BY Zenon, <1>1, <1>2, <3>1 DEF InStep
    <3> QED BY Zenon, <3>2, <3>3
  <2>2. CASE ~\E s \in R : primary[s].id = i
    BY Zenon, <2>2 DEF Mirror, JournalInv
  <2> QED BY Zenon, <2>1, <2>2
<1> QED BY Zenon, <1>1, <1>3, <1>4, <1>6, <1>7

LEMMA BeginJournals ==
    ASSUME TypeOK, JournalInv, UNCHANGED faulty, NEW src \in Sources, Begin(src)
    PROVE  JournalInv' /\ \A s \in Scopes : Deciding'[s].id = Deciding[s].id
<1> USE DEF primaryVars, fallbackVars
<1>0. latched \subseteq latched' /\ UNCHANGED primary /\ UNCHANGED primaryNext /\ Ids' = Ids
  BY Zenon DEF Begin, Ids
<1>1. CASE ~faulty
  <2>1. ~degraded /\ ~degraded'
    <3>1. ~degraded
      BY Zenon, <1>1 DEF JournalInv
    <3>2. UNCHANGED degraded
      BY Zenon, <1>1, <3>1 DEF Begin
    <3> QED BY Zenon, <3>1, <3>2
  <2> QED BY Zenon, <1>0, <1>1, <2>1 DEF JournalInv, Numbered, Deciding
<1>2. CASE faulty /\ UNCHANGED fallbackVars /\ degraded'
  BY Zenon, <1>0, <1>2 DEF JournalInv, Numbered, Deciding, InStep
<1>3. CASE faulty /\ ~degraded /\ ~degraded' /\ Mirror(Present(unresolved'))
              /\ unresolved' = Unresolved(src, primary)
  <2>1. Present(unresolved') \subseteq Present(primary)
    BY Zenon, <1>3 DEF Present, Unresolved
  <2>2. InStep
    BY Zenon, <1>3 DEF JournalInv
  <2>3. /\ \A s \in Scopes : /\ fallback'[s].id = fallback[s].id
                             /\ fallback'[s].source = fallback[s].source
                             /\ fallback[s] = None => fallback'[s] = None
        /\ UNCHANGED fallbackNext /\ \A i \in Ids : intentIds'[i] \in {0, i}
    BY Zenon, <1>3, <2>1, <2>2, MirrorKeeps
  <2>4. InStep'
    BY Zenon, <1>0, <2>2, <2>3 DEF InStep
  <2>5. Numbered(fallback, fallbackNext) /\ fallbackNext \in Nat
    BY Zenon, <1>3 DEF JournalInv, TypeOK
  <2>6. Numbered(fallback', fallbackNext)
    BY Zenon, <2>3, <2>5, NumberedKept
  <2>7. Numbered(primary, primaryNext)'
    BY Zenon, <1>0 DEF JournalInv, Numbered
  <2> QED BY Zenon, <1>0, <1>3, <2>3, <2>4, <2>6, <2>7 DEF JournalInv, Deciding
<1> QED BY <1>1, <1>2, <1>3 DEF Begin, TypeOK

LEMMA ReserveJournals ==
    ASSUME TypeOK, ControlInv, JournalInv, UNCHANGED faulty, NEW s \in Scopes, Reserve(s)
    PROVE  /\ JournalInv' /\ Deciding'[s].id # 0
           /\ \A t \in Scopes : Deciding[t].id # 0 => Deciding'[t].id # 0
           /\ pc' = "send" => /\ Deciding[s].id = 0 /\ cur' = s /\ unresolved'[s] = Deciding'[s]
                              /\ Deciding'[s].state = "reserved"
<1> USE DEF primaryVars
<1>0. /\ primary \in [Scopes -> Records] /\ fallback \in [Scopes -> Records]
      /\ unresolved \in [Scopes -> Records]
      /\ primaryNext \in Nat /\ fallbackNext \in Nat /\ Numbered(primary, primaryNext)
      /\ Ids' = Ids /\ source \in latched /\ UNCHANGED latched
  BY Zenon DEF TypeOK, JournalInv, ControlInv, Reserve, Idle, Ids
<1> DEFINE newPrimary == [primary EXCEPT ![s] = Row(primary, s, primaryNext)]
           newFallback == [fallback EXCEPT ![s] = Row(fallback, s, fallbackNext)]
<1>1. /\ Numbered(newPrimary, NextId(primary, s, primaryNext)) /\ newPrimary[s].id # 0
      /\ \A t \in Scopes \ {s} : newPrimary[t] = primary[t]
  <2>1. newPrimary[s] = Row(primary, s, primaryNext) /\ \A t \in Scopes \ {s} : newPrimary[t] = primary[t]
    BY Zenon, <1>0
  <2> HIDE DEF newPrimary
  <2> QED BY Zenon, <1>0, <2>1, NumberedReserve
<1>2. /\ fallback' = newFallback /\ fallbackNext' = NextId(fallback, s, fallbackNext)
      /\ newFallback[s] = Row(fallback, s, fallbackNext) /\ newPrimary[s] = Row(primary, s, primaryNext)
      /\ \A t \in Scopes \ {s} : newFallback[t] = fallback[t]
  BY Zenon, <1>0 DEF Reserve
<1>3. /\ pc' = "send" => /\ cur' = s
                         /\ IF degraded' THEN fallback[s] = None ELSE primary[s] = None
      /\ unresolved'[s] = IF degraded' THEN fallback'[s] ELSE primary'[s]
  BY Zenon, <1>0 DEF Reserve, Created
<1>4. /\ primary[s] = None => newPrimary[s].state = "reserved" /\ primary[s].id = 0
      /\ fallback[s] = None => newFallback[s].state = "reserved" /\ fallback[s].id = 0
      /\ primary[s] # None => newPrimary[s] = primary[s]
      /\ primary[s] = None => newPrimary[s].source = source
  BY <1>2 DEF Row, None
<1>5. ~degraded /\ ~degraded' =>
        /\ primary' = newPrimary /\ primaryNext' = NextId(primary, s, primaryNext)
        /\ intentIds' = [intentIds EXCEPT ![primary'[s].id] = fallback'[s].id]
  BY Zenon DEF Reserve
<1>6. degraded' => /\ UNCHANGED intentIds
                   /\ \/ UNCHANGED <<primary, primaryNext>>
                      \/ primary' = newPrimary /\ primaryNext' = NextId(primary, s, primaryNext)
  BY Zenon DEF Reserve
<1>7. degraded => degraded'
  BY Zenon DEF Reserve
<1>8. Numbered(primary', primaryNext')
  BY Zenon, <1>0, <1>1, <1>5, <1>6, <1>7 DEF TypeOK
<1>9. CASE ~faulty
  <2>1. ~degraded /\ ~degraded'
    BY <1>9 DEF JournalInv, Reserve
  <2>2. \A t \in Scopes : primary'[t].id # 0 => primary'[t].source \in latched
    BY Zenon, <1>0, <1>1, <1>4, <1>5, <1>9, <2>1 DEF JournalInv
  <2> QED BY Zenon, <1>0, <1>1, <1>3, <1>4, <1>5, <1>8, <1>9, <2>1, <2>2 DEF JournalInv, Deciding
<1>10. CASE faulty
  <2>1. Numbered(fallback, fallbackNext)
    BY Zenon, <1>10 DEF JournalInv
  <2>2. /\ Numbered(newFallback, NextId(fallback, s, fallbackNext)) /\ newFallback[s].id # 0
        /\ \A t \in Scopes \ {s} : newFallback[t] = fallback[t]
    <3> HIDE DEF newFallback
    <3> QED BY Zenon, <1>0, <1>2, <2>1, NumberedReserve
  <2>3. ~degraded => \A t \in Scopes : fallback[t].id = primary[t].id
    BY Zenon, <1>10 DEF JournalInv, InStep
  <2>4. CASE degraded'
    <3>1. Deciding' = newFallback
      BY Zenon, <1>2, <2>4 DEF Deciding
    <3>2. \A t \in Scopes : Deciding[t].id = fallback[t].id
      BY Zenon, <2>3 DEF Deciding, TypeOK
    <3>3. JournalInv'
      BY Zenon, <1>0, <1>2, <1>6, <1>8, <1>10, <2>2, <2>4 DEF JournalInv
    <3> QED BY Zenon, <1>2, <1>3, <1>4, <2>2, <2>4, <3>1, <3>2, <3>3
  <2>5. CASE ~degraded'
    <3>1. ~degraded /\ InStep
      BY Zenon, <1>7, <1>10, <2>5 DEF JournalInv
    <3>2. Deciding' = newPrimary /\ Deciding = primary
      BY Zenon, <1>5, <2>5, <3>1 DEF Deciding
    <3>3. primary[s] = None <=> fallback[s] = None
      BY Zenon, <1>0, <2>1, <2>3, <3>1, RowsHaveIds
    <3>4. /\ newPrimary[s].id = newFallback[s].id /\ newPrimary[s].source = newFallback[s].source
          /\ NextId(primary, s, primaryNext) = NextId(fallback, s, fallbackNext)
      BY Zenon, <1>2, <3>1, <3>3 DEF InStep, Row, NextId
    <3>5. InStep'
      <4> HIDE DEF newPrimary, newFallback
      <4>1. /\ primary' = newPrimary /\ fallback' = newFallback /\ primaryNext' = fallbackNext'
        BY Zenon, <1>2, <1>5, <2>5, <3>1, <3>4
      <4> QED BY Zenon, <1>1, <1>2, <3>1, <3>4, <4>1 DEF InStep
    <3>6. \A i \in Ids : intentIds'[i] \in {0, i}
      BY <1>2, <1>5, <1>10, <2>5, <3>1, <3>4 DEF JournalInv, TypeOK
    <3>7. JournalInv'
      BY Zenon, <1>0, <1>2, <1>8, <1>10, <2>2, <3>5, <3>6 DEF JournalInv
    <3> QED BY Zenon, <1>1, <1>3, <1>4, <1>5, <2>5, <3>1, <3>2, <3>7
  <2> QED BY Zenon, <2>4, <2>5
<1> QED BY Zenon, <1>9, <1>10

LEMMA SettleJournals ==
    ASSUME TypeOK, JournalInv, UNCHANGED faulty, Settle
    PROVE  JournalInv'
<1>0. /\ primary \in [Scopes -> Records] /\ fallback \in [Scopes -> Records]
      /\ primaryNext \in Nat /\ fallbackNext \in Nat
      /\ UNCHANGED <<primaryNext, fallbackNext, intentIds, latched>> /\ Ids' = Ids
  BY Zenon DEF TypeOK, Settle, Ids
<1>1. primary' \in {primary, Settled(primary)} /\ fallback' \in {fallback, Settled(fallback)}
  BY Zenon DEF Settle
<1>2. \A s \in Scopes : /\ primary'[s] = None \/ primary'[s] = primary[s]
                        /\ fallback'[s] = None \/ fallback'[s] = fallback[s]
  BY <1>0, <1>1, SettledRows
<1>3. Numbered(primary', primaryNext')
  BY Zenon, <1>0, <1>2, NumberedKept DEF JournalInv
<1>4. CASE ~faulty
  <2>1. ~degraded /\ ~degraded'
    <3>1. ~degraded
      BY Zenon, <1>4 DEF JournalInv
    <3>2. UNCHANGED degraded
      BY Zenon, <1>4, <3>1 DEF Settle
    <3> QED BY Zenon, <3>1, <3>2
  <2>2. \A s \in Scopes : primary'[s].id # 0 => primary'[s].source \in latched
    BY <1>2, <1>4 DEF JournalInv, None
  <2> QED BY Zenon, <1>0, <1>3, <1>4, <2>1, <2>2 DEF JournalInv
<1>5. CASE faulty
  <2>1. Numbered(fallback', fallbackNext')
    BY Zenon, <1>0, <1>2, <1>5, NumberedKept DEF JournalInv
  <2>2. ASSUME ~degraded' PROVE InStep'
    <3>1. ~degraded /\ InStep
      BY Zenon, <1>5, <2>2 DEF JournalInv, Settle
    <3>2. CASE UNCHANGED <<primary, fallback>>
      BY Zenon, <1>0, <3>1, <3>2 DEF InStep
    <3>3. CASE /\ Matching(primary) = Expected /\ primary' = Settled(primary)
               /\ fallback' = IF Matching(fallback) = {FallbackId(i) : i \in Expected}
                              THEN Settled(fallback) ELSE fallback
      <4>1. fallback' = Settled(fallback)
        BY Zenon, <1>5, <3>1, <3>3, MirrorMatches
      <4> QED BY <1>0, <3>1, <3>3, <4>1, SettledRows DEF InStep
    <3> QED BY Zenon, <2>2, <3>2, <3>3 DEF Settle
  <2> QED BY Zenon, <1>0, <1>3, <1>5, <2>1, <2>2 DEF JournalInv
<1> QED BY Zenon, <1>4, <1>5

\* Recording an answer removes at most the row of the write that was answered, and
\* that only if the write never reached the adapter.
LEMMA RecordJournals ==
    ASSUME TypeOK, ControlInv, JournalInv, ExitInv, UNCHANGED faulty, RecordAnswer
    PROVE  /\ JournalInv'
           /\ \A s \in Scopes : s # cur \/ answer # "unreached" => Deciding'[s].id = Deciding[s].id
<1> DEFINE i == unresolved[cur].id
           state == IF answer = "ok" THEN "acknowledged" ELSE "outcome_unknown"
           local == {s \in Scopes : fallback[s].id = FallbackId(i)}
           durable == {s \in Scopes : primary[s].id = i /\ primary[s].state = "reserved"}
           written == IF local = {} THEN primary ELSE WithState(primary, i, state)
<1>0. /\ primary \in [Scopes -> Records] /\ fallback \in [Scopes -> Records]
      /\ primaryNext \in Nat /\ fallbackNext \in Nat /\ state \in States
      /\ UNCHANGED <<primaryNext, fallbackNext, intentIds, latched>> /\ Ids' = Ids
  BY Zenon DEF TypeOK, RecordAnswer, Ids, States
<1>1. /\ cur \in Scopes /\ i = Deciding[cur].id /\ i # 0 /\ Deciding[cur].state = "reserved"
      /\ i \in Nat
  BY Zenon DEF RecordAnswer, ControlInv, ExitInv, TypeOK, Records
<1>2. \/ /\ answer = "unreached" /\ DurableWrite(Without(primary, durable))
         /\ fallback' = Without(fallback, local)
      \/ /\ answer # "unreached" /\ DurableWrite(written)
         /\ fallback' = WithState(fallback, FallbackId(i), state)
  BY Zenon DEF RecordAnswer, Releases
<1> HIDE DEF i, state
<1>3. \A s \in Scopes : /\ written[s].id = primary[s].id /\ written[s].source = primary[s].source
                        /\ WithState(fallback, FallbackId(i), state)[s].id = fallback[s].id
                        /\ WithState(fallback, FallbackId(i), state)[s].source = fallback[s].source
                        /\ primary[s] = None => written[s] = None
                        /\ fallback[s] = None => WithState(fallback, FallbackId(i), state)[s] = None
  BY <1>0, WithStateRows
<1>4. /\ \A s \in Scopes : Without(primary, durable)[s] = IF s \in durable THEN None ELSE primary[s]
      /\ \A s \in Scopes : Without(fallback, local)[s] = IF s \in local THEN None ELSE fallback[s]
  BY <1>0, WithoutRows
<1>5. ~degraded => durable = {cur}
  <2> SUFFICES ASSUME ~degraded PROVE durable = {cur}
    BY Zenon
  <2>1. primary[cur].id = i /\ primary[cur].state = "reserved"
    BY Zenon, <1>1 DEF Deciding
  <2>2. \A s \in Scopes : primary[s].id = i => s = cur
    BY Zenon, <1>1, <2>1 DEF JournalInv, Numbered
  <2> QED BY Zenon, <1>1, <2>1, <2>2
<1>6. faulty => local = {cur}
  <2> SUFFICES ASSUME faulty PROVE local = {cur}
    BY Zenon
  <2>1. FallbackId(i) = i
    BY Zenon, <1>1, SameIds
  <2>2. fallback[cur].id = i
    BY Zenon, <1>1 DEF JournalInv, InStep, Deciding, TypeOK
  <2>3. \A s \in Scopes : fallback[s].id = i => s = cur
    BY Zenon, <1>1, <2>2 DEF JournalInv, Numbered
  <2> QED BY Zenon, <1>1, <2>1, <2>2, <2>3
<1> HIDE DEF local, durable, written
<1>7. ASSUME NEW committed,
             \A s \in Scopes : committed[s] = None \/ (primary[s] # None /\ committed[s].id = primary[s].id),
             DurableWrite(committed)
      PROVE  Numbered(primary', primaryNext')
  <2>1. primary' = primary \/ primary' = committed
    BY Zenon, <1>7 DEF DurableWrite
  <2> QED BY Zenon, <1>0, <1>7, <2>1, NumberedKept DEF JournalInv
<1>8. Numbered(primary', primaryNext')
  BY Zenon, <1>2, <1>3, <1>4, <1>7
<1>9. ~faulty => ~degraded /\ ~degraded'
  BY Zenon, <1>2 DEF JournalInv, DurableWrite
<1>10. CASE answer = "unreached"
  <2>1. ~degraded /\ ~degraded' => primary' = Without(primary, durable)
    BY Zenon, <1>2, <1>10 DEF DurableWrite
  <2>2. degraded => degraded' /\ UNCHANGED primary
    BY Zenon, <1>2, <1>10 DEF DurableWrite
  <2>3. fallback' = Without(fallback, local)
    BY Zenon, <1>2, <1>10
  <2>4. CASE ~faulty
    <3>1. \A s \in Scopes : primary'[s] = IF s = cur THEN None ELSE primary[s]
      BY Zenon, <1>4, <1>5, <1>9, <2>1, <2>4
    <3>2. \A s \in Scopes : primary'[s].id # 0 => primary'[s].source \in latched'
      BY <1>0, <2>4, <3>1 DEF JournalInv, None
    <3> QED BY Zenon, <1>8, <1>9, <1>10, <2>4, <3>1, <3>2 DEF JournalInv, Deciding
  <2>5. CASE faulty
    <3>1. \A s \in Scopes : fallback'[s] = IF s = cur THEN None ELSE fallback[s]
      BY Zenon, <1>4, <1>6, <2>3, <2>5
    <3>2. Numbered(fallback', fallbackNext')
      BY Zenon, <1>0, <2>5, <3>1, NumberedKept DEF JournalInv
    <3>3. ~degraded' => \A s \in Scopes : primary'[s] = IF s = cur THEN None ELSE primary[s]
      BY Zenon, <1>4, <1>5, <2>1, <2>2
    <3>4. ~degraded => InStep
      BY Zenon, <2>5 DEF JournalInv
    <3>5. ~degraded' => InStep'
      BY Zenon, <1>0, <2>2, <3>1, <3>3, <3>4 DEF InStep
    <3>6. \A s \in Scopes : s # cur => Deciding'[s].id = Deciding[s].id
      BY Zenon, <2>2, <3>1, <3>3, <3>4 DEF InStep, Deciding
    <3> QED BY Zenon, <1>0, <1>8, <1>10, <2>5, <3>2, <3>5, <3>6 DEF JournalInv
  <2> QED BY Zenon, <2>4, <2>5
<1>11. CASE answer # "unreached"
  <2>1. \A s \in Scopes : primary'[s].id = primary[s].id /\ primary'[s].source = primary[s].source
    BY Zenon, <1>2, <1>3, <1>11 DEF DurableWrite
  <2>2. \A s \in Scopes : /\ fallback'[s].id = fallback[s].id /\ fallback'[s].source = fallback[s].source
                          /\ fallback[s] = None => fallback'[s] = None
    BY Zenon, <1>2, <1>3, <1>11
  <2>3. degraded => degraded'
    BY Zenon, <1>2 DEF DurableWrite
  <2>4. faulty => Numbered(fallback', fallbackNext')
    BY Zenon, <1>0, <2>2, NumberedKept DEF JournalInv
  <2>5. faulty /\ ~degraded' => InStep'
    BY Zenon, <1>0, <2>1, <2>2, <2>3 DEF JournalInv, InStep
  <2>6. \A s \in Scopes : Deciding'[s].id = Deciding[s].id
    <3>1. faulty /\ ~degraded => InStep
      BY Zenon DEF JournalInv
    <3> QED BY Zenon, <1>9, <2>1, <2>2, <2>3, <3>1 DEF InStep, Deciding
  <2> QED BY Zenon, <1>0, <1>8, <1>9, <2>1, <2>4, <2>5, <2>6 DEF JournalInv
<1> QED BY Zenon, <1>10, <1>11

(***************************************************************************)
(* The steps, in a calm process.                                            *)
(***************************************************************************)
LEMMA JournalStep ==
    ASSUME IntentsInv, [Next]_vars, Calm'
    PROVE  JournalInv'
<1> USE DEF primaryVars, fallbackVars, journalVars
<1>0. TypeOK /\ ControlInv /\ JournalInv /\ ExitInv /\ UNCHANGED faulty
  BY Zenon, CalmStep DEF IntentsInv
<1>1. ASSUME NEW src \in Sources, Begin(src) PROVE JournalInv'
  BY Zenon, <1>0, <1>1, BeginJournals
<1>2. ASSUME NEW src \in Sources, Reset(src) PROVE JournalInv'
  BY Zenon, <1>0, <1>2 DEF Reset, NothingUnsettled, JournalInv, Numbered, InStep, Ids
<1>3. ASSUME NEW s \in Scopes, Reserve(s) PROVE JournalInv'
  BY Zenon, <1>0, <1>3, ReserveJournals
<1>4. CASE RecordAnswer
  BY Zenon, <1>0, <1>4, RecordJournals
<1>5. CASE Settle
  BY Zenon, <1>0, <1>5, SettleJournals
<1>6. CASE Crash
  <2>1. ~faulty
    BY <1>0, <1>6 DEF Crash, Calm, TypeOK
  <2>2. ~degraded' /\ UNCHANGED <<primary, primaryNext, latched>>
    BY Zenon, <1>6 DEF Crash
  <2> QED BY Zenon, <1>0, <2>1, <2>2 DEF JournalInv, Numbered
<1>7. CASE UNCHANGED <<journalVars, latched>>
  BY Zenon, <1>0, <1>7, JournalFrame
<1>8. ASSUME NEW s \in Scopes,
             SkipWrite(s) \/ OpenPosition(s) \/ Arrive(s) \/ EndExit(s) \/ OperatorClose(s)
      PROVE  UNCHANGED <<journalVars, latched>>
  BY Zenon, <1>8 DEF SkipWrite, OpenPosition, Arrive, EndExit, OperatorClose
<1>9. ASSUME Read \/ ReadFails \/ ReadsExhausted \/ Send \/ InvalidAnswer \/ EndPlan \/ UNCHANGED vars
      PROVE  UNCHANGED <<journalVars, latched>>
  BY Zenon, <1>9 DEF Read, ReadFails, ReadsExhausted, Send, InvalidAnswer, EndPlan, vars
<1> QED BY Zenon, <1>1, <1>2, <1>3, <1>4, <1>5, <1>6, <1>7, <1>8, <1>9 DEF Next

\* What changes nothing at the broker, plans no write and forgets no row of an exit.
LEMMA ExitKept ==
    ASSUME ExitInv, UNCHANGED brokerVars, todo' = {}, pc' \notin {"send", "answered"},
           \A s \in Scopes : Outstanding(s) = 1 /\ Deciding[s].id # 0 => Deciding'[s].id # 0
    PROVE  ExitInv'
BY Zenon DEF ExitInv, Outstanding, brokerVars

\* Enough quiet reads in a row have seen the broker as it is.
LEMMA SettleIsQuiet ==
    ASSUME TypeOK, ControlInv, QuietInv, pc = "settle"
    PROVE  Quiet
<1>1. quiet = QuietReads /\ lag \in 0 .. MaxLag
  BY Zenon DEF ControlInv, TypeOK
<1>2. quiet > lag
  BY <1>1, ReadsAssumption
<1> QED BY Zenon, <1>2 DEF QuietInv

LEMMA ExitStep ==
    ASSUME IntentsInv, [Next]_vars, Calm'
    PROVE  ExitInv'
<1> USE DEF primaryVars, fallbackVars, journalVars, loopVars, callVars, brokerVars
<1>0. TypeOK /\ ControlInv /\ JournalInv /\ ExitInv /\ QuietInv /\ UNCHANGED faulty
  BY Zenon, CalmStep DEF IntentsInv
<1>a. ASSUME UNCHANGED journalVars PROVE Deciding' = Deciding
  BY Zenon, <1>a DEF Deciding
<1>b. \A s \in Scopes : inflight[s] \in Nat /\ working[s] \in Nat /\ Outstanding(s) \in Nat
  BY <1>0 DEF TypeOK, Outstanding
<1>1. ASSUME NEW src \in Sources, Begin(src) PROVE ExitInv'
  <2>1. \A s \in Scopes : Deciding'[s].id = Deciding[s].id
    BY Zenon, <1>0, <1>1, BeginJournals
  <2> QED BY Zenon, <1>0, <1>1, <2>1, ExitKept DEF Begin
<1>2. ASSUME NEW src \in Sources, Reset(src) PROVE ExitInv'
  BY Zenon, <1>0, <1>2, <1>a DEF Reset, ExitInv, Outstanding, Idle
<1>3. CASE Read
  <2>1. /\ pc = "read" /\ pc' \in {"read", "settle", "write"}
        /\ UNCHANGED <<unresolved, inflight, working, open, overexited>> /\ Deciding' = Deciding
    BY Zenon, <1>3, <1>a DEF Read
  <2>2. \A s \in Unquiet : s \in open
    <3> TAKE s \in Unquiet
    <3>1. CASE s \in Scopes /\ working[s] > 0
      <4>1. Outstanding(s) # 0
        BY <1>b, <3>1 DEF Outstanding
      <4> QED BY Zenon, <1>0, <3>1, <4>1 DEF ExitInv
    <3> QED BY Zenon, <3>1 DEF Unquiet
  <2>3. \A s \in todo' : s \in open \/ unresolved[s] # None
    BY Zenon, <1>0, <1>3, <2>2 DEF Read, Shows, Present, ControlInv
  <2> QED BY Zenon, <1>0, <2>1, <2>3 DEF ExitInv, Outstanding
<1>4. CASE ReadFails \/ ReadsExhausted \/ InvalidAnswer
  BY Zenon, <1>0, <1>4, <1>a, ExitKept DEF ReadFails, ReadsExhausted, InvalidAnswer, Return, Idle
<1>5. CASE EndPlan
  <2>1. todo' = {} /\ pc' \in {Idle, "read"} /\ UNCHANGED brokerVars /\ UNCHANGED journalVars
    BY Zenon, <1>5 DEF EndPlan, Return
  <2> QED BY Zenon, <1>0, <1>a, <2>1, ExitKept DEF Idle
<1>6. CASE Send
  <2>1. /\ pc = "send" /\ pc' = "answered" /\ Deciding' = Deciding
        /\ UNCHANGED <<unresolved, todo, cur, open, overexited>>
        /\ cur \in Scopes /\ Outstanding(cur) = 0 /\ cur \in open
    BY Zenon, <1>0, <1>6, <1>a DEF Send, ControlInv, ExitInv
  <2>2. inflight[cur] = 0 /\ working[cur] = 0
    <3>1. inflight[cur] \in Nat /\ working[cur] \in Nat /\ inflight[cur] + working[cur] = 0
      BY Zenon, <1>b, <2>1 DEF Outstanding
    <3> QED BY <3>1
  <2>3. \A s \in Scopes \ {cur} : inflight'[s] = inflight[s] /\ working'[s] = working[s]
    BY Zenon, <1>0, <1>6 DEF Send, TypeOK
  <2>4. /\ inflight'[cur] = IF answer' = "lost" THEN 1 ELSE 0
        /\ working'[cur] = IF answer' \in {"ok", "garbled"} THEN 1 ELSE 0
    <3>1. working \in [Scopes -> Nat] /\ inflight \in [Scopes -> Nat] /\ cur \in Scopes
      BY Zenon, <1>0, <2>1 DEF TypeOK
    <3>2. /\ working' = [working EXCEPT ![cur] = IF answer' \in {"ok", "garbled"} THEN working[cur] + 1
                                                 ELSE working[cur]]
          /\ inflight' = [inflight EXCEPT ![cur] = IF answer' = "lost" THEN inflight[cur] + 1
                                                   ELSE inflight[cur]]
      BY Zenon, <1>6 DEF Send
    <3> QED BY <2>2, <3>1, <3>2
  <2>5. Outstanding(cur)' \in {0, 1} /\ (answer' = "unreached" => Outstanding(cur)' = 0)
    BY <2>1, <2>4 DEF Outstanding
  <2>6. \A s \in Scopes \ {cur} : Outstanding(s)' = Outstanding(s)
    BY Zenon, <2>3 DEF Outstanding
  <2> QED BY Zenon, <1>0, <2>1, <2>5, <2>6 DEF ExitInv
<1>7. CASE RecordAnswer
  <2>1. \A s \in Scopes : s # cur \/ answer # "unreached" => Deciding'[s].id = Deciding[s].id
    BY Zenon, <1>0, <1>7, RecordJournals
  <2>2. /\ pc = "answered" /\ pc' = "write" /\ UNCHANGED <<todo, brokerVars>>
        /\ cur \in Scopes /\ cur \notin todo /\ \A s \in Scopes \ {cur} : unresolved'[s] = unresolved[s]
    BY Zenon, <1>0, <1>7 DEF RecordAnswer, ControlInv, TypeOK
  <2>3. \A s \in todo : s \in Scopes \ {cur}
    BY Zenon, <1>0, <2>2 DEF TypeOK
  <2>4. \A s \in Scopes : Outstanding(s)' = Outstanding(s)
    BY Zenon, <2>2 DEF Outstanding
  <2>5. \A s \in Scopes : Outstanding(s) = 1 => s \in open' /\ Deciding'[s].id # 0
    BY <1>0, <2>1, <2>2 DEF ExitInv
  <2>6. \A s \in todo' : s \in open' \/ unresolved'[s] # None \/ Deciding'[s].id # 0
    BY Zenon, <1>0, <2>1, <2>2, <2>3 DEF ExitInv
  <2> QED BY Zenon, <1>0, <2>2, <2>4, <2>5, <2>6 DEF ExitInv
<1>8. CASE Settle
  <2>1. \A s \in Scopes : Outstanding(s) = 0
    BY Zenon, <1>0, <1>8, SettleIsQuiet DEF Settle, Quiet
  <2>2. UNCHANGED brokerVars /\ todo' = {} /\ pc' \notin {"send", "answered"}
    BY Zenon, <1>8 DEF Settle, Return, Idle
  <2>3. \A s \in Scopes : Outstanding(s) # 1
    BY <2>1
  <2> QED BY Zenon, <1>0, <2>2, <2>3, ExitKept
<1>9. CASE Crash
  <2>1. ~faulty
    BY <1>0, <1>9 DEF Crash, Calm, TypeOK
  <2>2. Deciding' = Deciding
    BY Zenon, <1>0, <1>9, <2>1 DEF Crash, JournalInv, Deciding
  <2> QED BY Zenon, <1>0, <1>9, <2>2, ExitKept DEF Crash, Return, Idle
<1>10. ASSUME NEW s \in Scopes, SkipWrite(s) PROVE ExitInv'
  BY Zenon, <1>0, <1>10, <1>a DEF SkipWrite, ExitInv, Outstanding
<1>11. ASSUME NEW s \in Scopes, Reserve(s) PROVE ExitInv'
  <2>1. /\ Deciding'[s].id # 0
        /\ \A t \in Scopes : Deciding[t].id # 0 => Deciding'[t].id # 0
        /\ pc' = "send" => /\ Deciding[s].id = 0 /\ cur' = s /\ unresolved'[s] = Deciding'[s]
                           /\ Deciding'[s].state = "reserved"
    BY Zenon, <1>0, <1>11, ReserveJournals
  <2>2. /\ s \in todo /\ unresolved[s] = None /\ todo' = todo \ {s} /\ UNCHANGED brokerVars
        /\ pc' \in {"send", "write"} /\ \A t \in Scopes \ {s} : unresolved'[t] = unresolved[t]
    BY Zenon, <1>0, <1>11 DEF Reserve, Withheld, TypeOK
  <2>3. pc' = "send" => s \in open /\ Outstanding(s) = 0
    BY Zenon, <1>0, <2>1, <2>2 DEF ExitInv
  <2>4. \A t \in todo' : t \in todo /\ t \in Scopes \ {s}
    BY Zenon, <1>0, <2>2 DEF TypeOK
  <2> QED BY Zenon, <1>0, <2>1, <2>2, <2>3, <2>4 DEF ExitInv, Outstanding
<1>12. ASSUME NEW s \in Scopes, OpenPosition(s) PROVE ExitInv'
  BY Zenon, <1>0, <1>12, <1>a DEF OpenPosition, ExitInv, Outstanding
<1>13. ASSUME NEW s \in Scopes, OperatorClose(s) PROVE ExitInv'
  <2>1. /\ Outstanding(s) = 0 /\ todo = {} /\ pc = Idle /\ open' = open \ {s} /\ Deciding' = Deciding
        /\ UNCHANGED <<pc, todo, inflight, working, overexited>>
    BY Zenon, <1>0, <1>13, <1>a DEF OperatorClose, ControlInv, Outstanding
  <2>2. \A t \in Scopes : Outstanding(t)' = Outstanding(t)
    BY Zenon, <2>1 DEF Outstanding
  <2>3. \A t \in Scopes : Outstanding(t) = 1 => t \in open' /\ Deciding'[t].id # 0
    <3> SUFFICES ASSUME NEW t \in Scopes, Outstanding(t) = 1 PROVE t \in open' /\ Deciding'[t].id # 0
      BY Zenon
    <3>1. t \in open /\ Deciding[t].id # 0
      BY Zenon, <1>0 DEF ExitInv
    <3>2. t # s
      BY <2>1
    <3> QED BY Zenon, <2>1, <3>1, <3>2
  <2> QED BY Zenon, <1>0, <2>1, <2>2, <2>3 DEF ExitInv, Idle
<1>14. ASSUME NEW s \in Scopes, Arrive(s) \/ EndExit(s) PROVE ExitInv'
  <2>1. /\ Outstanding(s) > 0 /\ Deciding' = Deciding
        /\ UNCHANGED <<pc, todo, unresolved, cur, answer>>
    BY <1>14, <1>a, <1>b DEF Arrive, EndExit, Outstanding
  <2>2. Outstanding(s) = 1 /\ s \in open /\ Deciding[s].id # 0
    <3>1. Outstanding(s) \in {0, 1} /\ (Outstanding(s) = 1 => s \in open /\ Deciding[s].id # 0)
      BY Zenon, <1>0 DEF ExitInv
    <3> QED BY <2>1, <3>1
  <2>3. \A t \in Scopes \ {s} : Outstanding(t)' = Outstanding(t)
    BY Zenon, <1>0, <1>14 DEF Arrive, EndExit, Outstanding, TypeOK
  <2>4. /\ pc' \in {"send", "answered"} =>
             /\ unresolved'[cur'] = Deciding'[cur'] /\ Deciding'[cur'].id # 0
             /\ Deciding'[cur'].state = "reserved"
        /\ pc' = "send" => Outstanding(cur)' = 0 /\ cur' \in open'
        /\ pc' = "answered" /\ answer' = "unreached" => Outstanding(cur)' = 0
    <3>1. pc' = pc /\ cur' = cur /\ answer' = answer /\ unresolved' = unresolved
      BY Zenon, <2>1
    <3>2. pc = "send" \/ (pc = "answered" /\ answer = "unreached") => cur \in Scopes \ {s}
      <4>1. pc = "send" \/ (pc = "answered" /\ answer = "unreached") => cur \in Scopes /\ Outstanding(cur) = 0
        BY Zenon, <1>0 DEF ExitInv, ControlInv
      <4> QED BY <2>2, <4>1
    <3>3. \A t \in Scopes \ {s} : t \in open => t \in open'
      BY Zenon, <1>14 DEF Arrive, EndExit
    <3>4. pc = "send" \/ (pc = "answered" /\ answer = "unreached") => Outstanding(cur)' = Outstanding(cur)
      BY Zenon, <2>3, <3>1, <3>2 DEF Outstanding
    <3> QED BY Zenon, <1>0, <2>1, <3>1, <3>2, <3>3, <3>4 DEF ExitInv
  <2>5. CASE Arrive(s)
    <3>1. Outstanding(s)' \in {0, 1}
      <4>1. inflight \in [Scopes -> Nat] /\ working \in [Scopes -> Nat]
        BY Zenon, <1>0 DEF TypeOK
      <4>2. inflight[s] > 0 /\ inflight[s] + working[s] = 1
        BY Zenon, <2>2, <2>5 DEF Arrive, Outstanding
      <4>3. inflight[s] = 1 /\ working[s] = 0
        BY <4>1, <4>2
      <4>4. inflight'[s] = 0 /\ working'[s] \in {0, 1}
        BY <2>5, <4>1, <4>3 DEF Arrive
      <4> QED BY <4>4 DEF Outstanding
    <3>2. UNCHANGED <<open, overexited>>
      BY Zenon, <2>5 DEF Arrive
    <3>3. /\ overexited' = {}
          /\ \A t \in Scopes : /\ Outstanding(t)' \in {0, 1}
                               /\ Outstanding(t)' = 1 => t \in open' /\ Deciding'[t].id # 0
      BY Zenon, <1>0, <2>1, <2>2, <2>3, <3>1, <3>2 DEF ExitInv
    <3>4. \A t \in todo : t \in open' \/ unresolved'[t] # None \/ Deciding'[t].id # 0
      BY Zenon, <1>0, <2>1, <3>2 DEF ExitInv
    <3> QED BY Zenon, <2>4, <3>3, <3>4, <2>1 DEF ExitInv
  <2>6. CASE EndExit(s)
    <3>1. Outstanding(s)' = 0
      <4>1. inflight \in [Scopes -> Nat] /\ working \in [Scopes -> Nat]
        BY Zenon, <1>0 DEF TypeOK
      <4>2. working[s] > 0 /\ inflight[s] + working[s] = 1
        BY Zenon, <2>2, <2>6 DEF EndExit, Outstanding
      <4>3. inflight[s] = 0 /\ working[s] = 1
        BY <4>1, <4>2
      <4>4. inflight'[s] = 0 /\ working'[s] = 0
        BY <2>6, <4>1, <4>3 DEF EndExit
      <4> QED BY <4>4 DEF Outstanding
    <3>2. overexited' = {} /\ \A t \in open : t = s \/ t \in open'
      BY Zenon, <1>0, <2>2, <2>6 DEF ExitInv, EndExit
    <3>3. \A t \in Scopes : /\ Outstanding(t)' \in {0, 1}
                            /\ Outstanding(t)' = 1 => t \in open' /\ Deciding'[t].id # 0
      <4> TAKE t \in Scopes
      <4>1. CASE t = s
        BY <3>1, <4>1
      <4>2. CASE t # s
        BY Zenon, <1>0, <2>1, <2>3, <3>2, <4>2 DEF ExitInv
      <4> QED BY Zenon, <4>1, <4>2
    <3>4. \A t \in todo : t \in open' \/ unresolved'[t] # None \/ Deciding'[t].id # 0
      BY Zenon, <1>0, <2>1, <2>2, <3>2 DEF ExitInv
    <3> QED BY Zenon, <2>4, <3>2, <3>3, <3>4, <2>1 DEF ExitInv
  <2> QED BY Zenon, <1>14, <2>5, <2>6
<1>15. CASE UNCHANGED vars
  BY Zenon, <1>0, <1>15, <1>a DEF vars, ExitInv, Outstanding
<1> QED BY Zenon, <1>1, <1>2, <1>3, <1>4, <1>5, <1>6, <1>7, <1>8, <1>9, <1>10, <1>11, <1>12, <1>13,
           <1>14, <1>15 DEF Next

LEMMA QuietStep ==
    ASSUME IntentsInv, [Next]_vars, Calm'
    PROVE  QuietInv'
<1> USE DEF loopVars, callVars, brokerVars
<1>0. TypeOK /\ ControlInv /\ ExitInv /\ QuietInv
  BY Zenon, CalmStep DEF IntentsInv
<1>a. quiet \in Nat /\ lag \in Nat
  BY <1>0, ReadsAssumption DEF TypeOK
<1>b. ASSUME UNCHANGED <<open, inflight, working>> PROVE Quiet' = Quiet
  BY Zenon, <1>b DEF Quiet, Outstanding
<1>1. ASSUME NEW src \in Sources, Begin(src) \/ Reset(src) PROVE QuietInv'
  BY <1>0, <1>1, <1>b DEF Begin, Reset, QuietInv
<1>2. CASE Read
  <2>1. UNCHANGED <<open, inflight, working, complete, latched>>
    BY Zenon, <1>2 DEF Read
  <2>2. PICK V \in SUBSET Scopes :
          /\ (V = Unquiet /\ lag' = 0) \/ lag' = lag + 1
          /\ (V = {} /\ quiet' = quiet + 1) \/ quiet' = 0
    BY Zenon, <1>2 DEF Read, Shows, ResetStreak
  <2>3. Unquiet = {} => Quiet
    <3> SUFFICES ASSUME Unquiet = {}, NEW s \in Scopes PROVE open = {} /\ Outstanding(s) = 0
      BY Zenon DEF Quiet, Unquiet
    <3>1. open = {}
      BY Zenon DEF Unquiet
    <3> QED BY Zenon, <1>0, <3>1 DEF ExitInv
  <2>4. quiet' > lag' => Quiet
    BY <1>0, <1>a, <2>2, <2>3 DEF QuietInv
  <2> QED BY Zenon, <1>0, <1>b, <2>1, <2>4 DEF QuietInv
<1>3. CASE ReadFails \/ ReadsExhausted \/ InvalidAnswer \/ Crash
  <2>1. quiet' = 0 /\ lag' = 0 /\ complete' = FALSE
    BY Zenon, <1>3 DEF ReadFails, ReadsExhausted, InvalidAnswer, Crash, Return
  <2> QED BY <2>1 DEF QuietInv
<1>4. CASE EndPlan
  BY <1>0, <1>4, <1>b DEF EndPlan, Return, QuietInv
<1>5. CASE Send
  <2>1. quiet = 0 /\ ~complete
    <3>1. cur \in open /\ quiet = 0
      BY Zenon, <1>0, <1>5 DEF Send, ExitInv, ControlInv
    <3> QED BY Zenon, <1>0, <3>1 DEF QuietInv, Quiet
  <2> QED BY <1>5, <1>a, <2>1 DEF Send, QuietInv
<1>6. CASE Settle
  <2>1. Quiet /\ latched # {} /\ UNCHANGED <<open, inflight, working, latched>>
    <3>1. pc = "settle" /\ UNCHANGED <<open, inflight, working, latched>>
      BY Zenon, <1>6 DEF Settle
    <3> QED BY Zenon, <1>0, <3>1, SettleIsQuiet DEF ControlInv, Idle
  <2>2. quiet' = 0 /\ lag' = 0
    BY Zenon, <1>6 DEF Settle, Return
  <2> QED BY Zenon, <1>b, <2>1, <2>2 DEF QuietInv
<1>7. CASE UNCHANGED <<quiet, lag, complete, latched, open, inflight, working>>
  BY Zenon, <1>0, <1>7, <1>b DEF QuietInv
<1>8. CASE RecordAnswer
  BY Zenon, <1>7, <1>8 DEF RecordAnswer
<1>9. ASSUME NEW s \in Scopes, SkipWrite(s) \/ Reserve(s) PROVE QuietInv'
  BY Zenon, <1>7, <1>9 DEF SkipWrite, Reserve
<1>10. ASSUME NEW s \in Scopes, OpenPosition(s) PROVE QuietInv'
  <2>1. quiet = 0 /\ ~complete
    BY Zenon, <1>0, <1>10 DEF OpenPosition, ControlInv, QuietInv
  <2> QED BY <1>10, <1>a, <2>1 DEF OpenPosition, QuietInv
<1>11. ASSUME NEW s \in Scopes, OperatorClose(s) PROVE QuietInv'
  <2>1. Quiet => Quiet'
    BY Zenon, <1>11 DEF OperatorClose, Quiet, Outstanding
  <2> QED BY Zenon, <1>0, <1>11, <2>1 DEF OperatorClose, QuietInv
<1>12. ASSUME NEW s \in Scopes, Arrive(s) \/ EndExit(s) PROVE QuietInv'
  <2>1. ~Quiet
    <3>1. inflight[s] \in Nat /\ working[s] \in Nat
      BY Zenon, <1>0 DEF TypeOK
    <3>2. inflight[s] > 0 \/ working[s] > 0
      BY Zenon, <1>12 DEF Arrive, EndExit
    <3>3. Outstanding(s) # 0
      <4>1. inflight[s] + working[s] # 0
        BY <3>1, <3>2
      <4> QED BY Zenon, <4>1 DEF Outstanding
    <3> QED BY Zenon, <3>3 DEF Quiet
  <2> QED BY <1>0, <1>12, <2>1 DEF Arrive, EndExit, QuietInv
<1>13. CASE UNCHANGED vars
  BY Zenon, <1>7, <1>13 DEF vars
<1> QED BY Zenon, <1>1, <1>2, <1>3, <1>4, <1>5, <1>6, <1>8, <1>9, <1>10, <1>11, <1>12, <1>13
           DEF Next

(***************************************************************************)
(* The theorems.                                                            *)
(***************************************************************************)
LEMMA InitIntentsInv == Init => IntentsInv
<1> SUFFICES ASSUME Init PROVE IntentsInv
  BY Zenon
<1>1. faulty \in BOOLEAN /\ UsedIds[faulty] \in Nat
  BY Zenon, FaultsAssumption, BoundsAssumption DEF Init
<1>2. TypeOK
  <2>1. NoIds \in [Ids -> Nat] /\ Zero \in [Scopes -> Nat]
    BY Zenon DEF NoIds, Zero
  <2>2. 0 \in 0 .. QuietReads /\ 0 \in 0 .. MaxLag /\ 0 \in 0 .. ReadAttempts
    BY ReadsAssumption
  <2>3. /\ primary \in [Scopes -> Records] /\ fallback \in [Scopes -> Records]
        /\ unresolved \in [Scopes -> Records] /\ intentIds \in [Ids -> Nat]
    BY Zenon, <2>1, NoneIsRecord DEF Init
  <2>4. /\ degraded \in BOOLEAN /\ blocked \in BOOLEAN /\ newly \in BOOLEAN /\ complete \in BOOLEAN
    BY Zenon DEF Init
  <2>5. primaryNext \in Nat /\ fallbackNext \in Nat /\ crashes \in Nat
    BY <1>1 DEF Init
  <2> QED BY Zenon, <1>1, <2>1, <2>2, <2>3, <2>4, <2>5 DEF Init, TypeOK, Idle
<1>3. ControlInv
  BY Zenon DEF Init, ControlInv, Idle
<1>4. \A s \in Scopes : /\ primary[s] = None /\ fallback[s] = None /\ Outstanding(s) = 0
                        /\ primary[s].id = 0 /\ fallback[s].id = 0
  <2> TAKE s \in Scopes
  <2>1. primary[s] = None /\ fallback[s] = None
    BY Zenon DEF Init, Empty
  <2>2. inflight[s] = 0 /\ working[s] = 0
    BY Zenon DEF Init, Zero
  <2>3. None.id = 0
    BY Zenon DEF None
  <2> QED BY <2>1, <2>2, <2>3 DEF Outstanding
<1>5. Numbered(primary, primaryNext) /\ Numbered(fallback, fallbackNext)
  <2>1. primaryNext # 0 /\ fallbackNext # 0
    BY <1>1 DEF Init
  <2> QED BY Zenon, <1>4, <2>1 DEF Numbered
<1>6. Calm => JournalInv
  <2>1. \A i \in Ids : intentIds[i] = 0
    BY Zenon DEF Init, NoIds
  <2>2. \A s \in Scopes : fallback[s].id = primary[s].id /\ fallback[s].source = primary[s].source
    BY Zenon, <1>4
  <2>3. Calm /\ faulty => fallbackNext = primaryNext
    <3>1. fallbackNext = 1 /\ (Calm /\ faulty => primaryNext = 0 + 1)
      BY Zenon DEF Init, Calm
    <3>2. 0 + 1 = 1
      OBVIOUS
    <3> QED BY Zenon, <3>1, <3>2
  <2>4. ~degraded
    BY Zenon DEF Init
  <2> QED BY Zenon, <1>4, <1>5, <2>1, <2>2, <2>3, <2>4 DEF JournalInv, InStep
<1>7. ExitInv /\ QuietInv
  <2>1. /\ pc = "idle" /\ overexited = {} /\ todo = {} /\ quiet = 0 /\ lag = 0 /\ complete = FALSE
    BY Zenon DEF Init, Idle
  <2>2. \A s \in Scopes : Outstanding(s) = 0
    BY Zenon, <1>4
  <2> QED BY <2>1, <2>2 DEF ExitInv, QuietInv
<1> QED BY Zenon, <1>2, <1>3, <1>6, <1>7 DEF IntentsInv

\* IntentsInv is inductive.
LEMMA IntentsInvStep == IntentsInv /\ [Next]_vars => IntentsInv'
BY Zenon, Types, Control, JournalStep, ExitStep, QuietStep DEF IntentsInv

\* The invariant holds for every set of positions, sources and bounds.
THEOREM Safety == Spec => []IntentsInv
BY InitIntentsInv, IntentsInvStep, PTL DEF Spec

\* In a calm process a position never has two emergency exits outstanding and is
\* never exited when flat, whatever the planned-target dispatcher was answered.
THEOREM ExitsAreSingle == Spec => [](Calm => AtMostOneExit)
<1>1. IntentsInv => (Calm => AtMostOneExit)
  BY DEF IntentsInv, ExitInv, AtMostOneExit
<1> QED BY <1>1, Safety, PTL

\* Every outstanding exit has a row in the journal that decides: the durable one, or
\* after a storage failure the process-local one.
THEOREM ExitsAreCovered == Spec => [](Calm => OutstandingExitsCovered)
<1>1. IntentsInv => (Calm => OutstandingExitsCovered)
  <2> SUFFICES ASSUME ExitInv, NEW s \in Scopes, Outstanding(s) > 0
               PROVE  IF degraded THEN fallback[s] # None ELSE primary[s] # None
    BY Zenon DEF IntentsInv, OutstandingExitsCovered
  <2>1. Deciding[s].id # 0
    BY DEF ExitInv
  <2>2. None.id = 0
    BY Zenon DEF None
  <2> QED BY Zenon, <2>1, <2>2 DEF Deciding
<1> QED BY <1>1, Safety, PTL

\* A dispatch reports success only for a flat account with no exit outstanding.
THEOREM SuccessIsQuiet == Spec => [](Calm => CompleteMeansQuiet)
<1>1. IntentsInv => (Calm => CompleteMeansQuiet)
  BY Zenon DEF IntentsInv, QuietInv, CompleteMeansQuiet, Quiet
<1> QED BY <1>1, Safety, PTL

\* While storage works an outstanding exit keeps a source latched: deactivate_episodes
\* refuses while the durable journal has a row of the source.
THEOREM ExitsStayLatched == Spec => []DurableExitsLatched
<1>1. IntentsInv => DurableExitsLatched
  <2> SUFFICES ASSUME IntentsInv, ~faulty, NEW s \in Scopes, Outstanding(s) > 0
               PROVE  latched # {}
    BY Zenon DEF DurableExitsLatched
  <2>1. JournalInv /\ ExitInv
    BY Zenon DEF IntentsInv, Calm
  <2>2. primary[s].id # 0
    <3>1. Deciding[s].id # 0
      BY <2>1 DEF ExitInv
    <3> QED BY Zenon, <2>1, <3>1 DEF JournalInv, Deciding
  <2> QED BY Zenon, <2>1, <2>2 DEF JournalInv
<1> QED BY <1>1, Safety, PTL

\* In a calm process the mirror never turns a durable settlement into a conflict.
THEOREM MirrorAgrees == Spec => [](Calm /\ faulty => DurableSettlementDecides)
<1>1. IntentsInv => (Calm /\ faulty => DurableSettlementDecides)
  <2> SUFFICES ASSUME IntentsInv, Calm, faulty, ~degraded, Matching(primary) = Expected
               PROVE  Matching(fallback) = {FallbackId(i) : i \in Expected}
    BY Zenon DEF DurableSettlementDecides
  <2>1. TypeOK /\ JournalInv /\ InStep
    BY Zenon DEF IntentsInv, JournalInv
  <2> QED BY Zenon, <2>1, MirrorMatches
<1> QED BY <1>1, Safety, PTL
=============================================================================
