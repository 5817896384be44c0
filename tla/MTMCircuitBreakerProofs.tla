------------------------ MODULE MTMCircuitBreakerProofs ------------------------
(***************************************************************************)
(* Proofs about MTMCircuitBreaker, for every finite set of accounts, checks *)
(* and writers, any number of sessions and crashes, over working storage    *)
(* and over storage that may fail.  What the critical sections do to one    *)
(* account is stated once, about its view; the invariants follow step by    *)
(* step.  From them: over working storage the latch lasts exactly until a   *)
(* later session finds the account settled, and over any storage the        *)
(* breaker implements the emergency latch for each account.                 *)
(***************************************************************************)
EXTENDS MTMCircuitBreaker, FiniteSetTheorems, TLAPS

Views == [episode : Episodes, key : Nat, known : Episodes, latched : BOOLEAN]
Results == [view : Views, ok : BOOLEAN]

WritesOf(s) == {w \in Writers : writing[w] = s}

\* The write counters count, a check is of the running process and of the
\* current reset generation, and a flatten that still uses the durable journal
\* has an episode there.
CheckInv ==
    /\ today > 0
    /\ \A s \in Selectors : normalWrites[s] = Cardinality(WritesOf(s))
    /\ \A t \in Checks : pc[t] # Idle => /\ up
                                         /\ account[t] \in Selectors
                                         /\ began[t] = generation
    /\ \A t \in Checks : pc[t] = Idle => account[t] = NoAccount
    /\ \A w \in Writers : writing[w] # NoAccount => up
    /\ \A t \in Checks : pc[t] = "sweep" /\ ~degraded => episode[account[t]] # NoEpisode

\* The strengthening of the safety properties that one step preserves.
SafetyInv ==
    /\ TypeOK
    /\ CheckInv
    /\ ExclusiveFlatten
    /\ EpisodeLatches
    /\ UnsettledKeepsEpisode

-------------------------------------------------------------------------------
(* What the critical sections do to the view of one account.                *)

\* From v to x an account's episode is kept, or removed when nothing of the
\* account is in flight or unsettled; a busy account keeps its latch; and an
\* episode is latched.
Kept(s, v, x) ==
    /\ x \in Views
    /\ x.episode = v.episode \/ (x.episode = NoEpisode /\ ~Busy(s) /\ s \notin unsettled)
    /\ v.latched /\ Busy(s) => x.latched
    /\ x.episode # NoEpisode => x.latched

LEMMA ViewType ==
    ASSUME TypeOK, NEW s \in Selectors
    PROVE  View(s) \in Views
BY DEF TypeOK, View, Views

LEMMA ResultFields ==
    ASSUME NEW v \in Views, NEW ok \in BOOLEAN
    PROVE  /\ Result(v, ok) \in Results
           /\ Result(v, ok).view = v
           /\ Result(v, ok).ok = ok
BY Zenon DEF Result, Results

LEMMA NoEpisodeType == NoEpisode \in Episodes
BY Zenon DEF NoEpisode, Episodes

\* _roll_over_prior_session_locked keeps a latched episode, or removes a settled
\* one of a quiet account.
LEMMA RollOverKeeps ==
    ASSUME TypeOK, NEW s \in Selectors, NEW v \in Views,
           v.episode # NoEpisode => v.latched,
           NEW r \in RollOver(s, v)
    PROVE  r \in Results /\ Kept(s, v, r.view)
<1> DEFINE gone == [v EXCEPT !.episode = NoEpisode]
           released == [gone EXCEPT !.key = 0, !.known = NoEpisode, !.latched = FALSE]
<1>1. gone \in Views /\ released \in Views
  BY Zenon, NoEpisodeType DEF Views
<1>2. \/ r = Result(v, TRUE) \/ r = Result(v, FALSE)
      \/ /\ ~Busy(s) /\ s \notin unsettled
         /\ r = Result(released, TRUE) \/ r = Result(gone, FALSE)
  BY Zenon DEF RollOver, Deactivatable
<1>3. CASE r = Result(v, TRUE) \/ r = Result(v, FALSE)
  <2>1. r.view = v /\ r \in Results
    BY Zenon, <1>3, ResultFields
  <2>2. Kept(s, v, v)
    BY Zenon DEF Kept
  <2> QED BY Zenon, <2>1, <2>2
<1>4. CASE /\ ~Busy(s) /\ s \notin unsettled
           /\ r = Result(released, TRUE) \/ r = Result(gone, FALSE)
  <2>1. gone.episode = NoEpisode /\ released.episode = NoEpisode
    BY Zenon DEF Views
  <2>2. r \in Results /\ (r.view = released \/ r.view = gone)
    BY Zenon, <1>1, <1>4, ResultFields
  <2>3. Kept(s, v, released) /\ Kept(s, v, gone)
    BY Zenon, <1>1, <1>4, <2>1 DEF Kept
  <2> QED BY Zenon, <2>2, <2>3
<1> QED BY Zenon, <1>2, <1>3, <1>4

LEMMA KeptTransitive ==
    ASSUME NEW s, NEW v, NEW x, NEW y, Kept(s, v, x), Kept(s, x, y)
    PROVE  Kept(s, v, y)
BY Zenon DEF Kept

\* The critical section of broker_write_admission keeps it as well, and admits
\* only an account it leaves unlatched.
LEMMA AdmissionKeeps ==
    ASSUME TypeOK, NEW s \in Selectors,
           episode[s] # NoEpisode => s \in triggered,
           NEW r \in Admission(s)
    PROVE  /\ r \in Results /\ Kept(s, View(s), r.view)
           /\ r.ok => ~r.view.latched
<1>1. View(s) \in Views /\ (View(s).episode # NoEpisode => View(s).latched)
  BY Zenon, ViewType DEF View
<1>2. PICK p \in RollOver(s, View(s)) :
        \/ ~p.ok /\ r = p
        \/ r = Result(p.view, FALSE)
        \/ \E q \in IF p.view.episode # NoEpisode THEN Restore(s, p.view) ELSE {p} :
              r = Result(q.view, q.ok /\ ~q.view.latched)
  BY Zenon DEF Admission
<1>3. p \in Results /\ Kept(s, View(s), p.view)
  BY Zenon, <1>1, RollOverKeeps
<1>4. CASE ~p.ok /\ r = p
  BY Zenon, <1>3, <1>4
<1>5. CASE r = Result(p.view, FALSE)
  BY Zenon, <1>3, <1>5 DEF Result, Results
<1>6. ASSUME NEW q \in IF p.view.episode # NoEpisode THEN Restore(s, p.view) ELSE {p},
             r = Result(q.view, q.ok /\ ~q.view.latched)
      PROVE  /\ r \in Results /\ Kept(s, View(s), r.view)
             /\ r.ok => ~r.view.latched
  <2>1. q \in Results /\ Kept(s, p.view, q.view)
    <3>1. CASE p.view.episode = NoEpisode
      BY Zenon, <1>3, <1>6, <3>1 DEF Results, Kept
    <3>2. CASE p.view.episode # NoEpisode
      <4> DEFINE x == [p.view EXCEPT !.latched = TRUE, !.key = p.view.episode.session,
                                     !.known = p.view.episode]
      <4>1. x \in Views /\ x.latched /\ x.episode = p.view.episode
        BY Zenon, <1>3 DEF Results, Views, Episodes
      <4>2. q \in Results /\ Kept(s, x, q.view)
        BY Zenon, <1>6, <3>2, <4>1, RollOverKeeps DEF Restore
      <4> QED BY Zenon, <4>1, <4>2 DEF Kept
    <3> QED BY Zenon, <3>1, <3>2
  <2>2. Kept(s, View(s), q.view)
    BY Zenon, <1>3, <2>1, KeptTransitive
  <2> QED BY Zenon, <1>6, <2>1, <2>2 DEF Result, Results
<1> QED BY Zenon, <1>2, <1>4, <1>5, <1>6

\* What SetView writes, account by account.
LEMMA SetViewAt ==
    ASSUME TypeOK, NEW s \in Selectors, NEW x \in Views, SetView(s, x)
    PROVE  /\ episode' \in [Selectors -> Episodes] /\ known' \in [Selectors -> Episodes]
           /\ sessionKey' \in [Selectors -> Nat] /\ triggered' \subseteq Selectors
           /\ \A z \in Selectors :
                 /\ episode'[z] = IF z = s THEN x.episode ELSE episode[z]
                 /\ known'[z] = IF z = s THEN x.known ELSE known[z]
                 /\ sessionKey'[z] = IF z = s THEN x.key ELSE sessionKey[z]
                 /\ z \in triggered' <=> IF z = s THEN x.latched ELSE z \in triggered
<1>1. x.episode \in Episodes /\ x.known \in Episodes /\ x.key \in Nat
      /\ x.latched \in BOOLEAN
  BY Zenon DEF Views
<1> QED BY Zenon, <1>1 DEF SetView, TypeOK

\* The steps that only roll over or restore one account's latch.
ViewStep(s) == \E x \in Views : Kept(s, View(s), x) /\ SetView(s, x)

LEMMA ViewSteps ==
    ASSUME TypeOK, up, EpisodeLatches, NEW s \in Selectors,
           \/ CheckWithinLimit(s) \/ CheckRaises(s)
           \/ \E w \in Writers : AdmitNormalWrite(w, s) \/ RefuseNormalWrite(w, s)
    PROVE  ViewStep(s)
<1>1. View(s) \in Views /\ (View(s).episode # NoEpisode => View(s).latched)
  BY Zenon, ViewType DEF View, EpisodeLatches
<1>2. episode[s] # NoEpisode => s \in triggered
  BY Zenon DEF EpisodeLatches
<1>3. CASE \E w \in Writers : AdmitNormalWrite(w, s) \/ RefuseNormalWrite(w, s)
  <2>1. PICK r \in Admission(s) : SetView(s, r.view)
    BY Zenon, <1>3 DEF AdmitNormalWrite, RefuseNormalWrite
  <2> QED BY Zenon, <1>2, <2>1, AdmissionKeeps DEF ViewStep, Results
<1>4. CASE CheckWithinLimit(s) \/ CheckRaises(s)
  <2>1. PICK r \in RollOver(s, View(s)) : SetView(s, r.view)
    BY Zenon, <1>4 DEF CheckWithinLimit, CheckRaises
  <2> QED BY Zenon, <1>1, <2>1, RollOverKeeps DEF ViewStep, Results
<1> QED BY Zenon, <1>3, <1>4

\* A breach latches the account; it never removes an episode whose intents are
\* unsettled.
FireStep(s) ==
    \E x \in Views :
        /\ SetView(s, x) /\ x.latched
        /\ x.episode = NoEpisode => episode[s] = NoEpisode \/ s \notin unsettled

LEMMA RenewedRow ==
    ASSUME TypeOK, CheckInv, NEW row \in Episodes
    PROVE  /\ Renewed(row) \in Episodes /\ Renewed(row) # NoEpisode
           /\ row.session <= today => Renewed(row).session = today
<1>1. today \in Nat /\ today > 0 /\ stamp + 1 \in Nat /\ NoEpisode.session = 0
  BY DEF TypeOK, CheckInv, NoEpisode
<1>2. CASE row = NoEpisode
  BY <1>1, <1>2 DEF Renewed, Episodes
<1>3. CASE row # NoEpisode /\ row.session < today
  <2>1. Renewed(row) = [row EXCEPT !.session = today, !.stamp = stamp + 1]
    BY Zenon, <1>3 DEF Renewed
  <2>2. Renewed(row) \in Episodes /\ Renewed(row).session = today
    BY Zenon, <1>1, <2>1 DEF Episodes
  <2> QED BY <1>1, <2>2
<1>4. CASE row # NoEpisode /\ ~(row.session < today)
  <2>1. Renewed(row) = row /\ row.session \in Nat
    BY Zenon, <1>4 DEF Renewed, Episodes
  <2> QED BY <1>1, <1>4, <2>1
<1> QED BY Zenon, <1>2, <1>3, <1>4

LEMMA FireSteps ==
    ASSUME TypeOK, CheckInv, EpisodeLatches, NEW t \in Checks, NEW s \in Selectors,
           CheckFires(t, s)
    PROVE  FireStep(s) /\ degraded' \in BOOLEAN /\ (degraded => degraded')
<1>1. View(s) \in Views /\ (View(s).episode # NoEpisode => View(s).latched)
  BY Zenon, ViewType DEF View, EpisodeLatches, CheckFires
<1>2. PICK r \in RollOver(s, View(s)), ready \in BOOLEAN : Activate(s, r.view, ready)
  BY Zenon DEF CheckFires
<1>3. r.view \in Views /\ Kept(s, View(s), r.view)
  BY Zenon, <1>1, RollOverKeeps DEF Results
<1> DEFINE v == r.view
           row == Renewed(v.episode)
<1>4. v.episode \in Episodes
  BY Zenon, <1>3 DEF Views
<1>5. row \in Episodes /\ row # NoEpisode
  BY Zenon, <1>4, RenewedRow
<1>6. v.episode = NoEpisode => episode[s] = NoEpisode \/ s \notin unsettled
  BY Zenon, <1>3 DEF Kept, View
<1>7. ASSUME NEW x \in Views, SetView(s, x), x.latched, x.episode \in {v.episode, row}
      PROVE FireStep(s)
  BY Zenon, <1>5, <1>6, <1>7 DEF FireStep
<1> HIDE DEF row
<1>8. CASE ready /\ UNCHANGED degraded
           /\ SetView(s, [episode |-> row, key |-> row.session, known |-> row, latched |-> TRUE])
  <2> DEFINE x == [episode |-> row, key |-> row.session, known |-> row, latched |-> TRUE]
  <2>1. x \in Views /\ x.latched /\ x.episode = row
    BY Zenon, <1>5 DEF Views, Episodes
  <2> QED BY Zenon, <1>7, <1>8, <2>1 DEF TypeOK
<1>9. CASE /\ degraded' \in IF ready THEN {degraded, TRUE} ELSE {degraded}
           /\ \E stored \in {v.episode, row} :
                 SetView(s, [v EXCEPT !.episode = stored, !.latched = TRUE,
                                      !.key = IF ready THEN today ELSE @])
  <2>1. PICK stored \in {v.episode, row} :
                 SetView(s, [v EXCEPT !.episode = stored, !.latched = TRUE,
                                      !.key = IF ready THEN today ELSE @])
    BY Zenon, <1>9
  <2> DEFINE x == [v EXCEPT !.episode = stored, !.latched = TRUE,
                            !.key = IF ready THEN today ELSE @]
  <2>2. x \in Views /\ x.latched /\ x.episode = stored
    BY Zenon, <1>3, <1>5, <2>1 DEF Views, TypeOK
  <2>3. FireStep(s)
    BY Zenon, <1>7, <2>1, <2>2
  <2> QED BY Zenon, <1>9, <2>3 DEF TypeOK
<1> QED BY Zenon, <1>2, <1>8, <1>9 DEF Activate, row

LEMMA TargetedRow ==
    ASSUME NEW row \in Episodes, NEW n \in Nat
    PROVE  /\ [row EXCEPT !.targeted = TRUE, !.stamp = n] \in Episodes
           /\ [row EXCEPT !.targeted = TRUE, !.stamp = n] # NoEpisode
<1> DEFINE x == [row EXCEPT !.targeted = TRUE, !.stamp = n]
<1>1. x \in Episodes
  BY Zenon DEF Episodes
<1>2. x.targeted = TRUE /\ NoEpisode.targeted = FALSE
  BY Zenon DEF Episodes, NoEpisode
<1> QED BY Zenon, <1>1, <1>2

\* Binding the target never removes the durable episode, and leaves one unless
\* the journal is given up.
LEMMA BindSteps ==
    ASSUME TypeOK, CheckInv, NEW t \in Checks, BindTargets(t)
    PROVE  /\ account[t] \in Selectors
           /\ \E x \in Episodes :
                 /\ episode' = [episode EXCEPT ![account[t]] = x]
                 /\ x = NoEpisode => episode[account[t]] = NoEpisode /\ degraded'
           /\ degraded' \in BOOLEAN /\ (degraded => degraded')
<1> DEFINE s == account[t]
           row == IF episode[s] = NoEpisode THEN Renewed(NoEpisode) ELSE episode[s]
           bound == IF row.targeted THEN row
                    ELSE [row EXCEPT !.targeted = TRUE, !.stamp = stamp + 1]
<1>1. s \in Selectors /\ episode[s] \in Episodes
  BY Zenon DEF BindTargets, CheckInv, Idle, TypeOK
<1>2. row \in Episodes /\ row # NoEpisode
  BY Zenon, <1>1, RenewedRow, NoEpisodeType
<1> HIDE DEF row
<1>3. bound \in Episodes /\ bound # NoEpisode
  <2>1. CASE row.targeted
    BY Zenon, <1>2, <2>1
  <2>2. CASE ~row.targeted
    <3>1. stamp + 1 \in Nat
      BY DEF TypeOK
    <3>2. bound = [row EXCEPT !.targeted = TRUE, !.stamp = stamp + 1]
      BY Zenon, <2>2
    <3> QED BY Zenon, <1>2, <3>1, <3>2, TargetedRow
  <2> QED BY Zenon, <2>1, <2>2
<1> HIDE DEF bound
<1>4. \/ ~degraded /\ degraded' = degraded /\ episode' = [episode EXCEPT ![s] = bound]
      \/ degraded' = TRUE /\ \E x \in {episode[s], row, bound} :
                                episode' = [episode EXCEPT ![s] = x]
  BY Zenon DEF BindTargets, bound, row
<1> QED BY Zenon, <1>1, <1>2, <1>3, <1>4 DEF TypeOK

-------------------------------------------------------------------------------
(* Types.                                                                   *)

\* A write in flight makes its account's counter positive.
LEMMA WritesPositive ==
    ASSUME TypeOK, CheckInv, NEW s \in Selectors
    PROVE  normalWrites[s] = 0 <=> \A w \in Writers : writing[w] # s
<1>1. IsFiniteSet(WritesOf(s)) /\ normalWrites[s] = Cardinality(WritesOf(s))
  BY Zenon, ThreadsAssumption, FS_Subset DEF WritesOf, CheckInv
<1>2. normalWrites[s] = 0 <=> WritesOf(s) = {}
  BY Zenon, <1>1, FS_EmptySet
<1> QED BY Zenon, <1>2 DEF WritesOf

LEMMA InitTypeOK == Init => TypeOK
<1> SUFFICES ASSUME Init PROVE TypeOK
  BY Zenon
<1>1. faulty \in BOOLEAN
  BY Zenon, FaultsAssumption DEF Init
<1> QED BY Zenon, <1>1, NoEpisodeType DEF Init, TypeOK

\* One step keeps the types.
LEMMA NextTypeOK == SafetyInv /\ [Next]_vars => TypeOK'
<1> SUFFICES ASSUME TypeOK, CheckInv, EpisodeLatches, [Next]_vars PROVE TypeOK'
  BY Zenon DEF SafetyInv
<1> USE DEF durableVars, latchVars, countVars, checkVars, worldVars, historyVars
<1> Busied[faulty] \subseteq Selectors
  BY Zenon, FaultsAssumption DEF TypeOK
<1>1. ASSUME NEW s \in Selectors, ViewStep(s) \/ FireStep(s)
      PROVE  /\ episode' \in [Selectors -> Episodes] /\ known' \in [Selectors -> Episodes]
             /\ sessionKey' \in [Selectors -> Nat] /\ triggered' \subseteq Selectors
  BY Zenon, <1>1, SetViewAt DEF ViewStep, FireStep
<1>2. ASSUME NEW t \in Checks, CheckStep(t) PROVE TypeOK'
  <2>1. ASSUME NEW s \in Busied[faulty], CheckFires(t, s) PROVE TypeOK'
    <3>1. FireStep(s) /\ degraded' \in BOOLEAN /\ s \in Selectors
      BY Zenon, <2>1, FireSteps
    <3>2. pc' \in [Checks -> {Idle, "drain", "bind", "sweep", "finish"}]
      BY Zenon, <2>1 DEF CheckFires, TypeOK
    <3> QED BY <1>1, <2>1, <3>1, <3>2 DEF CheckFires, TypeOK
  <2>2. CASE Drained(t) \/ GivesUp(t)
    BY Zenon, <2>2 DEF Drained, GivesUp, TypeOK
  <2>3. CASE BindTargets(t)
    <3>1. episode' \in [Selectors -> Episodes] /\ degraded' \in BOOLEAN
      BY Zenon, <2>3, BindSteps DEF TypeOK
    <3> QED BY <2>3, <3>1 DEF BindTargets, TypeOK
  <2>4. CASE Sweep(t)
    <3>1. unsettled' \subseteq Selectors /\ degraded' \in BOOLEAN
      BY Zenon, <2>4 DEF Sweep, TypeOK, CheckInv, Idle
    <3> QED BY Zenon, <2>4, <3>1 DEF Sweep, TypeOK
  <2>5. CASE FinishCheck(t)
    BY Zenon, <2>5 DEF FinishCheck, TypeOK
  <2> QED BY Zenon, <1>2, <2>1, <2>2, <2>3, <2>4, <2>5 DEF CheckStep
<1>3. ASSUME NEW s \in Busied[faulty], CheckWithinLimit(s) \/ CheckRaises(s)
      PROVE TypeOK'
  <2>1. s \in Selectors /\ ViewStep(s)
    BY Zenon, <1>3, ViewSteps DEF CheckWithinLimit, CheckRaises
  <2>2. CASE CheckWithinLimit(s)
    BY Zenon, <1>1, <2>1, <2>2 DEF CheckWithinLimit, TypeOK
  <2>3. CASE CheckRaises(s)
    BY Zenon, <1>1, <2>1, <2>3 DEF CheckRaises, TypeOK
  <2> QED BY Zenon, <1>3, <2>2, <2>3
<1>4. ASSUME NEW s \in Busied[faulty], NEW w \in Writers,
             AdmitNormalWrite(w, s) \/ RefuseNormalWrite(w, s)
      PROVE TypeOK'
  <2>1. s \in Selectors /\ ViewStep(s)
    BY Zenon, <1>4, ViewSteps DEF AdmitNormalWrite, RefuseNormalWrite
  <2>2. CASE AdmitNormalWrite(w, s)
    BY <1>1, <2>1, <2>2 DEF AdmitNormalWrite, TypeOK
  <2>3. CASE RefuseNormalWrite(w, s)
    BY Zenon, <1>1, <2>1, <2>3 DEF RefuseNormalWrite, TypeOK
  <2> QED BY Zenon, <1>4, <2>2, <2>3
<1>5. ASSUME NEW w \in Writers, FinishNormalWrite(w) PROVE TypeOK'
  <2>1. writing[w] \in Selectors
    BY Zenon, <1>5 DEF FinishNormalWrite, TypeOK
  <2>2. normalWrites[writing[w]] # 0
    BY Zenon, <2>1, WritesPositive
  <2> QED BY <1>5, <2>1, <2>2 DEF FinishNormalWrite, TypeOK
<1>6. CASE ResetDaily \/ ResetDailyFails
  BY <1>6, NoEpisodeType DEF ResetDaily, ResetDailyFails, TypeOK
<1>7. CASE NextDay
  BY <1>7 DEF NextDay, TypeOK
<1>8. CASE Crash
  <2>1. unsettled' \subseteq Selectors
    BY <1>8 DEF Crash, TypeOK, CheckInv, Idle
  <2>2. /\ known' \in [Selectors -> Episodes] /\ sessionKey' \in [Selectors -> Nat]
        /\ normalWrites' \in [Selectors -> Nat] /\ triggered' \subseteq Selectors
        /\ dispatching' \subseteq Selectors
    BY Zenon, <1>8, NoEpisodeType DEF Crash
  <2>3. /\ writing' \in [Writers -> Selectors \cup {NoAccount}]
        /\ account' \in [Checks -> Selectors \cup {NoAccount}]
        /\ pc' \in [Checks -> {Idle, "drain", "bind", "sweep", "finish"}]
        /\ began' \in [Checks -> Nat]
    BY Zenon, <1>8 DEF Crash
  <2>4. /\ generation' = 0 /\ degraded' = FALSE /\ up' = FALSE /\ crashes' \in Nat
        /\ UNCHANGED <<episode, stamp, today, faulty, historyVars>>
    BY <1>8 DEF Crash, TypeOK
  <2> QED BY Zenon, <2>1, <2>2, <2>3, <2>4 DEF TypeOK
<1>9. CASE Restart
  <2>1. \A s \in Selectors : episode[s].session \in Nat
    BY Zenon DEF TypeOK, Episodes
  <2>2. Restored \subseteq Selectors
    BY Zenon DEF Restored
  <2> QED BY Zenon, <1>9, <2>1, <2>2, NoEpisodeType DEF Restart, TypeOK
<1>10. CASE UNCHANGED vars
  BY Zenon, <1>10 DEF vars, TypeOK
<1> QED BY Zenon, <1>2, <1>3, <1>4, <1>5, <1>6, <1>7, <1>8, <1>9, <1>10 DEF Next

-------------------------------------------------------------------------------
(* Writes and checks.                                                       *)

\* Normal writes start and end only in their own steps or a crash.
LEMMA WriteFrame ==
    ASSUME [Next]_vars
    PROVE  \/ UNCHANGED <<writing, normalWrites>>
           \/ \E w \in Writers : \/ FinishNormalWrite(w)
                                 \/ \E s \in Busied[faulty] : AdmitNormalWrite(w, s)
           \/ Crash
<1> USE DEF durableVars, latchVars, countVars, checkVars, worldVars, historyVars
<1>1. ASSUME NEW t \in Checks, CheckStep(t) PROVE UNCHANGED <<writing, normalWrites>>
  BY Zenon, <1>1 DEF CheckStep, CheckFires, Drained, GivesUp, BindTargets, Sweep, FinishCheck
<1>2. ASSUME NEW s \in Busied[faulty], CheckWithinLimit(s) \/ CheckRaises(s)
      PROVE UNCHANGED <<writing, normalWrites>>
  BY Zenon, <1>2 DEF CheckWithinLimit, CheckRaises
<1>3. ASSUME NEW s \in Busied[faulty], NEW w \in Writers, RefuseNormalWrite(w, s)
      PROVE UNCHANGED <<writing, normalWrites>>
  BY Zenon, <1>3 DEF RefuseNormalWrite
<1>4. CASE ResetDaily \/ ResetDailyFails \/ NextDay \/ Restart \/ UNCHANGED vars
  BY Zenon, <1>4 DEF ResetDaily, ResetDailyFails, NextDay, Restart, vars
<1> QED BY Zenon, <1>1, <1>2, <1>3, <1>4 DEF Next

\* One step keeps each counter equal to the number of writes it counts.
LEMMA NextCounts ==
    TypeOK /\ CheckInv /\ [Next]_vars
        => \A s \in Selectors : normalWrites'[s] = Cardinality(WritesOf(s)')
<1> SUFFICES ASSUME TypeOK, CheckInv, [Next]_vars, NEW z \in Selectors
             PROVE  normalWrites'[z] = Cardinality(WritesOf(z)')
  BY Zenon
<1> /\ normalWrites[z] = Cardinality(WritesOf(z)) /\ IsFiniteSet(WritesOf(z))
    /\ z # NoAccount
  BY Zenon, ThreadsAssumption, SelectorsAssumption, FS_Subset DEF CheckInv, WritesOf
<1>1. CASE UNCHANGED <<writing, normalWrites>>
  BY Zenon, <1>1 DEF WritesOf
<1>2. ASSUME NEW w \in Writers, FinishNormalWrite(w)
      PROVE normalWrites'[z] = Cardinality(WritesOf(z)')
  <2>1. CASE writing[w] = z
    <3>1. WritesOf(z)' = WritesOf(z) \ {w} /\ w \in WritesOf(z)
      BY Zenon, <1>2, <2>1 DEF FinishNormalWrite, WritesOf, TypeOK
    <3>2. normalWrites'[z] = normalWrites[z] - 1
      BY Zenon, <1>2, <2>1 DEF FinishNormalWrite, TypeOK
    <3> QED BY Zenon, <3>1, <3>2, FS_RemoveElement
  <2>2. CASE writing[w] # z
    <3>1. WritesOf(z)' = WritesOf(z)
      BY Zenon, <1>2, <2>2 DEF FinishNormalWrite, WritesOf, TypeOK
    <3>2. normalWrites'[z] = normalWrites[z]
      BY Zenon, <1>2, <2>2 DEF FinishNormalWrite, TypeOK
    <3> QED BY Zenon, <3>1, <3>2
  <2> QED BY Zenon, <2>1, <2>2
<1>3. ASSUME NEW w \in Writers, NEW s \in Busied[faulty], AdmitNormalWrite(w, s)
      PROVE normalWrites'[z] = Cardinality(WritesOf(z)')
  <2>1. CASE s = z
    <3>1. WritesOf(z)' = WritesOf(z) \cup {w} /\ w \notin WritesOf(z)
      BY Zenon, <1>3, <2>1 DEF AdmitNormalWrite, WritesOf, TypeOK
    <3>2. normalWrites'[z] = normalWrites[z] + 1
      BY Zenon, <1>3, <2>1 DEF AdmitNormalWrite, TypeOK
    <3> QED BY Zenon, <3>1, <3>2, FS_AddElement
  <2>2. CASE s # z
    <3>1. WritesOf(z)' = WritesOf(z)
      BY Zenon, <1>3, <2>2 DEF AdmitNormalWrite, WritesOf, TypeOK
    <3>2. normalWrites'[z] = normalWrites[z]
      BY Zenon, <1>3, <2>2 DEF AdmitNormalWrite, TypeOK
    <3> QED BY Zenon, <3>1, <3>2
  <2> QED BY Zenon, <2>1, <2>2
<1>4. CASE Crash
  <2>1. WritesOf(z)' = {} /\ normalWrites'[z] = 0
    BY Zenon, <1>4 DEF Crash, WritesOf
  <2> QED BY Zenon, <2>1, FS_EmptySet
<1> QED BY Zenon, <1>1, <1>2, <1>3, <1>4, WriteFrame

\* Checks start and end only in their own steps or a crash; the reset generation
\* only moves when no check is running.
LEMMA CheckFrame ==
    ASSUME [Next]_vars
    PROVE  \/ UNCHANGED <<pc, account, began, dispatching, generation>>
              /\ (up => up')
           \/ \E t \in Checks : CheckStep(t)
           \/ ResetDaily
           \/ Crash
<1> USE DEF durableVars, latchVars, countVars, checkVars, worldVars, historyVars
<1>1. ASSUME NEW s \in Busied[faulty], CheckWithinLimit(s) \/ CheckRaises(s)
      PROVE UNCHANGED <<pc, account, began, dispatching, generation, up>>
  BY Zenon, <1>1 DEF CheckWithinLimit, CheckRaises
<1>2. ASSUME NEW s \in Busied[faulty], NEW w \in Writers,
             AdmitNormalWrite(w, s) \/ RefuseNormalWrite(w, s)
      PROVE UNCHANGED <<pc, account, began, dispatching, generation, up>>
  BY Zenon, <1>2 DEF AdmitNormalWrite, RefuseNormalWrite
<1>3. ASSUME NEW w \in Writers, FinishNormalWrite(w)
      PROVE UNCHANGED <<pc, account, began, dispatching, generation, up>>
  BY Zenon, <1>3 DEF FinishNormalWrite
<1>4. CASE ResetDailyFails \/ NextDay \/ UNCHANGED vars
  BY Zenon, <1>4 DEF ResetDailyFails, NextDay, vars
<1>5. CASE Restart
  BY Zenon, <1>5 DEF Restart
<1> QED BY Zenon, <1>1, <1>2, <1>3, <1>4, <1>5 DEF Next

\* Only a crash takes the process down.
LEMMA UpFrame ==
    ASSUME [Next]_vars, ~Crash
    PROVE  up => up'
<1> USE DEF worldVars
<1>1. ASSUME NEW t \in Checks, CheckStep(t) PROVE up' = up
  <2>1. ASSUME NEW s \in Busied[faulty], CheckFires(t, s) PROVE up' = up
    BY Zenon, <2>1 DEF CheckFires
  <2>2. CASE \/ Drained(t) \/ GivesUp(t) \/ BindTargets(t) \/ Sweep(t) \/ FinishCheck(t)
    BY Zenon, <2>2 DEF Drained, GivesUp, BindTargets, Sweep, FinishCheck
  <2> QED BY Zenon, <1>1, <2>1, <2>2 DEF CheckStep
<1>2. CASE ResetDaily
  BY Zenon, <1>2 DEF ResetDaily
<1> QED BY Zenon, <1>1, <1>2, CheckFrame

\* How one step moves the checks: not at all, a new one of an account nobody is
\* flattening, one further on, one at its end, or through a reset with none
\* running.
LEMMA CheckMoves ==
    ASSUME TypeOK, CheckInv, ExclusiveFlatten, NEW t \in Checks, CheckStep(t)
    PROVE  \/ \E s \in Selectors :
                 /\ CheckFires(t, s) /\ pc[t] = Idle /\ s \notin dispatching
                 /\ pc' = [pc EXCEPT ![t] = pc'[t]] /\ pc'[t] \in {"drain", "finish"}
                 /\ account' = [account EXCEPT ![t] = s]
                 /\ began' = [began EXCEPT ![t] = generation]
                 /\ dispatching' = dispatching \cup {s}
           \/ /\ pc[t] # Idle
              /\ pc' = [pc EXCEPT ![t] = pc'[t]] /\ pc'[t] \in {"bind", "sweep", "finish"}
              /\ pc'[t] = "bind" => normalWrites[account[t]] = 0
              /\ pc'[t] = "sweep" => pc[t] = "bind"
              /\ UNCHANGED <<account, began, dispatching>>
           \/ /\ pc[t] = "finish"
              /\ pc' = [pc EXCEPT ![t] = Idle]
              /\ account' = [account EXCEPT ![t] = NoAccount]
              /\ began' = [began EXCEPT ![t] = 0]
              /\ dispatching' = dispatching \ {account[t]}
<1> USE DEF Idle, checkVars, countVars
<1> Busied[faulty] \subseteq Selectors
  BY Zenon, FaultsAssumption DEF TypeOK
<1>1. ASSUME NEW s \in Busied[faulty], CheckFires(t, s)
      PROVE /\ s \in Selectors /\ pc[t] = Idle /\ s \notin dispatching
            /\ pc' = [pc EXCEPT ![t] = pc'[t]] /\ pc'[t] \in {"drain", "finish"}
            /\ account' = [account EXCEPT ![t] = s]
            /\ began' = [began EXCEPT ![t] = generation]
            /\ dispatching' = dispatching \cup {s}
  BY Zenon, <1>1 DEF CheckFires, AlreadyDispatching, TypeOK
<1>2. CASE Drained(t)
  BY Zenon, <1>2 DEF Drained, WritesDrained, TypeOK
<1>3. CASE GivesUp(t)
  BY Zenon, <1>3 DEF GivesUp, TypeOK
<1>4. CASE BindTargets(t)
  BY Zenon, <1>4 DEF BindTargets, TypeOK
<1>5. CASE Sweep(t)
  BY Zenon, <1>5 DEF Sweep, TypeOK
<1>6. CASE FinishCheck(t)
  BY Zenon, <1>6 DEF FinishCheck, CheckInv
<1> QED BY Zenon, <1>1, <1>2, <1>3, <1>4, <1>5, <1>6 DEF CheckStep

\* A running check stays one of the running process and of the current reset
\* generation.
LEMMA NextCurrent ==
    TypeOK /\ CheckInv /\ ExclusiveFlatten /\ [Next]_vars
        => \A t \in Checks : pc'[t] # Idle => /\ up'
                                              /\ account'[t] \in Selectors
                                              /\ began'[t] = generation'
<1> SUFFICES ASSUME TypeOK, CheckInv, ExclusiveFlatten, [Next]_vars,
                    NEW u \in Checks, pc'[u] # Idle
             PROVE  up' /\ account'[u] \in Selectors /\ began'[u] = generation'
  BY Zenon
<1>1. CASE UNCHANGED <<pc, account, began, dispatching, generation>> /\ (up => up')
  BY Zenon, <1>1 DEF CheckInv
<1>2. ASSUME NEW t \in Checks, CheckStep(t)
      PROVE up' /\ account'[u] \in Selectors /\ began'[u] = generation'
  <2>1. up /\ UNCHANGED <<up, generation>>
    <3>1. ASSUME NEW s \in Busied[faulty], CheckFires(t, s)
          PROVE up /\ UNCHANGED <<up, generation>>
      BY Zenon, <3>1 DEF CheckFires, worldVars
    <3>2. CASE \/ Drained(t) \/ GivesUp(t) \/ BindTargets(t) \/ Sweep(t)
               \/ FinishCheck(t)
      BY Zenon, <3>2 DEF Drained, GivesUp, BindTargets, Sweep, FinishCheck, worldVars
    <3> QED BY Zenon, <1>2, <3>1, <3>2 DEF CheckStep
  <2> QED BY <1>2, <2>1, CheckMoves DEF CheckInv, TypeOK
<1>3. CASE ResetDaily
  BY Zenon, <1>3 DEF ResetDaily, ExclusiveFlatten, checkVars
<1>4. CASE Crash
  BY Zenon, <1>4 DEF Crash
<1> QED BY Zenon, <1>1, <1>2, <1>3, <1>4, CheckFrame

LEMMA NextIdle ==
    TypeOK /\ CheckInv /\ ExclusiveFlatten /\ [Next]_vars
        => \A t \in Checks : pc'[t] = Idle => account'[t] = NoAccount
<1> SUFFICES ASSUME TypeOK, CheckInv, ExclusiveFlatten, [Next]_vars,
                    NEW u \in Checks, pc'[u] = Idle
             PROVE  account'[u] = NoAccount
  BY Zenon
<1>1. CASE UNCHANGED <<pc, account>>
  BY Zenon, <1>1 DEF CheckInv
<1>2. ASSUME NEW t \in Checks, CheckStep(t) PROVE account'[u] = NoAccount
  BY ZenonT(30), <1>2, CheckMoves DEF CheckInv, TypeOK, Idle
<1>3. CASE ResetDaily
  BY Zenon, <1>3 DEF ResetDaily, CheckInv, checkVars
<1>4. CASE Crash
  BY Zenon, <1>4 DEF Crash
<1> QED BY Zenon, <1>1, <1>2, <1>3, <1>4, CheckFrame

\* One account is flattened by one check, the one _dispatching_selectors records.
LEMMA NextOneFlatten ==
    TypeOK /\ CheckInv /\ ExclusiveFlatten /\ [Next]_vars
        => /\ \A t, u \in Checks : t # u /\ pc'[t] # Idle => account'[t] # account'[u]
           /\ dispatching' = {account'[t] : t \in {u \in Checks : pc'[u] # Idle}}
<1> DEFINE P == /\ \A t, u \in Checks : t # u /\ pc'[t] # Idle => account'[t] # account'[u]
                /\ dispatching' = {account'[t] : t \in {u \in Checks : pc'[u] # Idle}}
<1> SUFFICES ASSUME TypeOK, CheckInv, ExclusiveFlatten, [Next]_vars PROVE P
  BY Zenon
<1> USE DEF Idle
<1> /\ \A t, u \in Checks : t # u /\ pc[t] # Idle => account[t] # account[u]
    /\ dispatching = {account[t] : t \in {u \in Checks : pc[u] # Idle}}
    /\ \A t \in Checks : pc[t] # Idle => account[t] \in Selectors
    /\ \A t \in Checks : pc[t] = Idle => account[t] = NoAccount
    /\ NoAccount \notin Selectors
  BY Zenon, SelectorsAssumption DEF ExclusiveFlatten, CheckInv
<1>1. CASE UNCHANGED <<pc, account, dispatching>>
  BY Zenon, <1>1
<1>2. ASSUME NEW t \in Checks, CheckStep(t) PROVE P
  <2>1. ASSUME NEW s \in Selectors, pc[t] = Idle, s \notin dispatching,
               pc' = [pc EXCEPT ![t] = pc'[t]], pc'[t] \in {"drain", "finish"},
               account' = [account EXCEPT ![t] = s],
               dispatching' = dispatching \cup {s}
        PROVE P
    <3>1. \A u \in Checks : pc[u] # Idle => account[u] # s
      BY Zenon, <2>1
    <3>2. \A u \in Checks : u # t => pc'[u] = pc[u] /\ account'[u] = account[u]
      BY Zenon, <2>1 DEF TypeOK
    <3>3. pc'[t] # Idle /\ account'[t] = s
      BY Zenon, <2>1 DEF TypeOK
    <3>4. dispatching' = {account'[u] : u \in {v \in Checks : pc'[v] # Idle}}
      BY <2>1, <3>2, <3>3
    <3>5. ASSUME NEW u \in Checks, NEW v \in Checks, u # v, pc'[u] # Idle
          PROVE account'[u] # account'[v]
      <4>1. account[u] # s /\ account[v] # s
        BY Zenon, <3>1
      <4> QED BY Zenon, <3>2, <3>3, <3>5, <4>1
    <3> QED BY Zenon, <3>4, <3>5
  <2>2. CASE /\ pc[t] # Idle
             /\ pc' = [pc EXCEPT ![t] = pc'[t]] /\ pc'[t] \in {"bind", "sweep", "finish"}
             /\ UNCHANGED <<account, began, dispatching>>
    <3>1. \A u \in Checks : pc'[u] # Idle <=> pc[u] # Idle
      BY Zenon, <2>2 DEF TypeOK
    <3> QED BY Zenon, <2>2, <3>1
  <2>3. CASE /\ pc[t] = "finish"
             /\ pc' = [pc EXCEPT ![t] = Idle]
             /\ account' = [account EXCEPT ![t] = NoAccount]
             /\ dispatching' = dispatching \ {account[t]}
    <3>1. \A u \in Checks : u # t => pc'[u] = pc[u] /\ account'[u] = account[u]
      BY Zenon, <2>3 DEF TypeOK
    <3>2. pc'[t] = Idle /\ account'[t] = NoAccount
      BY Zenon, <2>3 DEF TypeOK
    <3>3. dispatching' = {account'[u] : u \in {v \in Checks : pc'[v] # Idle}}
      BY <2>3, <3>1, <3>2
    <3> QED BY ZenonT(30), <3>1, <3>2, <3>3
  <2> QED BY Zenon, <1>2, <2>1, <2>2, <2>3, CheckMoves
<1>3. CASE ResetDaily
  BY Zenon, <1>3 DEF ResetDaily, checkVars, countVars
<1>4. CASE Crash
  BY Zenon, <1>4 DEF Crash
<1> QED BY Zenon, <1>1, <1>2, <1>3, <1>4, CheckFrame

-------------------------------------------------------------------------------
(* Latches, episodes and intents.                                           *)

\* A step that leaves the latches, episodes and intents of all accounts alone
\* starts no check and no sweep.
QuietStep ==
    /\ UNCHANGED <<episode, triggered, unsettled, degraded, up>>
    /\ dispatching' \subseteq dispatching
    /\ \A t \in Checks : pc'[t] = "sweep" => pc[t] = "sweep" /\ account'[t] = account[t]

\* A step that rolls over or restores one account.
OneView(s) ==
    /\ up /\ ViewStep(s)
    /\ UNCHANGED <<unsettled, degraded, up, dispatching, pc, account>>

LEMMA LatchFrame ==
    ASSUME TypeOK, CheckInv, EpisodeLatches, [Next]_vars
    PROVE  \/ QuietStep
           \/ \E s \in Selectors : OneView(s)
           \/ \E t \in Checks, s \in Selectors : CheckFires(t, s)
           \/ \E t \in Checks : BindTargets(t) \/ Sweep(t)
           \/ ResetDaily \/ ResetDailyFails \/ Crash \/ Restart
<1> USE DEF durableVars, latchVars, countVars, checkVars, worldVars, historyVars
<1> Busied[faulty] \subseteq Selectors
  BY Zenon, FaultsAssumption DEF TypeOK
<1>1. ASSUME NEW s \in Busied[faulty], CheckWithinLimit(s) \/ CheckRaises(s)
      PROVE OneView(s)
  <2>1. up /\ UNCHANGED <<unsettled, degraded, up, dispatching, pc, account>>
    BY Zenon, <1>1 DEF CheckWithinLimit, CheckRaises
  <2> QED BY Zenon, <1>1, <2>1, ViewSteps DEF OneView
<1>2. ASSUME NEW s \in Busied[faulty], NEW w \in Writers,
             AdmitNormalWrite(w, s) \/ RefuseNormalWrite(w, s)
      PROVE OneView(s)
  <2>1. up /\ UNCHANGED <<unsettled, degraded, up, dispatching, pc, account>>
    BY Zenon, <1>2 DEF AdmitNormalWrite, RefuseNormalWrite
  <2> QED BY Zenon, <1>2, <2>1, ViewSteps DEF OneView
<1>3. ASSUME NEW t \in Checks, Drained(t) \/ GivesUp(t) \/ FinishCheck(t)
      PROVE QuietStep
  <2>1. CASE Drained(t)
    BY Zenon, <2>1 DEF Drained, QuietStep, TypeOK
  <2>2. CASE GivesUp(t)
    BY Zenon, <2>2 DEF GivesUp, QuietStep, TypeOK
  <2>3. CASE FinishCheck(t)
    BY Zenon, <2>3 DEF FinishCheck, QuietStep, TypeOK, Idle
  <2> QED BY Zenon, <1>3, <2>1, <2>2, <2>3
<1>4. ASSUME NEW w \in Writers, FinishNormalWrite(w) PROVE QuietStep
  BY Zenon, <1>4 DEF FinishNormalWrite, QuietStep
<1>5. CASE NextDay \/ UNCHANGED vars
  BY Zenon, <1>5 DEF NextDay, vars, QuietStep
<1> QED BY Zenon, <1>1, <1>2, <1>3, <1>4, <1>5 DEF Next, CheckStep

\* An account being flattened stays latched.
LEMMA NextDispatchingLatched ==
    SafetyInv /\ [Next]_vars => dispatching' \subseteq triggered'
<1> SUFFICES ASSUME TypeOK, CheckInv, ExclusiveFlatten, EpisodeLatches, [Next]_vars
             PROVE  dispatching' \subseteq triggered'
  BY Zenon DEF SafetyInv
<1> dispatching \subseteq triggered /\ dispatching \subseteq Selectors
  BY Zenon DEF ExclusiveFlatten, TypeOK
<1>1. CASE QuietStep
  BY Zenon, <1>1 DEF QuietStep
<1>2. ASSUME NEW s \in Selectors, OneView(s) PROVE dispatching' \subseteq triggered'
  <2>1. PICK x \in Views : Kept(s, View(s), x) /\ SetView(s, x)
    BY Zenon, <1>2 DEF OneView, ViewStep
  <2>2. s \in dispatching => x.latched
    BY Zenon, <2>1 DEF Kept, View, Busy
  <2> QED BY Zenon, <1>2, <2>1, <2>2, SetViewAt DEF OneView
<1>3. ASSUME NEW t \in Checks, NEW s \in Selectors, CheckFires(t, s)
      PROVE dispatching' \subseteq triggered'
  <2>1. PICK x \in Views : SetView(s, x) /\ x.latched
    BY Zenon, <1>3, FireSteps DEF FireStep
  <2> QED BY Zenon, <1>3, <2>1, SetViewAt DEF CheckFires
<1>4. ASSUME NEW t \in Checks, BindTargets(t) \/ Sweep(t)
      PROVE dispatching' \subseteq triggered'
  BY Zenon, <1>4 DEF BindTargets, Sweep, latchVars, countVars
<1>5. CASE ResetDaily \/ ResetDailyFails \/ Crash
  BY Zenon, <1>5 DEF ResetDaily, ResetDailyFails, Crash, latchVars, countVars
<1>6. CASE Restart
  <2>1. dispatching = {}
    BY Zenon, <1>6 DEF Restart, ExclusiveFlatten, CheckInv
  <2> QED BY Zenon, <1>6, <2>1 DEF Restart, countVars
<1> QED BY Zenon, <1>1, <1>2, <1>3, <1>4, <1>5, <1>6, LatchFrame

\* A write is admitted only for an account nobody is flattening.
LEMMA AdmitNotDispatching ==
    ASSUME SafetyInv, NEW w \in Writers, NEW s \in Selectors, AdmitNormalWrite(w, s)
    PROVE  s \notin dispatching
<1>1. PICK r \in Admission(s) : r.ok
  BY Zenon DEF AdmitNormalWrite
<1>2. Kept(s, View(s), r.view) /\ ~r.view.latched
  BY Zenon, <1>1, AdmissionKeeps DEF SafetyInv, EpisodeLatches, AdmitNormalWrite
<1>3. s \in dispatching => View(s).latched /\ Busy(s)
  BY Zenon DEF SafetyInv, ExclusiveFlatten, View, Busy
<1> QED BY Zenon, <1>2, <1>3 DEF Kept

\* No write of an account is in flight while it is flattened.
LEMMA NextFlattensAlone ==
    SafetyInv /\ [Next]_vars
        => \A t \in Checks, w \in Writers :
              pc'[t] \in {"bind", "sweep"} => writing'[w] # account'[t]
<1> SUFFICES ASSUME SafetyInv, [Next]_vars, NEW u \in Checks, NEW v \in Writers,
                    pc'[u] \in {"bind", "sweep"}
             PROVE  writing'[v] # account'[u]
  BY Zenon
<1> USE DEF Idle
<1>1. CASE Crash
  BY Zenon, <1>1 DEF Crash
<1>2. CASE ~Crash
  <2>0. TypeOK /\ CheckInv /\ ExclusiveFlatten
    BY Zenon DEF SafetyInv
  <2>1. /\ account'[u] = account[u] /\ pc[u] # Idle
        /\ pc[u] \in {"bind", "sweep"} \/ normalWrites[account[u]] = 0
    <3>1. CASE UNCHANGED <<pc, account>>
      BY Zenon, <3>1
    <3>2. ASSUME NEW t \in Checks, CheckStep(t)
          PROVE  /\ account'[u] = account[u] /\ pc[u] # Idle
                 /\ pc[u] \in {"bind", "sweep"} \/ normalWrites[account[u]] = 0
      BY ZenonT(30), <2>0, <3>2, CheckMoves DEF TypeOK
    <3>3. CASE ResetDaily
      BY Zenon, <3>3 DEF ResetDaily, checkVars
    <3> QED BY Zenon, <1>2, <3>1, <3>2, <3>3, CheckFrame
  <2>2. account[u] \in Selectors /\ account[u] \in dispatching
    BY Zenon, <2>0, <2>1 DEF CheckInv, ExclusiveFlatten
  <2>3. \A w \in Writers : writing[w] # account[u]
    <3>1. CASE pc[u] \in {"bind", "sweep"}
      BY Zenon, <2>0, <3>1 DEF ExclusiveFlatten, Flattening
    <3>2. CASE normalWrites[account[u]] = 0
      BY Zenon, <2>0, <2>2, <3>2, WritesPositive
    <3> QED BY Zenon, <2>1, <3>1, <3>2
  <2>4. CASE UNCHANGED writing
    BY Zenon, <2>1, <2>3, <2>4
  <2>5. ASSUME NEW w \in Writers, FinishNormalWrite(w)
        PROVE  writing'[v] # account'[u]
    <3>1. account[u] # NoAccount
      BY Zenon, <2>2, SelectorsAssumption
    <3> QED BY Zenon, <2>0, <2>1, <2>3, <2>5, <3>1 DEF FinishNormalWrite, TypeOK
  <2>6. ASSUME NEW w \in Writers, NEW s \in Busied[faulty], AdmitNormalWrite(w, s)
        PROVE  writing'[v] # account'[u]
    <3>1. s \in Selectors
      BY Zenon, <2>0, FaultsAssumption DEF TypeOK
    <3>2. s # account[u]
      BY Zenon, <2>2, <2>6, <3>1, AdmitNotDispatching
    <3> QED BY Zenon, <2>0, <2>1, <2>3, <2>6, <3>2 DEF AdmitNormalWrite, TypeOK
  <2> QED BY Zenon, <1>2, <2>4, <2>5, <2>6, WriteFrame
<1> QED BY Zenon, <1>1, <1>2

\* No step leaves a durable episode of a running process unlatched.
LEMMA NextEpisodeLatches == SafetyInv /\ [Next]_vars => EpisodeLatches'
<1> SUFFICES ASSUME SafetyInv, [Next]_vars, up', NEW z \in Selectors,
                    episode'[z] # NoEpisode
             PROVE  z \in triggered'
  BY Zenon DEF EpisodeLatches
<1> TypeOK /\ CheckInv /\ EpisodeLatches
  BY Zenon DEF SafetyInv
<1>1. CASE QuietStep
  BY Zenon, <1>1 DEF QuietStep, EpisodeLatches
<1>2. ASSUME NEW s \in Selectors, OneView(s) PROVE z \in triggered'
  <2>1. PICK x \in Views : Kept(s, View(s), x) /\ SetView(s, x)
    BY Zenon, <1>2 DEF OneView, ViewStep
  <2>2. x.episode # NoEpisode => x.latched
    BY Zenon, <2>1 DEF Kept
  <2>3. up
    BY Zenon, <1>2 DEF OneView
  <2> QED BY Zenon, <2>1, <2>2, <2>3, SetViewAt DEF EpisodeLatches
<1>3. ASSUME NEW t \in Checks, NEW s \in Selectors, CheckFires(t, s)
      PROVE z \in triggered'
  <2>1. PICK x \in Views : SetView(s, x) /\ x.latched
    BY Zenon, <1>3, FireSteps DEF FireStep
  <2>2. up
    BY Zenon, <1>3 DEF CheckFires
  <2> QED BY Zenon, <2>1, <2>2, SetViewAt DEF EpisodeLatches
<1>4. ASSUME NEW t \in Checks, BindTargets(t) PROVE z \in triggered'
  <2>1. account[t] \in triggered /\ triggered' = triggered /\ up
    BY Zenon, <1>4 DEF BindTargets, SafetyInv, ExclusiveFlatten, Idle, latchVars
  <2>2. z # account[t] => episode'[z] = episode[z]
    BY Zenon, <1>4, BindSteps DEF TypeOK
  <2> QED BY Zenon, <2>1, <2>2 DEF EpisodeLatches
<1>5. ASSUME NEW t \in Checks, Sweep(t) PROVE z \in triggered'
  BY Zenon, <1>5 DEF Sweep, EpisodeLatches, latchVars, worldVars
<1>6. CASE ResetDaily \/ ResetDailyFails
  BY Zenon, <1>6 DEF ResetDaily, ResetDailyFails, EpisodeLatches, latchVars, worldVars
<1>7. CASE Crash
  BY Zenon, <1>7 DEF Crash
<1>8. CASE Restart
  BY Zenon, <1>8 DEF Restart, Restored
<1> QED BY Zenon, <1>1, <1>2, <1>3, <1>4, <1>5, <1>6, <1>7, <1>8, LatchFrame

\* No step removes the durable episode of an account with unsettled intents, and
\* intents are only left behind under an episode.
LEMMA NextUnsettledKeepsEpisode ==
    SafetyInv /\ [Next]_vars
        => /\ UnsettledKeepsEpisode'
           /\ \A t \in Checks : pc'[t] = "sweep" /\ ~degraded' => episode'[account'[t]] # NoEpisode
<1> DEFINE Swept(t) == pc'[t] = "sweep" /\ ~degraded' => episode'[account'[t]] # NoEpisode
<1> SUFFICES ASSUME SafetyInv, [Next]_vars, NEW u \in Checks \cup {NoAccount}
             PROVE  UnsettledKeepsEpisode' /\ (u \in Checks => Swept(u))
  BY Zenon
<1> /\ TypeOK /\ CheckInv /\ EpisodeLatches /\ ExclusiveFlatten
    /\ \A s \in unsettled : s \in Selectors /\ episode[s] # NoEpisode
    /\ \A t \in Checks : pc[t] = "sweep" =>
          account[t] \in dispatching /\ account[t] \in Selectors
    /\ \A t \in Checks : pc[t] = "sweep" /\ ~degraded => episode[account[t]] # NoEpisode
  BY Zenon DEF SafetyInv, UnsettledKeepsEpisode, TypeOK, ExclusiveFlatten, CheckInv, Idle
<1>1. CASE QuietStep
  BY Zenon, <1>1 DEF QuietStep, UnsettledKeepsEpisode
<1>2. ASSUME NEW s \in Selectors, OneView(s)
      PROVE UnsettledKeepsEpisode' /\ (u \in Checks => Swept(u))
  <2>1. PICK x \in Views : Kept(s, View(s), x) /\ SetView(s, x)
    BY Zenon, <1>2 DEF OneView, ViewStep
  <2>2. \/ x.episode = episode[s]
        \/ s \notin dispatching /\ s \notin unsettled
    BY Zenon, <2>1 DEF Kept, View, Busy
  <2>3. \A z \in Selectors : episode'[z] = IF z = s THEN x.episode ELSE episode[z]
    BY <2>1, SetViewAt
  <2> QED BY Zenon, <1>2, <2>2, <2>3 DEF OneView, UnsettledKeepsEpisode
<1>3. ASSUME NEW t \in Checks, NEW s \in Selectors, CheckFires(t, s)
      PROVE UnsettledKeepsEpisode' /\ (u \in Checks => Swept(u))
  <2>1. PICK x \in Views :
          /\ SetView(s, x)
          /\ x.episode = NoEpisode => episode[s] = NoEpisode \/ s \notin unsettled
    BY Zenon, <1>3, FireSteps DEF FireStep
  <2>2. \A z \in Selectors : episode'[z] = IF z = s THEN x.episode ELSE episode[z]
    BY <2>1, SetViewAt
  <2>3. unsettled' = unsettled /\ s \notin dispatching /\ (degraded => degraded')
    BY Zenon, <1>3, FireSteps DEF CheckFires, AlreadyDispatching
  <2>4. \A v \in Checks : pc'[v] = "sweep" => pc[v] = "sweep" /\ account'[v] = account[v]
    BY Zenon, <1>3 DEF CheckFires, TypeOK
  <2> QED BY Zenon, <2>1, <2>2, <2>3, <2>4 DEF UnsettledKeepsEpisode
<1>4. ASSUME NEW t \in Checks, BindTargets(t)
      PROVE UnsettledKeepsEpisode' /\ (u \in Checks => Swept(u))
  <2>1. PICK x \in Episodes :
          /\ episode' = [episode EXCEPT ![account[t]] = x]
          /\ x = NoEpisode => episode[account[t]] = NoEpisode /\ degraded'
    BY Zenon, <1>4, BindSteps
  <2>2. /\ degraded => degraded'
        /\ account' = account /\ pc' = [pc EXCEPT ![t] = "sweep"] /\ unsettled' = unsettled
    BY Zenon, <1>4, BindSteps DEF BindTargets
  <2>3. UnsettledKeepsEpisode'
    BY Zenon, <2>1, <2>2 DEF UnsettledKeepsEpisode, TypeOK
  <2>4. ASSUME u \in Checks, pc'[u] = "sweep", ~degraded'
        PROVE  episode'[account'[u]] # NoEpisode
    <3>1. CASE u = t
      BY Zenon, <1>4, <2>1, <2>2, <2>4, <3>1, BindSteps DEF TypeOK
    <3>2. CASE u # t
      BY Zenon, <2>1, <2>2, <2>4, <3>2 DEF TypeOK
    <3> QED BY Zenon, <3>1, <3>2
  <2> QED BY Zenon, <2>3, <2>4
<1>5. ASSUME NEW t \in Checks, Sweep(t)
      PROVE UnsettledKeepsEpisode' /\ (u \in Checks => Swept(u))
  <2>1. /\ episode' = episode /\ account' = account /\ pc[t] = "sweep"
        /\ pc' = [pc EXCEPT ![t] = "finish"]
    BY Zenon, <1>5 DEF Sweep
  <2>3. degraded => degraded'
    BY Zenon, <1>5 DEF Sweep
  <2>4. \A v \in Checks : pc'[v] = "sweep" => pc[v] = "sweep"
    BY Zenon, <2>1 DEF TypeOK
  <2>2. unsettled' \subseteq unsettled \/ (~degraded /\ unsettled' \subseteq unsettled \cup {account[t]})
    BY Zenon, <1>5 DEF Sweep
  <2> QED BY Zenon, <2>1, <2>2, <2>3, <2>4 DEF UnsettledKeepsEpisode
<1>6. CASE ResetDaily \/ ResetDailyFails
  <2>1. /\ unsettled' = unsettled /\ account' = account /\ pc' = pc /\ dispatching = {}
        /\ \A s \in Selectors : episode'[s] = IF s \in triggered THEN NoEpisode ELSE episode[s]
        /\ \A s \in triggered : s \notin unsettled
    BY Zenon, <1>6 DEF ResetDaily, ResetDailyFails, checkVars
  <2> QED BY Zenon, <2>1 DEF UnsettledKeepsEpisode
<1>7. CASE Crash
  <2>1. \A t \in Checks : pc'[t] # "sweep"
    BY Zenon, <1>7 DEF Crash, Idle
  <2>2. /\ episode' = episode
        /\ \A s \in unsettled' : s \in unsettled
              \/ (~degraded /\ \E t \in Checks : pc[t] = "sweep" /\ account[t] = s)
    BY Zenon, <1>7 DEF Crash
  <2> QED BY ZenonT(30), <2>1, <2>2 DEF UnsettledKeepsEpisode
<1>8. CASE Restart
  <2>1. \A t \in Checks : pc'[t] = Idle
    BY Zenon, <1>8 DEF Restart, CheckInv, checkVars
  <2>2. unsettled' = unsettled /\ \A s \in unsettled : episode'[s] = episode[s]
    BY Zenon, <1>8 DEF Restart
  <2> QED BY Zenon, <2>1, <2>2 DEF UnsettledKeepsEpisode, Idle
<1> QED BY Zenon, <1>1, <1>2, <1>3, <1>4, <1>5, <1>6, <1>7, <1>8, LatchFrame

LEMMA NextWritesUp ==
    TypeOK /\ CheckInv /\ [Next]_vars
        => today' > 0 /\ \A w \in Writers : writing'[w] # NoAccount => up'
<1> SUFFICES ASSUME TypeOK, CheckInv, [Next]_vars
             PROVE  today' > 0 /\ \A w \in Writers : writing'[w] # NoAccount => up'
  BY Zenon
<1> USE DEF worldVars
<1>1. today' = today \/ today' = today + 1
  <2>1. ASSUME NEW t \in Checks, CheckStep(t) PROVE today' = today
    <3>1. ASSUME NEW s \in Busied[faulty], CheckFires(t, s) PROVE today' = today
      BY Zenon, <3>1 DEF CheckFires
    <3>2. CASE \/ Drained(t) \/ GivesUp(t) \/ BindTargets(t) \/ Sweep(t) \/ FinishCheck(t)
      BY Zenon, <3>2 DEF Drained, GivesUp, BindTargets, Sweep, FinishCheck
    <3> QED BY Zenon, <2>1, <3>1, <3>2 DEF CheckStep
  <2>2. ASSUME NEW s \in Busied[faulty], CheckWithinLimit(s) \/ CheckRaises(s)
        PROVE today' = today
    BY Zenon, <2>2 DEF CheckWithinLimit, CheckRaises
  <2>3. ASSUME NEW w \in Writers, NEW s \in Busied[faulty],
               AdmitNormalWrite(w, s) \/ RefuseNormalWrite(w, s)
        PROVE today' = today
    BY Zenon, <2>3 DEF AdmitNormalWrite, RefuseNormalWrite
  <2>4. ASSUME NEW w \in Writers, FinishNormalWrite(w) PROVE today' = today
    BY Zenon, <2>4 DEF FinishNormalWrite
  <2>5. CASE ResetDaily \/ ResetDailyFails \/ Crash \/ Restart \/ UNCHANGED vars
    BY Zenon, <2>5 DEF ResetDaily, ResetDailyFails, Crash, Restart, vars
  <2> QED BY Zenon, <2>1, <2>2, <2>3, <2>4, <2>5 DEF Next, NextDay
<1>2. ASSUME NEW v \in Writers, writing'[v] # NoAccount PROVE up'
  <2>1. CASE Crash
    BY Zenon, <1>2, <2>1 DEF Crash
  <2>2. CASE ~Crash
    <3>1. up => up'
      BY Zenon, <2>2, UpFrame
    <3>2. ASSUME UNCHANGED writing PROVE up
      BY Zenon, <1>2, <3>2 DEF CheckInv
    <3>3. ASSUME NEW w \in Writers, FinishNormalWrite(w) PROVE up
      BY Zenon, <3>3 DEF FinishNormalWrite
    <3>4. ASSUME NEW w \in Writers, NEW s \in Busied[faulty], AdmitNormalWrite(w, s)
          PROVE up
      BY Zenon, <3>4 DEF AdmitNormalWrite
    <3> QED BY Zenon, <2>2, <3>1, <3>2, <3>3, <3>4, WriteFrame
  <2> QED BY Zenon, <2>1, <2>2
<1> QED BY <1>1, <1>2 DEF TypeOK, CheckInv

-------------------------------------------------------------------------------
(* The safety properties.                                                   *)

LEMMA InitSafetyInv == Init => SafetyInv
<1> SUFFICES ASSUME Init PROVE SafetyInv
  BY Zenon
<1>1. \A s \in Selectors : WritesOf(s) = {}
  BY Zenon, SelectorsAssumption DEF Init, WritesOf
<1>2. \A s \in Selectors : normalWrites[s] = Cardinality(WritesOf(s))
  BY Zenon, <1>1, FS_EmptySet DEF Init
<1>3. CheckInv
  BY <1>2 DEF Init, CheckInv, Idle
<1>4. ExclusiveFlatten /\ EpisodeLatches /\ UnsettledKeepsEpisode
  BY Zenon DEF Init, ExclusiveFlatten, EpisodeLatches, UnsettledKeepsEpisode, Flattening, Idle
<1> QED BY Zenon, <1>3, <1>4, InitTypeOK DEF SafetyInv

LEMMA NextSafetyInv == SafetyInv /\ [Next]_vars => SafetyInv'
<1> SUFFICES ASSUME SafetyInv, [Next]_vars PROVE SafetyInv'
  BY Zenon
<1> TypeOK /\ CheckInv /\ ExclusiveFlatten
  BY Zenon DEF SafetyInv
<1>1. CheckInv'
  BY Zenon, NextCounts, NextCurrent, NextIdle, NextWritesUp, NextUnsettledKeepsEpisode
     DEF CheckInv
<1>2. ExclusiveFlatten'
  BY Zenon, NextDispatchingLatched, NextOneFlatten, NextFlattensAlone
     DEF ExclusiveFlatten, Flattening
<1> QED BY Zenon, <1>1, <1>2, NextTypeOK, NextEpisodeLatches, NextUnsettledKeepsEpisode
        DEF SafetyInv

\* The inductive invariant behind the breaker's coordination.
THEOREM Safety == Spec => []SafetyInv
BY InitSafetyInv, NextSafetyInv, PTL DEF Spec

\* Every variable keeps its type; no write counter underflows.
THEOREM TypeCorrect == Spec => []TypeOK
<1>1. SafetyInv => TypeOK
  BY Zenon DEF SafetyInv
<1> QED BY <1>1, Safety, PTL

\* One check at a time flattens an account, latched and without a normal write in
\* flight.
THEOREM FlattensAreExclusive == Spec => []ExclusiveFlatten
<1>1. SafetyInv => ExclusiveFlatten
  BY Zenon DEF SafetyInv
<1> QED BY <1>1, Safety, PTL

\* A running process is latched for every durable episode.
THEOREM EpisodesLatch == Spec => []EpisodeLatches
<1>1. SafetyInv => EpisodeLatches
  BY Zenon DEF SafetyInv
<1> QED BY <1>1, Safety, PTL

\* Unsettled broker intents keep their account's durable episode.
THEOREM UnsettledEpisodesStay == Spec => []UnsettledKeepsEpisode
<1>1. SafetyInv => UnsettledKeepsEpisode
  BY Zenon DEF SafetyInv
<1> QED BY <1>1, Safety, PTL

-----------------------------------------------------------------------------
(* Working storage: memory and journal agree *)

\* While storage works, memory agrees with the journal: the remembered session
\* is the remembered row's, the latch is the row, and the row is of today's
\* session exactly when the account fired today.
AccountAgrees(s) ==
    /\ sessionKey[s] = known[s].session
    /\ up /\ s \in triggered => episode[s] # NoEpisode
    /\ episode[s] # NoEpisode => episode[s].session > 0
    /\ fireDay[s] <= today /\ episode[s].session <= today
    /\ episode[s].session = today <=> fireDay[s] = today

AgreementInv ==
    ~faulty => /\ ~degraded
               /\ \A s \in Selectors : AccountAgrees(s)
               /\ \A t \in Checks : pc[t] # Idle => episode[account[t]] # NoEpisode

Agreeing(v) ==
    /\ v.key = v.known.session
    /\ v.latched <=> v.episode # NoEpisode

\* What is left of v is v, or nothing of an episode of an earlier session.
Released(v, x) ==
    /\ Agreeing(x)
    /\ x.episode = v.episode \/ (x.episode = NoEpisode /\ v.episode.session < today)

LEMMA NoEpisodeSession == NoEpisode.session = 0
BY Zenon DEF NoEpisode

\* Over working storage a roll-over never raises, and ends exactly the settled
\* episode of an earlier session of a quiet account.
LEMMA RollOverAgrees ==
    ASSUME TypeOK, ~faulty, NEW s \in Selectors, NEW v \in Views, Agreeing(v),
           NEW r \in RollOver(s, v)
    PROVE  /\ r.ok /\ Released(v, r.view)
           /\ /\ PriorSession(v.key) /\ ~Busy(s) /\ Deactivatable(s, v.episode, v.known)
              => r.view.episode = NoEpisode
<1> DEFINE gone == [v EXCEPT !.episode = NoEpisode]
           released == [gone EXCEPT !.key = 0, !.known = NoEpisode, !.latched = FALSE]
<1>1. /\ released \in Views /\ released.episode = NoEpisode /\ released.key = 0
      /\ released.known = NoEpisode /\ released.latched = FALSE
  BY Zenon, NoEpisodeType DEF Views
<1>2. Agreeing(released)
  BY Zenon, <1>1, NoEpisodeSession DEF Agreeing
<1>3. v.known = NoEpisode => ~PriorSession(v.key)
  BY Zenon, NoEpisodeSession DEF Agreeing, PriorSession
<1> HIDE DEF released
<1>4. \/ /\ r = Result(v, TRUE)
         /\ ~(PriorSession(v.key) /\ ~Busy(s) /\ Deactivatable(s, v.episode, v.known))
      \/ /\ r = Result(released, TRUE) /\ PriorSession(v.key)
         /\ Deactivatable(s, v.episode, v.known)
  BY Zenon, <1>3 DEF RollOver, released
<1>5. CASE /\ r = Result(v, TRUE)
           /\ ~(PriorSession(v.key) /\ ~Busy(s) /\ Deactivatable(s, v.episode, v.known))
  BY Zenon, <1>5, ResultFields DEF Released
<1>6. CASE /\ r = Result(released, TRUE) /\ PriorSession(v.key)
           /\ Deactivatable(s, v.episode, v.known)
  <2>1. r.ok /\ r.view = released
    BY Zenon, <1>1, <1>6, ResultFields
  <2>2. v.episode.session < today
    BY Zenon, <1>6 DEF Deactivatable, PriorSession, Agreeing
  <2> QED BY Zenon, <1>1, <1>2, <2>1, <2>2 DEF Released
<1> QED BY Zenon, <1>4, <1>5, <1>6

\* The same of an admission; it admits once nothing is left, and only then.
LEMMA AdmissionAgrees ==
    ASSUME TypeOK, ~faulty, NEW s \in Selectors, Agreeing(View(s)),
           NEW r \in Admission(s)
    PROVE  Released(View(s), r.view) /\ (r.ok <=> r.view.episode = NoEpisode)
<1>1. View(s) \in Views /\ (View(s).episode # NoEpisode => View(s).latched)
  BY Zenon, ViewType DEF Agreeing
<1>2. PICK p \in RollOver(s, View(s)) :
        IF ~p.ok THEN r = p
        ELSE \E q \in IF p.view.episode # NoEpisode THEN Restore(s, p.view) ELSE {p} :
              r = Result(q.view, q.ok /\ ~q.view.latched)
  BY Zenon DEF Admission
<1>3. p.ok /\ Released(View(s), p.view) /\ p \in Results
  BY Zenon, <1>1, RollOverAgrees, RollOverKeeps
<1>4. PICK q \in IF p.view.episode # NoEpisode THEN Restore(s, p.view) ELSE {p} :
              r = Result(q.view, q.ok /\ ~q.view.latched)
  BY Zenon, <1>2, <1>3
<1>5. q \in Results /\ q.ok /\ Released(p.view, q.view)
  <2>1. CASE p.view.episode = NoEpisode
    BY Zenon, <1>3, <1>4, <2>1 DEF Released
  <2>2. CASE p.view.episode # NoEpisode
    <3> DEFINE x == [p.view EXCEPT !.latched = TRUE, !.key = p.view.episode.session,
                                   !.known = p.view.episode]
    <3>1. /\ x \in Views /\ x.latched = TRUE /\ x.episode = p.view.episode
          /\ x.key = p.view.episode.session /\ x.known = p.view.episode
      BY Zenon, <1>3 DEF Results, Views, Episodes
    <3>2. Agreeing(x) /\ x.latched /\ q \in RollOver(s, x)
      BY Zenon, <1>4, <2>2, <3>1 DEF Agreeing, Restore
    <3> HIDE DEF x
    <3>3. q \in Results /\ q.ok /\ Released(x, q.view)
      BY Zenon, <3>1, <3>2, RollOverAgrees, RollOverKeeps
    <3> QED BY Zenon, <3>1, <3>3 DEF Released
  <2> QED BY Zenon, <2>1, <2>2
<1>6. q.view \in Views /\ q.view.latched \in BOOLEAN
      /\ (q.view.latched <=> q.view.episode # NoEpisode)
  BY Zenon, <1>5 DEF Results, Views, Released, Agreeing
<1>7. r.view = q.view /\ (r.ok <=> ~q.view.latched)
  BY Zenon, <1>4, <1>5, <1>6, ResultFields
<1>8. Released(View(s), q.view)
  BY Zenon, <1>3, <1>5 DEF Released
<1> QED BY Zenon, <1>6, <1>7, <1>8

\* A breach over working storage leaves a latched episode of today.
LEMMA FireAgrees ==
    ASSUME SafetyInv, AgreementInv, ~faulty, NEW t \in Checks, NEW s \in Selectors,
           CheckFires(t, s)
    PROVE  /\ degraded' = degraded
           /\ \E x \in Views : /\ SetView(s, x) /\ x.latched /\ x.episode # NoEpisode
                               /\ x.key = x.known.session /\ x.episode.session = today
<1> TypeOK /\ CheckInv /\ EpisodeLatches /\ today > 0 /\ up
  BY Zenon DEF SafetyInv, CheckInv, CheckFires
<1>1. View(s) \in Views /\ Agreeing(View(s)) /\ View(s).episode = episode[s]
  BY Zenon, ViewType DEF Agreeing, View, AgreementInv, AccountAgrees, EpisodeLatches, TypeOK
<1>2. PICK r \in RollOver(s, View(s)), ready \in BOOLEAN : Activate(s, r.view, ready)
  BY Zenon DEF CheckFires
<1>3. r.view \in Views /\ Released(View(s), r.view)
  BY Zenon, <1>1, RollOverAgrees, RollOverKeeps DEF Results, Agreeing
<1> DEFINE row == Renewed(r.view.episode)
<1>4. r.view.episode \in Episodes /\ r.view.episode.session <= today
  <2>1. r.view.episode = episode[s] \/ r.view.episode = NoEpisode
    BY Zenon, <1>1, <1>3 DEF Released
  <2>2. episode[s].session <= today
    BY Zenon DEF AgreementInv, AccountAgrees
  <2>3. today \in Nat
    BY Zenon DEF TypeOK
  <2>4. NoEpisode.session <= today
    BY <2>3, NoEpisodeSession
  <2>5. r.view.episode \in Episodes
    BY Zenon, <1>3 DEF Views
  <2> QED BY Zenon, <2>1, <2>2, <2>4, <2>5
<1>5. row \in Episodes /\ row # NoEpisode
  BY Zenon, <1>4, RenewedRow
<1>6. row.session = today
  BY Zenon, <1>4, RenewedRow
<1> HIDE DEF row
<1> DEFINE x == [episode |-> row, key |-> row.session, known |-> row, latched |-> TRUE]
<1>7. SetView(s, x) /\ degraded' = degraded
  BY Zenon, <1>2 DEF Activate, row
<1>8. /\ x \in Views /\ x.latched = TRUE /\ x.episode = row /\ x.known = row
      /\ x.key = row.session
  BY Zenon, <1>5 DEF Views, Episodes
<1> HIDE DEF x
<1> QED BY Zenon, <1>5, <1>6, <1>7, <1>8

\* Binding the target over working storage keeps the session of the episode.
LEMMA BindAgrees ==
    ASSUME SafetyInv, AgreementInv, ~faulty, NEW t \in Checks, BindTargets(t)
    PROVE  /\ account[t] \in Selectors /\ degraded' = degraded
           /\ \E x \in Episodes : /\ episode' = [episode EXCEPT ![account[t]] = x]
                                  /\ x # NoEpisode
                                  /\ x.session = episode[account[t]].session
<1> DEFINE row == episode[account[t]]
           bound == IF row.targeted THEN row
                    ELSE [row EXCEPT !.targeted = TRUE, !.stamp = stamp + 1]
<1>1. account[t] \in Selectors /\ row \in Episodes /\ row # NoEpisode
  BY Zenon DEF SafetyInv, AgreementInv, BindTargets, CheckInv, TypeOK, Idle
<1>2. degraded' = degraded /\ episode' = [episode EXCEPT ![account[t]] = bound]
  BY Zenon, <1>1 DEF BindTargets, AgreementInv
<1>3. stamp + 1 \in Nat
  BY DEF SafetyInv, TypeOK
<1>4. bound \in Episodes /\ bound # NoEpisode
  <2>1. CASE row.targeted
    BY Zenon, <1>1, <2>1
  <2>2. CASE ~row.targeted
    BY Zenon, <1>1, <1>3, <2>2, TargetedRow
  <2> QED BY Zenon, <2>1, <2>2
<1>5. bound.session = row.session
  BY Zenon, <1>1 DEF Episodes
<1> HIDE DEF bound
<1> QED BY Zenon, <1>1, <1>2, <1>4, <1>5

\* The rolled-over or restored account of a step, over working storage.
LEMMA ViewAgrees ==
    ASSUME SafetyInv, AgreementInv, ~faulty, NEW s \in Selectors,
           \/ CheckWithinLimit(s) \/ CheckRaises(s)
           \/ \E w \in Writers : AdmitNormalWrite(w, s) \/ RefuseNormalWrite(w, s)
    PROVE  \E x \in Views : Kept(s, View(s), x) /\ Released(View(s), x) /\ SetView(s, x)
<1> TypeOK /\ EpisodeLatches /\ up
  BY Zenon DEF SafetyInv, CheckWithinLimit, CheckRaises, AdmitNormalWrite, RefuseNormalWrite
<1>1. View(s) \in Views /\ Agreeing(View(s)) /\ (View(s).episode # NoEpisode => View(s).latched)
  BY Zenon, ViewType DEF Agreeing, View, AgreementInv, AccountAgrees, EpisodeLatches, TypeOK
<1>2. episode[s] # NoEpisode => s \in triggered
  BY Zenon DEF EpisodeLatches
<1>3. CASE \E w \in Writers : AdmitNormalWrite(w, s) \/ RefuseNormalWrite(w, s)
  <2>1. PICK r \in Admission(s) : SetView(s, r.view)
    BY Zenon, <1>3 DEF AdmitNormalWrite, RefuseNormalWrite
  <2> QED BY Zenon, <1>1, <1>2, <2>1, AdmissionKeeps, AdmissionAgrees DEF Results
<1>4. CASE CheckWithinLimit(s) \/ CheckRaises(s)
  <2>1. PICK r \in RollOver(s, View(s)) : SetView(s, r.view)
    BY Zenon, <1>4 DEF CheckWithinLimit, CheckRaises
  <2> QED BY Zenon, <1>1, <2>1, RollOverKeeps, RollOverAgrees DEF Results
<1> QED BY Zenon, <1>3, <1>4

LEMMA FaultyFrame == ASSUME [Next]_vars PROVE faulty' = faulty
<1> USE DEF worldVars
<1>1. ASSUME NEW t \in Checks, CheckStep(t) PROVE faulty' = faulty
  <2>1. ASSUME NEW s \in Busied[faulty], CheckFires(t, s) PROVE faulty' = faulty
    BY Zenon, <2>1 DEF CheckFires
  <2>2. CASE \/ Drained(t) \/ GivesUp(t) \/ BindTargets(t) \/ Sweep(t) \/ FinishCheck(t)
    BY Zenon, <2>2 DEF Drained, GivesUp, BindTargets, Sweep, FinishCheck
  <2> QED BY Zenon, <1>1, <2>1, <2>2 DEF CheckStep
<1>2. ASSUME NEW s \in Busied[faulty], CheckWithinLimit(s) \/ CheckRaises(s)
      PROVE faulty' = faulty
  BY Zenon, <1>2 DEF CheckWithinLimit, CheckRaises
<1>3. ASSUME NEW w \in Writers, NEW s \in Busied[faulty],
             AdmitNormalWrite(w, s) \/ RefuseNormalWrite(w, s)
      PROVE faulty' = faulty
  BY Zenon, <1>3 DEF AdmitNormalWrite, RefuseNormalWrite
<1>4. ASSUME NEW w \in Writers, FinishNormalWrite(w) PROVE faulty' = faulty
  BY Zenon, <1>4 DEF FinishNormalWrite
<1>5. CASE ResetDaily \/ ResetDailyFails \/ NextDay \/ Crash \/ Restart \/ UNCHANGED vars
  BY Zenon, <1>5 DEF ResetDaily, ResetDailyFails, NextDay, Crash, Restart, vars
<1> QED BY Zenon, <1>1, <1>2, <1>3, <1>4, <1>5 DEF Next

\* Over working storage no step lets memory and journal disagree.
LEMMA NextAgreementInv == SafetyInv /\ AgreementInv /\ [Next]_vars => AgreementInv'
<1> DEFINE Agree == /\ ~degraded'
                    /\ \A z \in Selectors : AccountAgrees(z)'
                    /\ \A u \in Checks : pc'[u] # Idle => episode'[account'[u]] # NoEpisode
<1> SUFFICES ASSUME SafetyInv, AgreementInv, ~faulty, [Next]_vars PROVE Agree
  BY Zenon, FaultyFrame DEF AgreementInv
<1> /\ TypeOK /\ CheckInv /\ EpisodeLatches /\ today \in Nat /\ today > 0
    /\ Busied[faulty] \subseteq Selectors
    /\ \A t \in Checks : pc[t] # Idle => /\ account[t] \in Selectors
                                         /\ account[t] \in dispatching
  BY Zenon, FaultsAssumption DEF SafetyInv, CheckInv, ExclusiveFlatten, TypeOK
<1>1. /\ ~degraded
      /\ \A s \in Selectors : AccountAgrees(s)
      /\ \A t \in Checks : pc[t] # Idle => episode[account[t]] # NoEpisode
      /\ \A s \in Selectors : fireDay[s] \in Nat /\ episode[s].session \in Nat
  BY Zenon DEF AgreementInv, TypeOK, Episodes
<1> USE DEF durableVars, latchVars, countVars, checkVars, worldVars, historyVars
<1>2. ASSUME NEW s \in Selectors,
             \E x \in Views : Kept(s, View(s), x) /\ Released(View(s), x) /\ SetView(s, x),
             up, UNCHANGED <<degraded, up, fireDay, today, pc, account>>
      PROVE  Agree
  <2>1. PICK x \in Views : Kept(s, View(s), x) /\ Released(View(s), x) /\ SetView(s, x)
    BY Zenon, <1>2
  <2>2. /\ x.key = x.known.session /\ (x.latched => x.episode # NoEpisode)
        /\ \/ x.episode = episode[s]
           \/ x.episode = NoEpisode /\ episode[s].session < today /\ s \notin dispatching
    BY Zenon, <2>1 DEF Kept, Released, Agreeing, View, Busy
  <2>3. \A z \in Selectors :
           /\ episode'[z] = IF z = s THEN x.episode ELSE episode[z]
           /\ known'[z] = IF z = s THEN x.known ELSE known[z]
           /\ sessionKey'[z] = IF z = s THEN x.key ELSE sessionKey[z]
           /\ z \in triggered' <=> IF z = s THEN x.latched ELSE z \in triggered
    BY Zenon, <2>1, SetViewAt
  <2>4. ASSUME NEW z \in Selectors PROVE AccountAgrees(z)'
    <3>1. CASE z # s
      BY Zenon, <1>1, <1>2, <2>3, <3>1 DEF AccountAgrees
    <3>2. CASE z = s
      <4>1. /\ episode'[z] = x.episode /\ known'[z] = x.known /\ sessionKey'[z] = x.key
            /\ z \in triggered' <=> x.latched
        BY Zenon, <2>3, <3>2
      <4>2. /\ episode[z] # NoEpisode => episode[z].session > 0
            /\ fireDay[z] <= today /\ episode[z].session <= today
            /\ episode[z].session = today <=> fireDay[z] = today
        BY Zenon, <1>1 DEF AccountAgrees
      <4>3. CASE x.episode = episode[z]
        BY Zenon, <1>2, <2>2, <4>1, <4>2, <4>3 DEF AccountAgrees
      <4>4. CASE x.episode = NoEpisode /\ episode[z].session < today
        <5>1. fireDay[z] # today /\ NoEpisode.session # today /\ NoEpisode.session <= today
          BY <1>1, <4>2, <4>4, NoEpisodeSession
        <5> QED BY Zenon, <1>2, <2>2, <4>1, <4>2, <4>4, <5>1 DEF AccountAgrees
      <4> QED BY Zenon, <2>2, <3>2, <4>3, <4>4
    <3> QED BY Zenon, <3>1, <3>2
  <2>5. \A u \in Checks : pc'[u] # Idle => episode'[account'[u]] # NoEpisode
    <3> SUFFICES ASSUME NEW u \in Checks, pc'[u] # Idle PROVE episode'[account'[u]] # NoEpisode
      BY Zenon
    <3>1. account'[u] = account[u] /\ account[u] \in Selectors /\ account[u] \in dispatching
      BY Zenon, <1>2
    <3>2. episode[account[u]] # NoEpisode
      BY Zenon, <1>1, <1>2
    <3>3. episode'[account[u]] = IF account[u] = s THEN x.episode ELSE episode[account[u]]
      BY Zenon, <2>3, <3>1
    <3> QED BY Zenon, <2>2, <3>1, <3>2, <3>3
  <2> QED BY Zenon, <1>1, <1>2, <2>4, <2>5
<1>3. ASSUME NEW s \in Busied[faulty], CheckWithinLimit(s) \/ CheckRaises(s)
      PROVE Agree
  <2>1. up /\ UNCHANGED <<degraded, up, fireDay, today, pc, account>>
    BY Zenon, <1>3 DEF CheckWithinLimit, CheckRaises
  <2> QED BY Zenon, <1>2, <1>3, <2>1, ViewAgrees
<1>4. ASSUME NEW s \in Busied[faulty], NEW w \in Writers,
             AdmitNormalWrite(w, s) \/ RefuseNormalWrite(w, s)
      PROVE Agree
  <2>1. up /\ UNCHANGED <<degraded, up, fireDay, today, pc, account>>
    BY Zenon, <1>4 DEF AdmitNormalWrite, RefuseNormalWrite
  <2> QED BY Zenon, <1>2, <1>4, <2>1, ViewAgrees
<1>5. ASSUME NEW t \in Checks, NEW s \in Busied[faulty], CheckFires(t, s)
      PROVE Agree
  <2>1. s \in Selectors /\ degraded' = degraded
    BY Zenon, <1>5, FireAgrees
  <2>2. PICK x \in Views : /\ SetView(s, x) /\ x.latched /\ x.episode # NoEpisode
                           /\ x.key = x.known.session /\ x.episode.session = today
    BY Zenon, <1>5, <2>1, FireAgrees
  <2>3. \A z \in Selectors :
           /\ episode'[z] = IF z = s THEN x.episode ELSE episode[z]
           /\ known'[z] = IF z = s THEN x.known ELSE known[z]
           /\ sessionKey'[z] = IF z = s THEN x.key ELSE sessionKey[z]
           /\ z \in triggered' <=> IF z = s THEN x.latched ELSE z \in triggered
    BY Zenon, <2>1, <2>2, SetViewAt
  <2>4. /\ up' = up /\ today' = today
        /\ \A z \in Selectors : fireDay'[z] = IF z = s THEN today ELSE fireDay[z]
    BY Zenon, <1>5 DEF CheckFires, TypeOK
  <2>5. ASSUME NEW z \in Selectors PROVE AccountAgrees(z)'
    <3>1. CASE z # s
      BY Zenon, <1>1, <2>3, <2>4, <3>1 DEF AccountAgrees
    <3>2. CASE z = s
      <4>1. /\ episode'[z] = x.episode /\ known'[z] = x.known /\ sessionKey'[z] = x.key
            /\ fireDay'[z] = today
        BY Zenon, <2>3, <2>4, <3>2
      <4>2. today <= today /\ today > 0
        OBVIOUS
      <4> QED BY Zenon, <2>2, <2>4, <4>1, <4>2 DEF AccountAgrees
    <3> QED BY Zenon, <3>1, <3>2
  <2>6. \A u \in Checks : u = t \/ (pc'[u] = pc[u] /\ account'[u] = account[u])
    BY Zenon, <1>5 DEF CheckFires, TypeOK
  <2>7. account'[t] = s
    BY Zenon, <1>5 DEF CheckFires, TypeOK
  <2>8. ASSUME NEW u \in Checks, pc'[u] # Idle PROVE episode'[account'[u]] # NoEpisode
    <3>1. CASE account'[u] = s
      BY Zenon, <2>1, <2>2, <2>3, <3>1
    <3>2. CASE account'[u] # s
      <4>1. pc[u] # Idle /\ account'[u] = account[u] /\ account[u] \in Selectors
        BY Zenon, <2>6, <2>7, <2>8, <3>2
      <4>2. episode'[account[u]] = episode[account[u]]
        BY Zenon, <2>3, <3>2, <4>1
      <4> QED BY Zenon, <1>1, <4>1, <4>2
    <3> QED BY Zenon, <3>1, <3>2
  <2> QED BY Zenon, <1>1, <2>1, <2>5, <2>8
<1>6. ASSUME UNCHANGED <<latchVars, episode, fireDay, up, today>>, ~degraded',
             \A u \in Checks : pc'[u] # Idle => pc[u] # Idle /\ account'[u] = account[u]
      PROVE Agree
  BY Zenon, <1>1, <1>6 DEF AccountAgrees
<1>7. ASSUME NEW t \in Checks, Drained(t) \/ GivesUp(t) \/ Sweep(t) \/ FinishCheck(t)
      PROVE Agree
  <2>1. UNCHANGED <<latchVars, episode, fireDay, up, today>>
    BY Zenon, <1>7 DEF Drained, GivesUp, Sweep, FinishCheck
  <2>2. ~degraded'
    BY Zenon, <1>1, <1>7 DEF Drained, GivesUp, Sweep, FinishCheck
  <2>3. \A u \in Checks : pc'[u] # Idle => pc[u] # Idle /\ account'[u] = account[u]
    BY Zenon, <1>7 DEF Drained, GivesUp, Sweep, FinishCheck, TypeOK, Idle
  <2> QED BY Zenon, <1>6, <2>1, <2>2, <2>3
<1>8. ASSUME NEW w \in Writers, FinishNormalWrite(w) PROVE Agree
  BY Zenon, <1>1, <1>6, <1>8 DEF FinishNormalWrite
<1>9. CASE UNCHANGED vars
  BY Zenon, <1>1, <1>6, <1>9 DEF vars
<1>10. ASSUME NEW t \in Checks, BindTargets(t) PROVE Agree
  <2>1. account[t] \in Selectors /\ degraded' = degraded
    BY Zenon, <1>10, BindAgrees
  <2>2. PICK x \in Episodes : /\ episode' = [episode EXCEPT ![account[t]] = x]
                              /\ x # NoEpisode /\ x.session = episode[account[t]].session
    BY Zenon, <1>10, BindAgrees
  <2>3. \A z \in Selectors : episode'[z] = IF z = account[t] THEN x ELSE episode[z]
    BY Zenon, <2>1, <2>2 DEF TypeOK
  <2>4. UNCHANGED <<latchVars, fireDay, up, today, account>> /\ pc[t] = "bind"
    BY Zenon, <1>10 DEF BindTargets
  <2>5. \A u \in Checks : pc'[u] # Idle => pc[u] # Idle
    BY Zenon, <1>10 DEF BindTargets, TypeOK, Idle
  <2>6. episode[account[t]] # NoEpisode
    BY Zenon, <1>1, <2>4 DEF Idle
  <2>7. ASSUME NEW z \in Selectors PROVE AccountAgrees(z)'
    <3>1. /\ sessionKey'[z] = sessionKey[z] /\ known'[z] = known[z] /\ fireDay'[z] = fireDay[z]
          /\ up' = up /\ triggered' = triggered /\ today' = today
      BY Zenon, <2>4
    <3>2. episode'[z].session = episode[z].session
          /\ (episode'[z] = NoEpisode <=> episode[z] = NoEpisode)
      BY Zenon, <2>2, <2>3, <2>6
    <3> QED BY Zenon, <1>1, <3>1, <3>2 DEF AccountAgrees
  <2> QED BY Zenon, <1>1, <2>1, <2>2, <2>3, <2>4, <2>5, <2>7
<1>11. CASE ResetDaily
  <2>1. /\ UNCHANGED <<degraded, today, up, pc, account>> /\ up
        /\ dispatching = {} /\ triggered' = {}
        /\ \A z \in Selectors :
              /\ episode'[z] = IF z \in triggered THEN NoEpisode ELSE episode[z]
              /\ sessionKey'[z] = 0 /\ known'[z] = NoEpisode /\ fireDay'[z] = 0
    BY Zenon, <1>11 DEF ResetDaily
  <2>2. \A z \in Selectors : episode'[z] = NoEpisode
    BY Zenon, <2>1 DEF EpisodeLatches
  <2>3. ASSUME NEW z \in Selectors PROVE AccountAgrees(z)'
    BY <2>1, <2>2, NoEpisodeSession DEF AccountAgrees
  <2> QED BY Zenon, <1>1, <2>1, <2>3
<1>12. CASE NextDay
  <2>1. UNCHANGED <<latchVars, episode, fireDay, up, degraded, pc, account>>
        /\ today' = today + 1
    BY Zenon, <1>12 DEF NextDay
  <2>2. ASSUME NEW z \in Selectors PROVE AccountAgrees(z)'
    BY <1>1, <2>1 DEF AccountAgrees
  <2> QED BY Zenon, <1>1, <2>1, <2>2
<1>13. CASE Crash
  <2>1. UNCHANGED <<episode, fireDay, today>> /\ ~up' /\ ~degraded'
    BY Zenon, <1>13 DEF Crash
  <2>2. /\ \A z \in Selectors : sessionKey'[z] = 0 /\ known'[z] = NoEpisode
        /\ \A u \in Checks : pc'[u] = Idle
    BY Zenon, <1>13 DEF Crash
  <2>3. ASSUME NEW z \in Selectors PROVE AccountAgrees(z)'
    BY Zenon, <1>1, <2>1, <2>2, NoEpisodeSession DEF AccountAgrees
  <2> QED BY Zenon, <2>1, <2>2, <2>3
<1>14. CASE Restart
  <2>1. UNCHANGED <<fireDay, today, degraded, pc, account>> /\ ~up
    BY Zenon, <1>14 DEF Restart
  <2>2. \A u \in Checks : pc'[u] = Idle
    BY Zenon, <2>1 DEF CheckInv
  <2>3. ASSUME NEW z \in Selectors PROVE AccountAgrees(z)'
    <3>1. /\ episode'[z] = IF episode[z].session < today /\ z \notin unsettled
                           THEN NoEpisode ELSE episode[z]
          /\ known'[z] = IF z \in Restored THEN episode[z] ELSE NoEpisode
          /\ sessionKey'[z] = IF z \in Restored THEN episode[z].session ELSE 0
          /\ triggered' = Restored
      BY Zenon, <1>14 DEF Restart
    <3>2. z \in Restored => /\ episode[z] # NoEpisode
                            /\ episode[z].session < today => z \in unsettled
      BY Zenon DEF Restored
    <3> QED BY <1>1, <2>1, <3>1, <3>2, NoEpisodeSession DEF AccountAgrees
  <2> QED BY Zenon, <1>1, <2>1, <2>2, <2>3
<1>15. CASE ResetDailyFails
  BY Zenon, <1>15 DEF ResetDailyFails
<1> QED BY ZenonT(30), <1>3, <1>4, <1>5, <1>7, <1>8, <1>9, <1>10, <1>11, <1>12, <1>13, <1>14,
           <1>15 DEF Next, CheckStep

LEMMA InitAgreementInv == Init => AgreementInv
BY NoEpisodeSession DEF Init, AgreementInv, AccountAgrees, Idle

\* Over working storage memory and journal agree.
THEOREM Agreement == Spec => []AgreementInv
BY InitAgreementInv, NextAgreementInv, Safety, PTL DEF Spec

\* An account that agrees with the journal, as its critical sections see it.
LEMMA ViewAgreeing ==
    ASSUME SafetyInv, AgreementInv, ~faulty, up, NEW s \in Selectors
    PROVE  View(s) \in Views /\ Agreeing(View(s)) /\ View(s).episode = episode[s]
BY Zenon, ViewType DEF SafetyInv, Agreeing, View, AgreementInv, AccountAgrees, EpisodeLatches,
   TypeOK

\* No normal write is admitted for an account on the day its flatten was started.
LEMMA NextLatchStep == SafetyInv /\ AgreementInv /\ [Next]_vars => (~faulty => LatchStep)
<1> SUFFICES ASSUME SafetyInv, AgreementInv, [Next]_vars, ~faulty, NEW v \in Writers,
                    writing[v] = NoAccount, writing'[v] # NoAccount
             PROVE  fireDay[writing'[v]] # today
  BY Zenon DEF LatchStep
<1> TypeOK /\ CheckInv
  BY Zenon DEF SafetyInv
<1>1. ASSUME NEW w \in Writers, NEW s \in Busied[faulty], AdmitNormalWrite(w, s)
      PROVE  fireDay[writing'[v]] # today
  <2>1. s \in Selectors /\ up /\ writing'[v] = s
    BY Zenon, <1>1, FaultsAssumption DEF AdmitNormalWrite, TypeOK
  <2>2. PICK r \in Admission(s) : r.ok
    BY Zenon, <1>1 DEF AdmitNormalWrite
  <2>3. Released(View(s), r.view) /\ r.view.episode = NoEpisode
    BY Zenon, <2>1, <2>2, ViewAgreeing, AdmissionAgrees
  <2>4. episode[s].session # today
    <3>1. View(s).episode = episode[s] /\ today > 0
      BY Zenon DEF View, CheckInv
    <3>2. episode[s] = NoEpisode \/ episode[s].session < today
      BY Zenon, <2>3, <3>1 DEF Released
    <3>3. episode[s].session \in Nat /\ today \in Nat
      BY Zenon, <2>1 DEF TypeOK, Episodes
    <3> QED BY <3>1, <3>2, <3>3, NoEpisodeSession
  <2> QED BY Zenon, <2>1, <2>4 DEF AgreementInv, AccountAgrees
<1>2. ASSUME NEW w \in Writers, FinishNormalWrite(w) PROVE FALSE
  BY Zenon, <1>2 DEF FinishNormalWrite, TypeOK
<1>3. CASE Crash
  BY Zenon, <1>3 DEF Crash
<1> QED BY Zenon, <1>1, <1>2, <1>3, WriteFrame

\* Over working storage the breaker latches for the trading day.
THEOREM LatchesUntilTheNextSession == Spec => DurableLatchesForTheDay
<1>1. SafetyInv /\ AgreementInv /\ [Next]_vars => [~faulty => LatchStep]_vars
  BY Zenon, NextLatchStep
<1> QED BY <1>1, Safety, Agreement, PTL DEF Spec, DurableLatchesForTheDay

\* A roll-over always has an outcome.
LEMMA RollOverHappens == ASSUME NEW s, NEW v PROVE RollOver(s, v) # {}
BY Zenon DEF RollOver

LEMMA AgreementReopens == SafetyInv /\ AgreementInv => DurableReopens
<1> SUFFICES ASSUME SafetyInv, AgreementInv, ~faulty, NEW s \in Selectors,
                    up, fireDay[s] < today, s \notin unsettled, ~Busy(s)
             PROVE  \E r \in Admission(s) : r.ok
  BY Zenon DEF DurableReopens
<1> TypeOK /\ CheckInv /\ today \in Nat /\ episode[s].session \in Nat /\ fireDay[s] \in Nat
  BY Zenon DEF SafetyInv, TypeOK, Episodes
<1>1. View(s) \in Views /\ Agreeing(View(s)) /\ View(s).episode = episode[s]
  BY Zenon, ViewAgreeing
<1>2. PICK p \in RollOver(s, View(s)) : p.ok /\ Released(View(s), p.view) /\ p \in Results
  <2>1. PICK p \in RollOver(s, View(s)) : TRUE
    BY Zenon, RollOverHappens
  <2>2. p.ok /\ Released(View(s), p.view)
    BY Zenon, <1>1, <2>1, RollOverAgrees
  <2>3. p \in Results
    BY Zenon, <1>1, <2>1, RollOverKeeps DEF Agreeing
  <2> QED BY Zenon, <2>1, <2>2, <2>3
<1>3. \A q \in IF p.view.episode # NoEpisode THEN Restore(s, p.view) ELSE {p} :
         Result(q.view, q.ok /\ ~q.view.latched) \in Admission(s)
  BY <1>2 DEF Admission
<1>4. PICK q \in IF p.view.episode # NoEpisode THEN Restore(s, p.view) ELSE {p} :
         q.ok /\ q \in Results /\ ~q.view.latched
  <2>1. CASE p.view.episode = NoEpisode
    BY Zenon, <1>2, <2>1 DEF Released, Agreeing
  <2>2. CASE p.view.episode # NoEpisode
    <3> DEFINE x == [p.view EXCEPT !.latched = TRUE, !.key = p.view.episode.session,
                                   !.known = p.view.episode]
    <3>1. /\ x \in Views /\ x.latched = TRUE /\ x.episode = p.view.episode
          /\ x.key = p.view.episode.session /\ x.known = p.view.episode
      BY Zenon, <1>2 DEF Results, Views, Episodes
    <3>2. Agreeing(x) /\ x.latched /\ Restore(s, p.view) = RollOver(s, x)
      BY Zenon, <2>2, <3>1 DEF Agreeing, Restore
    <3> HIDE DEF x
    <3>3. p.view.episode = episode[s]
      BY Zenon, <1>1, <1>2, <2>2 DEF Released
    <3>4. PriorSession(x.key) /\ Deactivatable(s, x.episode, x.known)
      BY <2>2, <3>1, <3>3
         DEF AgreementInv, AccountAgrees, PriorSession, Deactivatable
    <3>5. PICK q \in RollOver(s, x) : TRUE
      BY Zenon, RollOverHappens
    <3>6. q.ok /\ q \in Results /\ Released(x, q.view) /\ q.view.episode = NoEpisode
      BY Zenon, <3>1, <3>2, <3>4, <3>5, RollOverAgrees, RollOverKeeps
    <3> QED BY Zenon, <2>2, <3>2, <3>5, <3>6 DEF Released, Agreeing
  <2> QED BY Zenon, <2>1, <2>2
<1>5. Result(q.view, q.ok /\ ~q.view.latched).ok
  BY Zenon, <1>4, ResultFields DEF Results
<1> QED BY Zenon, <1>3, <1>4, <1>5

\* Over working storage the latch ends with the session.
THEOREM SettledAccountsReopen == Spec => []DurableReopens
BY AgreementReopens, Safety, Agreement, PTL

-------------------------------------------------------------------------------
(* The breaker implements the emergency latch of each account.              *)

\* The mapped state of the abstract latch.
OpenFor == up /\ Guarded \notin triggered
SweepingOf == {Guarded} \cap {account[t] : t \in {u \in Checks : Flattening(u)}}
WritingOf == {Guarded} \cap {writing[w] : w \in Writers}

\* The account is being flattened behind its latch with no write in flight.
LEMMA SweepingFacts ==
    ASSUME SafetyInv
    PROVE  /\ SweepingOf # {} => /\ Guarded \in dispatching /\ Guarded \in triggered
                                 /\ up /\ WritingOf = {}
           /\ WritingOf # {} => up
<1>1. ASSUME NEW t \in Checks, Flattening(t), account[t] = Guarded
      PROVE  Guarded \in dispatching /\ Guarded \in triggered /\ up /\ WritingOf = {}
  BY ZenonT(30), <1>1 DEF SafetyInv, ExclusiveFlatten, CheckInv, Flattening, Idle, WritingOf
<1>2. ASSUME NEW w \in Writers, writing[w] = Guarded PROVE up
  BY Zenon, <1>2, GuardedAssumption, SelectorsAssumption DEF SafetyInv, CheckInv
<1> QED BY Zenon, <1>1, <1>2 DEF SweepingOf, WritingOf

\* Steps that touch neither a flatten nor a write open or close the latch, or
\* leave it.
LatchOnly ==
    /\ SweepingOf' = SweepingOf /\ WritingOf' = WritingOf
    /\ ~OpenFor /\ OpenFor' => SweepingOf = {}

\* One step of the breaker is a step of the latch of any one account.
LEMMA LatchSimulation == SafetyInv /\ [Next]_vars => [Latched!Next]_(Latched!latch)
<1> SUFFICES ASSUME SafetyInv, SafetyInv', [Next]_vars
             PROVE  [Latched!Next]_(Latched!latch)
  BY Zenon, NextSafetyInv
<1> /\ TypeOK /\ CheckInv /\ ExclusiveFlatten /\ EpisodeLatches
    /\ Busied[faulty] \subseteq Selectors /\ Guarded \in Selectors /\ Guarded # NoAccount
  BY Zenon, FaultsAssumption, GuardedAssumption, SelectorsAssumption DEF SafetyInv, TypeOK
<1> USE DEF durableVars, latchVars, countVars, checkVars, worldVars, historyVars
<1>1. ASSUME LatchOnly PROVE [Latched!Next]_(Latched!latch)
  <2>1. CASE OpenFor' = OpenFor
    BY Zenon, <1>1, <2>1 DEF LatchOnly, OpenFor, SweepingOf, WritingOf, Latched!latch
  <2>2. CASE OpenFor /\ ~OpenFor'
    BY Zenon, <1>1, <2>2 DEF LatchOnly, OpenFor, SweepingOf, WritingOf, Latched!Next, Latched!Close
  <2>3. CASE ~OpenFor /\ OpenFor'
    BY Zenon, <1>1, <2>3 DEF LatchOnly, OpenFor, SweepingOf, WritingOf, Latched!Next, Latched!Open
  <2> QED BY Zenon, <2>1, <2>2, <2>3 DEF OpenFor
<1>2. ASSUME UNCHANGED <<pc, account, writing>>, up' = up,
             Guarded \in triggered /\ Guarded \notin triggered' => Guarded \notin dispatching
      PROVE  LatchOnly
  BY Zenon, <1>2, SweepingFacts DEF LatchOnly, OpenFor, SweepingOf, WritingOf, Flattening
<1>3. ASSUME NEW s \in Selectors, OneView(s), UNCHANGED writing PROVE LatchOnly
  <2>1. PICK x \in Views : Kept(s, View(s), x) /\ SetView(s, x)
    BY Zenon, <1>3 DEF OneView, ViewStep
  <2>2. s \in triggered /\ s \in dispatching => x.latched
    BY Zenon, <2>1 DEF Kept, View, Busy
  <2>3. \A z \in Selectors : z \in triggered' <=> IF z = s THEN x.latched ELSE z \in triggered
    BY Zenon, <2>1, SetViewAt
  <2> QED BY Zenon, <1>2, <1>3, <2>2, <2>3 DEF OneView
<1>4. ASSUME NEW s \in Busied[faulty], NEW w \in Writers, AdmitNormalWrite(w, s)
      PROVE  [Latched!Next]_(Latched!latch)
  <2>1. s \in Selectors /\ s \notin dispatching /\ up /\ up'
    BY Zenon, <1>4, AdmitNotDispatching DEF AdmitNormalWrite, TypeOK
  <2>2. PICK r \in Admission(s) : r.ok /\ SetView(s, r.view)
    BY Zenon, <1>4 DEF AdmitNormalWrite
  <2>3. r.view \in Views /\ ~r.view.latched
    BY Zenon, <2>1, <2>2, AdmissionKeeps DEF EpisodeLatches, Results
  <2>4. \A z \in Selectors : z \in triggered' <=> z # s /\ z \in triggered
    BY Zenon, <2>1, <2>2, <2>3, SetViewAt
  <2>5. SweepingOf' = SweepingOf
    BY Zenon, <1>4 DEF AdmitNormalWrite, SweepingOf, Flattening
  <2>6. \A v \in Writers : writing'[v] = IF v = w THEN s ELSE writing[v]
    BY Zenon, <1>4 DEF AdmitNormalWrite, TypeOK
  <2>7. writing[w] = NoAccount
    BY Zenon, <1>4 DEF AdmitNormalWrite
  <2>8. CASE s = Guarded
    <3>1. WritingOf' = WritingOf \cup {Guarded}
      BY Zenon, <2>6, <2>7, <2>8 DEF WritingOf
    <3>2. OpenFor' = TRUE
      BY Zenon, <2>1, <2>4, <2>8 DEF OpenFor
    <3>3. SweepingOf = {}
      BY Zenon, <2>1, <2>8, SweepingFacts
    <3> QED BY Zenon, <2>5, <3>1, <3>2, <3>3
            DEF OpenFor, SweepingOf, WritingOf, Latched!Next, Latched!Admit
  <2>9. CASE s # Guarded
    <3>1. WritingOf' = WritingOf
      BY Zenon, <2>6, <2>7, <2>9 DEF WritingOf
    <3>2. OpenFor' => OpenFor
      BY Zenon, <2>1, <2>4, <2>9 DEF OpenFor
    <3> QED BY Zenon, <1>1, <2>5, <3>1, <3>2 DEF LatchOnly
  <2> QED BY Zenon, <2>8, <2>9
<1>5. ASSUME NEW w \in Writers, FinishNormalWrite(w)
      PROVE  [Latched!Next]_(Latched!latch)
  <2>1. SweepingOf' = SweepingOf /\ OpenFor' = OpenFor
    BY Zenon, <1>5 DEF FinishNormalWrite, SweepingOf, Flattening, OpenFor
  <2>2. \A v \in Writers : writing'[v] = IF v = w THEN NoAccount ELSE writing[v]
    BY Zenon, <1>5 DEF FinishNormalWrite, TypeOK
  <2>3. WritingOf' = WritingOf \/ WritingOf' = WritingOf \ {Guarded}
    BY Zenon, <2>2 DEF WritingOf
  <2>4. CASE WritingOf' = WritingOf
    BY Zenon, <2>1, <2>4 DEF OpenFor, SweepingOf, WritingOf, Latched!latch
  <2>5. CASE WritingOf' = WritingOf \ {Guarded}
    BY Zenon, <2>1, <2>5 DEF OpenFor, SweepingOf, WritingOf, Latched!Next, Latched!Finish
  <2> QED BY Zenon, <2>3, <2>4, <2>5
<1>6. ASSUME NEW t \in Checks, NEW s \in Busied[faulty], CheckFires(t, s)
      PROVE  LatchOnly
  <2>1. PICK x \in Views : SetView(s, x) /\ x.latched
    BY Zenon, <1>6, FireSteps DEF FireStep
  <2>2. triggered \subseteq triggered'
    BY Zenon, <2>1 DEF SetView
  <2>3. \A u \in Checks : /\ Flattening(u)' <=> Flattening(u)
                          /\ Flattening(u) => account'[u] = account[u]
    BY Zenon, <1>6 DEF CheckFires, Flattening, TypeOK, Idle
  <2>4. SweepingOf' = SweepingOf
    BY Zenon, <2>3 DEF SweepingOf
  <2>5. up' = up /\ WritingOf' = WritingOf
    BY <1>6 DEF CheckFires, WritingOf
  <2> QED BY Zenon, <2>2, <2>4, <2>5 DEF LatchOnly, OpenFor
<1>7. ASSUME NEW t \in Checks, Drained(t) PROVE [Latched!Next]_(Latched!latch)
  <2>1. /\ OpenFor' = OpenFor /\ WritingOf' = WritingOf /\ account' = account
        /\ pc[t] = "drain" /\ normalWrites[account[t]] = 0
    BY Zenon, <1>7 DEF Drained, OpenFor, WritingOf, WritesDrained
  <2>2. \A u \in Checks : Flattening(u)' <=> u = t \/ Flattening(u)
    BY Zenon, <1>7 DEF Drained, Flattening, TypeOK
  <2>3. account[t] \in Selectors /\ account[t] \in triggered
    BY Zenon, <2>1 DEF CheckInv, ExclusiveFlatten, Idle
  <2>4. CASE account[t] = Guarded
    <3>1. SweepingOf' = SweepingOf \cup {Guarded}
      BY Zenon, <2>1, <2>2, <2>4 DEF SweepingOf
    <3>2. SweepingOf = {}
      BY Zenon, <2>1, <2>4 DEF SweepingOf, Flattening, ExclusiveFlatten, Idle
    <3>3. WritingOf = {}
      BY <2>1, <2>3, <2>4, WritesPositive DEF WritingOf
    <3>4. ~OpenFor
      BY Zenon, <2>3, <2>4 DEF OpenFor
    <3> QED BY Zenon, <2>1, <3>1, <3>2, <3>3, <3>4
            DEF OpenFor, SweepingOf, WritingOf, Latched!Next, Latched!Sweep
  <2>5. CASE account[t] # Guarded
    <3>1. SweepingOf' = SweepingOf
      BY Zenon, <2>1, <2>2, <2>5 DEF SweepingOf
    <3> QED BY Zenon, <2>1, <3>1 DEF OpenFor, SweepingOf, WritingOf, Latched!latch
  <2> QED BY Zenon, <2>4, <2>5
<1>8. ASSUME NEW t \in Checks,
             GivesUp(t) \/ BindTargets(t) \/ Sweep(t) \/ FinishCheck(t)
      PROVE  [Latched!Next]_(Latched!latch)
  <2>1. UNCHANGED <<up, triggered, writing>>
    BY Zenon, <1>8 DEF GivesUp, BindTargets, Sweep, FinishCheck
  <2>2. OpenFor' = OpenFor /\ WritingOf' = WritingOf
    BY Zenon, <2>1 DEF OpenFor, WritingOf
  <2>3. \A u \in Checks : Flattening(u)' => Flattening(u) /\ account'[u] = account[u]
    <3>1. CASE GivesUp(t)
      BY Zenon, <3>1 DEF GivesUp, Flattening, TypeOK
    <3>2. CASE BindTargets(t)
      BY Zenon, <3>2 DEF BindTargets, Flattening, TypeOK
    <3>3. CASE Sweep(t)
      BY Zenon, <3>3 DEF Sweep, Flattening, TypeOK
    <3>4. CASE FinishCheck(t)
      BY Zenon, <3>4 DEF FinishCheck, Flattening, TypeOK, Idle
    <3> QED BY Zenon, <1>8, <3>1, <3>2, <3>3, <3>4
  <2>4. SweepingOf' = SweepingOf \/ SweepingOf' = SweepingOf \ {Guarded}
    BY Zenon, <2>3 DEF SweepingOf
  <2>5. CASE SweepingOf' = SweepingOf
    BY Zenon, <2>2, <2>5 DEF OpenFor, SweepingOf, WritingOf, Latched!latch
  <2>6. CASE SweepingOf' = SweepingOf \ {Guarded}
    BY Zenon, <2>2, <2>6 DEF OpenFor, SweepingOf, WritingOf, Latched!Next, Latched!Swept
  <2> QED BY Zenon, <2>4, <2>5, <2>6
<1>9. ASSUME NEW s \in Busied[faulty], CheckWithinLimit(s) \/ CheckRaises(s)
      PROVE LatchOnly
  <2>1. /\ up
        /\ UNCHANGED <<unsettled, degraded, up, dispatching, pc, account, writing>>
    BY Zenon, <1>9 DEF CheckWithinLimit, CheckRaises
  <2> QED BY Zenon, <1>3, <1>9, <2>1, ViewSteps DEF OneView
<1>10. ASSUME NEW s \in Busied[faulty], NEW w \in Writers, RefuseNormalWrite(w, s)
       PROVE LatchOnly
  <2>1. /\ up
        /\ UNCHANGED <<unsettled, degraded, up, dispatching, pc, account, writing>>
    BY Zenon, <1>10 DEF RefuseNormalWrite
  <2> QED BY Zenon, <1>3, <1>10, <2>1, ViewSteps DEF OneView
<1>11. CASE ResetDaily \/ ResetDailyFails \/ NextDay \/ UNCHANGED vars
  <2>1. /\ UNCHANGED <<pc, account, writing, up>>
        /\ Guarded \in triggered /\ Guarded \notin triggered' => dispatching = {}
    BY Zenon, <1>11 DEF ResetDaily, ResetDailyFails, NextDay, vars
  <2> QED BY Zenon, <1>1, <1>2, <2>1
<1>12. CASE Crash
  <2>1. OpenFor' = FALSE /\ SweepingOf' = {} /\ WritingOf' = {}
    BY Zenon, <1>12 DEF Crash, OpenFor, SweepingOf, WritingOf, Flattening, Idle
  <2> QED BY Zenon, <2>1 DEF OpenFor, SweepingOf, WritingOf, Latched!Next, Latched!Crash
<1>13. CASE Restart
  <2>1. UNCHANGED <<pc, account, writing>> /\ ~up
    BY Zenon, <1>13 DEF Restart
  <2>2. SweepingOf = {} /\ SweepingOf' = SweepingOf /\ WritingOf' = WritingOf
    BY Zenon, <2>1, SweepingFacts DEF SweepingOf, WritingOf, Flattening
  <2> QED BY Zenon, <1>1, <2>2 DEF LatchOnly
<1> QED BY Zenon, <1>1, <1>4, <1>5, <1>6, <1>7, <1>8, <1>9, <1>10, <1>11, <1>12, <1>13
        DEF Next, CheckStep

\* The breaker implements the emergency latch for every account.
THEOREM LatchRefinement == Spec => ImplementsLatch
<1>1. Init => Latched!Init
  BY GuardedAssumption, SelectorsAssumption DEF Init, Latched!Init, Flattening, Idle
<1> QED BY <1>1, LatchSimulation, Safety, PTL DEF Spec, ImplementsLatch, Latched!Spec

====
