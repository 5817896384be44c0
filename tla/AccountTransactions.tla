-------------------------- MODULE AccountTransactions --------------------------
(***************************************************************************)
(* A change of a broker account (connect, rotate, remove) as one decision   *)
(* over two stores: the credential vault with its operation ledger          *)
(* (flinttrade_gateway/account_transaction_store.py) and workspace.json     *)
(* (flinttrade_core/broker_account_workspace.py).  The coordinator          *)
(* (broker_account_transactions.py) runs it on the one lane of the          *)
(* lifecycle owner (broker_account_lifecycle.py), with a provider           *)
(* authentication, the retirement and publication of a registry session,    *)
(* and the recovery of what a crash leaves behind.                          *)
(*                                                                          *)
(* One account of an enrolled vault.  The broker domain of the workspace is *)
(* whether the account is registered, which is also its digest.  RECONNECT  *)
(* takes the path of ROTATE.  Enrolment, shutdown and the audit outbox are  *)
(* left out.                                                                *)
(***************************************************************************)
EXTENDS Naturals

CONSTANTS
    Ops,            \* operation ids
    None,           \* no operation
    MaxFaults,      \* bound: calls of a store, the workspace or the registry that raise
    MaxCrashes,     \* bound: process crashes and power losses
    MaxEdits,       \* bound: edits of the workspace outside the broker domain
    MaxForeign      \* bound: edits of the broker domain that bypass the coordinator

ASSUME OpsAssumption == None \notin Ops
ASSUME BoundsAssumption == {MaxFaults, MaxCrashes, MaxEdits, MaxForeign} \subseteq Nat

VARIABLES
    row, claim, head, cred, present,        \* the vault, durable
    ws, disk,                               \* workspace.json as read, and as a power loss leaves it
    request,                                \* what each caller asked for
    at, saved,                              \* the coordinator, and what recover() interrupted
    lane, revoked, drain, worker,           \* the lease of the lane and its workers
    fresh, old,                             \* custody of the candidate and of the retired session
    live, reads,                            \* the registry session and the read generation
    faults, crashes, edits, foreign,        \* how often each has happened
    auths, stamps                           \* dispatched authentications and workspace writes

vaultVars == <<row, claim, head, cred, present>>
fileVars == <<ws, disk>>
leaseVars == <<revoked, drain, worker, fresh, old>>
runtimeVars == <<live, reads>>
worldVars == <<crashes, edits, foreign>>
countVars == <<auths, stamps>>
vars == <<vaultVars, fileVars, request, at, saved, lane, leaseVars, runtimeVars, faults, worldVars, countVars>>

Kinds == {"CONNECT", "ROTATE", "REMOVE"}
Terminal == {"COMMITTED", "REJECTED", "AUTHENTICATION_UNKNOWN", "BLOCKED"}
Releasable == {"COMMITTED", "REJECTED"}

NoRow == [stage |-> "none", abandoned |-> "no", reason |-> "none", attempted |-> FALSE,
          conflicted |-> FALSE, epoch |-> 0]
NoRequest == [kind |-> "none", wgen |-> 0, bgen |-> 0, cred |-> 0]
NoSession == [op |-> None, cred |-> 0, bgen |-> 0]
Idle == [pc |-> "idle", op |-> None, mode |-> "mutate", reason |-> "none"]

Genesis(r) == [op |-> None, epoch |-> 0, wgen |-> 1, bgen |-> 0, before |-> r, after |-> r]

Init ==
    /\ row = [o \in Ops |-> NoRow] /\ claim = None /\ cred = 0
    /\ present \in BOOLEAN /\ head = Genesis(present)
    /\ ws = [wgen |-> 1, bgen |-> 0, reg |-> present, marker |-> head] /\ disk = ws
    /\ request = [o \in Ops |-> NoRequest]
    /\ at = Idle /\ saved = Idle /\ lane = None
    /\ revoked = FALSE /\ drain = "none" /\ worker = "none"
    /\ fresh = "none" /\ old = "none" /\ live = NoSession /\ reads = "none"
    /\ faults = 0 /\ crashes = 0 /\ edits = 0 /\ foreign = 0
    /\ auths = [o \in Ops |-> 0] /\ stamps = [o \in Ops |-> 0]

-----------------------------------------------------------------------------
(* What the two stores say *)

\* The workspace still is what its marker witnessed, apart from unrelated edits.
AssertSnapshot == ws.wgen >= ws.marker.wgen /\ ws.bgen = ws.marker.bgen /\ ws.reg = ws.marker.after

Coherent == ws.marker = head /\ AssertSnapshot

\* Nothing foreign has happened since the operation was admitted.
OriginalAuthority(o) ==
    /\ Coherent
    /\ ws.wgen >= request[o].wgen /\ ws.bgen = request[o].bgen /\ cred = request[o].cred

HasReceipt(o) == row[o].stage \in Terminal

\* _guard_original_authority lets own or committed evidence pass.
Guarded(o) == HasReceipt(o) \/ row[o].abandoned = "committed" \/ ws.marker.op = o \/ OriginalAuthority(o)

Provenance(o) ==
    /\ cred = request[o].cred
    /\ IF request[o].kind = "CONNECT" THEN ~present /\ live = NoSession ELSE present

-----------------------------------------------------------------------------
(* Calls that may raise: without effect, or after it *)

Lost == "lost"
Outcomes == {"ok"} \cup (IF faults < MaxFaults THEN {Lost, "raised"} ELSE {})
Faulted(f) == faults' = IF f = "ok" THEN faults ELSE faults + 1

\* One vault transaction that leaves the row as r.
SaveRow(o, r, f) == row' = IF f = Lost THEN row ELSE [row EXCEPT ![o] = r]

Op == at.op
Goto(p) == at' = [at EXCEPT !.pc = p] /\ UNCHANGED saved
Disposing(why) == [pc |-> "dispose", op |-> Op, mode |-> "final", reason |-> why]
Dispose(why) == at' = Disposing(why) /\ saved' = Idle

\* Where recover() resumes what it interrupted; a lease it settled ends the wait for settlement.
Resumed(kept) == IF saved.pc = "settle" /\ ~kept THEN Idle ELSE saved

\* An exception leaves the section: mutate disposes of it, a failed disposition
\* or recover() passes it on.
Raise ==
    /\ saved' = Idle
    /\ at' = IF at.mode = "mutate" \/ saved.pc = "replay" THEN Disposing("operation_failed")
             ELSE IF at.mode = "recover" THEN Resumed(TRUE) ELSE Idle

\* The durable disposition is known: settle the lease, unless the caller is gone
\* or the outcome keeps its claim.
Disposed(stage) ==
    IF stage \in Releasable /\ at.reason # "caller_cancelled"
    THEN IF saved.pc = "replay"
         THEN at' = [at EXCEPT !.pc = "settle", !.mode = "mutate"] /\ saved' = Idle
         ELSE Goto("settle")
    ELSE /\ saved' = Idle
         /\ at' = IF at.mode = "recover" /\ saved.pc # "replay" THEN Resumed(TRUE) ELSE Idle

-----------------------------------------------------------------------------
(* mutate: admission *)

\* A caller reads the current versions and forms its request.
Ask(o, k) ==
    /\ request[o] = NoRequest
    /\ request' = [request EXCEPT ![o] = [kind |-> k, wgen |-> ws.wgen, bgen |-> ws.bgen, cred |-> cred]]
    /\ UNCHANGED <<vaultVars, fileVars, at, saved, lane, leaseVars, runtimeVars, faults, worldVars, countVars>>

\* A lease of the lifecycle owner starts with nothing in its custody.
NewLease ==
    /\ revoked' = FALSE /\ drain' = "none" /\ worker' = "none"
    /\ fresh' = "none" /\ old' = "none"
BorrowLane(o) == lane' = o /\ IF lane = o THEN UNCHANGED leaseVars ELSE NewLease

\* A first call, or the replay of one that returned, was cancelled or was cut off
\* by a crash.
Mutate(o) ==
    /\ at.pc = "idle" /\ request[o] # NoRequest /\ lane \in {None, o}
    /\ \/ /\ HasReceipt(o) /\ lane = o /\ row[o].stage \in Releasable
          /\ at' = [pc |-> "settle", op |-> o, mode |-> "final", reason |-> "none"]
          /\ UNCHANGED <<saved, lane, leaseVars>>
       \/ /\ ~HasReceipt(o)
          /\ BorrowLane(o)
          /\ LET next == CASE row[o] = NoRow -> "admit"
                           [] row[o].stage = "ADMITTED" -> "retire"
                           [] OTHER -> "recover"
             IN  /\ at' = [pc |-> next, op |-> o, reason |-> "none",
                           mode |-> IF next = "recover" THEN "recover" ELSE "mutate"]
                 /\ saved' = IF next = "recover" THEN [Idle EXCEPT !.pc = "replay"] ELSE Idle
    /\ UNCHANGED <<vaultVars, fileVars, request, runtimeVars, faults, worldVars, countVars>>

\* _validate_new and AccountTransactionStore.admit; what is not admitted is dropped.
Admit ==
    /\ at.pc = "admit"
    /\ LET valid == /\ Coherent /\ ws.wgen = request[Op].wgen /\ ws.bgen = request[Op].bgen
                    /\ Provenance(Op) /\ claim = None
       IN  \E f \in Outcomes :
            /\ valid \/ f = "ok"
            /\ Faulted(f)
            /\ LET admitted == valid /\ f # Lost
               IN  /\ row' = IF admitted THEN [row EXCEPT ![Op] = [NoRow EXCEPT !.stage = "ADMITTED"]] ELSE row
                   /\ claim' = IF admitted THEN Op ELSE claim
                   /\ lane' = IF admitted THEN lane ELSE None
                   /\ IF ~admitted THEN at' = Idle /\ UNCHANGED saved
                      ELSE IF f = "ok" THEN Goto("retire") ELSE Raise
    /\ UNCHANGED <<head, cred, present, fileVars, request, leaseVars, runtimeVars, worldVars, countVars>>

-----------------------------------------------------------------------------
(* mutate: retirement, authentication and the staged plan *)

\* retire_generations_async: reads are revoked at once and drained by a retained worker.
RevokeReads ==
    /\ at.pc = "retire" /\ Goto("drain")
    /\ drain' = IF drain = "done" THEN drain ELSE "asked"
    /\ reads' = IF reads = "open" /\ drain # "done" THEN "draining" ELSE reads
    /\ UNCHANGED <<vaultVars, fileVars, request, lane, revoked, worker, fresh, old, live,
                   faults, worldVars, countVars>>

ReadsFinish ==
    /\ reads = "draining" /\ reads' = "none"
    /\ UNCHANGED <<vaultVars, fileVars, request, at, saved, lane, leaseVars, live, faults, worldVars, countVars>>

\* Mutant: an expired drain counts as a drain.
MutDrained ==
    /\ at.pc = "drain" /\ lane = Op /\ drain # "none"
    /\ drain' = "done" /\ Goto("target")
    /\ UNCHANGED <<vaultVars, fileVars, request, lane, revoked, worker, fresh, old, runtimeVars,
                   faults, worldVars, countVars>>

Drained ==
    /\ at.pc = "drain" /\ lane = Op
    /\ drain = "done" \/ (drain = "asked" /\ reads = "none")
    /\ drain' = "done" /\ Goto("target")
    /\ UNCHANGED <<vaultVars, fileVars, request, lane, revoked, worker, fresh, old, runtimeVars,
                   faults, worldVars, countVars>>

DrainTimesOut ==
    /\ at.pc = "drain" /\ lane = Op /\ drain = "asked"
    /\ revoked' = TRUE /\ Dispose("generation_drain_timeout")
    /\ UNCHANGED <<vaultVars, fileVars, request, lane, drain, worker, fresh, old, runtimeVars,
                   faults, worldVars, countVars>>

\* recover() has settled the lease while its borrower waited for the drain.
LaneLost ==
    /\ at.pc = "drain" /\ lane # Op /\ at' = Idle
    /\ UNCHANGED <<vaultVars, fileVars, request, saved, lane, leaseVars, runtimeVars, faults, worldVars, countVars>>

\* The registry entry the operation may retire.
Retirable == live = NoSession \/ (live.cred = request[Op].cred /\ live.bgen = request[Op].bgen)

\* _retire_target within publish_if_current.  A removal with an unknown outcome blocks the operation.
RetireTarget ==
    /\ at.pc = "target"
    /\ \/ /\ revoked \/ ~Retirable
          /\ Raise /\ UNCHANGED <<row, old, live, faults>>
       \/ /\ ~revoked /\ Retirable
          /\ old' = IF live = NoSession THEN old ELSE "held"
          /\ live' = NoSession
          /\ Goto("dispatch") /\ UNCHANGED <<row, faults>>
       \/ /\ ~revoked /\ Retirable /\ faults < MaxFaults /\ faults' = faults + 1
          /\ row' \in {row, [row EXCEPT ![Op].stage = "BLOCKED"]}
          /\ Raise /\ UNCHANGED <<old, live>>
    /\ UNCHANGED <<claim, head, cred, present, fileVars, request, lane, revoked, drain, worker, fresh, reads,
                   worldVars, countVars>>

\* The checks before dispatch, and run_worker: the stage is durable before the provider is called.
Dispatch ==
    /\ at.pc = "dispatch"
    /\ LET ready == Coherent /\ Provenance(Op)
           remove == request[Op].kind = "REMOVE"
           markable == claim = Op /\ row[Op].stage = "ADMITTED" /\ row[Op].abandoned = "no"
       IN  \/ Raise /\ UNCHANGED <<row, worker, faults, auths>>     \* the principal is gone, or not ready
           \/ ready /\ remove /\ Goto("stage") /\ UNCHANGED <<row, worker, faults, auths>>
           \/ /\ ready /\ ~remove /\ ~revoked /\ markable
              /\ \E f \in Outcomes :
                    /\ Faulted(f)
                    /\ SaveRow(Op, [row[Op] EXCEPT !.stage = "AUTHENTICATION_STARTED"], f)
                    /\ IF f = "ok"
                       THEN /\ worker' = "running" /\ auths' = [auths EXCEPT ![Op] = @ + 1] /\ Goto("wait")
                       ELSE worker' = "failed" /\ Raise /\ UNCHANGED auths
    /\ UNCHANGED <<claim, head, cred, present, fileVars, request, lane, revoked, drain, fresh, old,
                   runtimeVars, worldVars, stamps>>

\* The provider answers; a late session is taken into custody before the worker ends.
WorkerEnds ==
    /\ worker = "running"
    /\ \E w \in {"done", "rejected", "failed"} :
        /\ worker' = w /\ fresh' = IF w = "done" THEN "held" ELSE fresh
    /\ UNCHANGED <<vaultVars, fileVars, request, at, saved, lane, revoked, drain, old, runtimeVars,
                   faults, worldVars, countVars>>

\* store.settle refuses an operation that may have been decided.
Settleable(o) == claim = o /\ ~HasReceipt(o) /\ ~row[o].attempted /\ row[o].abandoned # "committed"

AwaitWorker ==
    /\ at.pc = "wait"
    /\ \/ worker = "done" /\ Goto("stage") /\ UNCHANGED <<row, revoked, faults>>
       \/ /\ worker = "failed" \/ worker = "done"                   \* raised, or its probe is unknown
          /\ Raise /\ UNCHANGED <<row, revoked, faults>>
       \/ /\ worker = "running" /\ revoked' = TRUE                  \* the deadline
          /\ Raise /\ UNCHANGED <<row, faults>>
       \/ /\ worker = "rejected" /\ UNCHANGED revoked
          /\ \E f \in Outcomes :
                /\ Faulted(f)
                /\ IF Settleable(Op)
                   THEN /\ SaveRow(Op, [row[Op] EXCEPT !.stage = "REJECTED"], f)
                        /\ IF f = "ok" THEN Disposed("REJECTED") ELSE Raise
                   ELSE f = "ok" /\ Raise /\ UNCHANGED row
    /\ UNCHANGED <<claim, head, cred, present, fileVars, request, lane, drain, worker, fresh, old,
                   runtimeVars, worldVars, countVars>>

StagePlan ==
    /\ at.pc = "stage"
    /\ LET expected == IF request[Op].kind = "REMOVE" THEN "ADMITTED" ELSE "AUTHENTICATION_STARTED"
           stageable == claim = Op /\ row[Op].stage = expected /\ row[Op].abandoned = "no"
       IN  \E f \in Outcomes :
            /\ stageable \/ f = "ok"
            /\ Faulted(f)
            /\ IF stageable THEN SaveRow(Op, [row[Op] EXCEPT !.stage = "PLAN_READY"], f) ELSE UNCHANGED row
            /\ IF stageable /\ f = "ok" THEN Goto("attempt") ELSE Raise
    /\ UNCHANGED <<claim, head, cred, present, fileVars, request, lane, leaseVars, runtimeVars, worldVars, countVars>>

\* The caller is cancelled at an await of mutate.
Cancel ==
    /\ at.mode = "mutate" /\ at.pc \in {"drain", "wait", "settle"} /\ lane = Op
    /\ revoked' = TRUE /\ Dispose("caller_cancelled")
    /\ UNCHANGED <<vaultVars, fileVars, request, lane, drain, worker, fresh, old, runtimeVars,
                   faults, worldVars, countVars>>

-----------------------------------------------------------------------------
(* The decision: BrokerAccountWorkspace._commit and AccountTransactionStore.apply *)

\* Mutant: recovery tries an attempted CAS again.
MutMayAttempt(o) == TRUE

\* One CAS only: an attempted one is never tried again.
MayAttempt(o) == ~row[o].attempted

Conflicted(o) == [row[o] EXCEPT !.conflicted = TRUE]

\* _guard_original_authority retains the foreign change it found.
RetainForeign(o, f) ==
    SaveRow(o, IF row[o].attempted THEN Conflicted(o)
               ELSE IF Settleable(o) THEN [row[o] EXCEPT !.stage = "BLOCKED"] ELSE row[o], f)

\* _commit up to the workspace write: for mutate inside publish_if_current, and for recovery.
MarkAttempted ==
    /\ at.pc = "attempt"
    /\ \/ /\ at.mode = "mutate"                     \* revoked, or the principal is gone
          /\ Raise /\ UNCHANGED <<row, faults>>
       \/ /\ at.mode = "recover" \/ ~revoked
          /\ \E f \in Outcomes :
                /\ Faulted(f)
                /\ CASE ~Guarded(Op) -> RetainForeign(Op, f) /\ Goto("latch")
                     [] Guarded(Op) /\ (row[Op].stage # "PLAN_READY" \/ row[Op].abandoned # "no" \/ ~Coherent) ->
                            f = "ok" /\ Goto("latch") /\ UNCHANGED row
                     [] OTHER ->
                            IF MayAttempt(Op)
                            THEN /\ SaveRow(Op, [row[Op] EXCEPT !.attempted = TRUE], f)
                                 /\ Goto(IF f = "ok" THEN "cas" ELSE "latch")
                            ELSE SaveRow(Op, Conflicted(Op), f) /\ Goto("latch")
    /\ UNCHANGED <<claim, head, cred, present, fileVars, request, lane, leaseVars, runtimeVars, worldVars, countVars>>

\* The workspace with the operation's patch and witness.  The writer picks the counters
\* against the file as read when the lock was taken: its broker domain was the marker's.
Stamped(o) ==
    LET after == request[o].kind # "REMOVE"
        bgen == IF after = ws.marker.after THEN ws.bgen ELSE ws.bgen + 1
    IN  [wgen |-> ws.wgen + 1, bgen |-> bgen, reg |-> after,
         marker |-> [op |-> o, epoch |-> ws.marker.epoch + 1, wgen |-> ws.wgen + 1, bgen |-> bgen,
                     before |-> ws.marker.after, after |-> after]]

\* The write may fail, be replaced and synchronised, or be replaced and left unsynchronised.
WriteWorkspace ==
    /\ at.pc = "cas"
    /\ stamps' = [stamps EXCEPT ![Op] = @ + 1]
    /\ \E f \in Outcomes :
        /\ Faulted(f)
        /\ ws' = IF f = Lost THEN ws ELSE Stamped(Op)
        /\ disk' = IF f = "ok" THEN Stamped(Op) ELSE disk
        /\ Goto(IF f = "ok" THEN "apply" ELSE "latch")
    /\ UNCHANGED <<vaultVars, request, lane, leaseVars, runtimeVars, worldVars, auths>>

\* Mutant: a witness that can be read counts as durable.
MutSyncVisible ==
    /\ at.pc = "sync"
    /\ LET found == AssertSnapshot /\ row[Op].stage = "PLAN_READY"
       IN  Goto(IF ~found THEN "latch" ELSE IF at.mode = "recover" THEN "apply" ELSE "abandon")
    /\ UNCHANGED <<vaultVars, fileVars, request, lane, leaseVars, runtimeVars, faults, worldVars, countVars>>

\* _commit of an operation whose witness is in the workspace: synchronise it before the vault follows.
SyncWitness ==
    /\ at.pc = "sync"
    /\ \E f \in Outcomes \ {"raised"} :
        /\ Faulted(f)
        /\ LET synced == f = "ok" /\ AssertSnapshot /\ row[Op].stage = "PLAN_READY"
           IN  /\ disk' = IF synced THEN ws ELSE disk
               /\ Goto(IF ~synced THEN "latch" ELSE IF at.mode = "recover" THEN "apply" ELSE "abandon")
    /\ UNCHANGED <<vaultVars, ws, request, lane, leaseVars, runtimeVars, worldVars, countVars>>

\* store.abandon, which only repeats itself.
Abandonable(o, how) ==
    /\ claim = o
    /\ \/ row[o].abandoned = "no" /\ (row[o].attempted <=> how = "committed")
       \/ row[o].abandoned = how /\ row[o].reason = at.reason
Abandoned(o, how) == [row[o] EXCEPT !.abandoned = how, !.reason = at.reason]

AbandonCommitted ==
    /\ at.pc = "abandon"
    /\ \E f \in Outcomes :
        /\ Faulted(f)
        /\ IF Abandonable(Op, "committed")
           THEN SaveRow(Op, Abandoned(Op, "committed"), f) /\ Goto(IF f = "ok" THEN "apply" ELSE "latch")
           ELSE f = "ok" /\ Goto("latch") /\ UNCHANGED row
    /\ UNCHANGED <<claim, head, cred, present, fileVars, request, lane, leaseVars, runtimeVars, worldVars, countVars>>

\* store.apply: credentials, receipt and head in one transaction.  An exception
\* after it is recognised by the receipt.
Apply ==
    /\ at.pc = "apply"
    /\ LET applicable == /\ claim = Op /\ row[Op].stage = "PLAN_READY" /\ row[Op].attempted
                         /\ row[Op].abandoned # "uncommitted" /\ ws.marker.op = Op
                         /\ ws.marker.epoch = head.epoch + 1 /\ ws.marker.before = head.after
                         /\ ws.marker.wgen > request[Op].wgen
                         /\ ws.marker.bgen = IF ws.marker.before = ws.marker.after THEN head.bgen ELSE head.bgen + 1
                         /\ cred = request[Op].cred
       IN  \E f \in Outcomes :
            /\ applicable \/ f = "ok"
            /\ Faulted(f)
            /\ IF applicable /\ f # Lost
               THEN /\ row' = [row EXCEPT ![Op].stage = "COMMITTED", ![Op].epoch = ws.marker.epoch]
                    /\ head' = ws.marker /\ cred' = cred + 1 /\ present' = (request[Op].kind # "REMOVE")
                    /\ IF at.mode = "mutate" THEN Goto("publish") ELSE Disposed("COMMITTED")
               ELSE /\ UNCHANGED <<row, head, cred, present>>
                    /\ IF at.mode = "mutate" THEN Raise ELSE Goto("latch")
    /\ UNCHANGED <<claim, fileVars, request, lane, leaseVars, runtimeVars, worldVars, countVars>>

-----------------------------------------------------------------------------
(* mutate: publication *)

\* _publish under with_current_authority.  The registry may raise before or after it published.
Publish ==
    /\ at.pc = "publish"
    /\ LET remove == request[Op].kind = "REMOVE"
           current == Coherent /\ row[Op].stage = "COMMITTED" /\ row[Op].abandoned = "no" /\ ~row[Op].conflicted
           session == [op |-> Op, cred |-> cred, bgen |-> ws.bgen]
       IN  \/ Raise /\ UNCHANGED <<row, fresh, live, faults>>       \* the principal is gone, or nothing is published
           \/ remove /\ live = NoSession /\ Goto("rebuild") /\ UNCHANGED <<row, fresh, live, faults>>
           \/ /\ ~remove /\ ~Coherent                               \* _committed_coherent fences the head
              /\ \E f \in Outcomes : Faulted(f) /\ SaveRow(Op, Conflicted(Op), f)
              /\ Raise /\ UNCHANGED <<fresh, live>>
           \/ /\ ~remove /\ current /\ fresh = "held"
              /\ live' = session /\ fresh' = "none" /\ UNCHANGED row
              /\ \E f \in Outcomes \ {Lost} : Faulted(f) /\ IF f = "ok" THEN Goto("rebuild") ELSE Raise
    /\ UNCHANGED <<claim, head, cred, present, fileVars, request, lane, revoked, drain, worker, old, reads,
                   worldVars, countVars>>

\* BrokerAccountReadRuntime.rebuild exposes a current session for reading.
Rebuild ==
    /\ at.pc = "rebuild"
    /\ \/ /\ reads # "none" \/ ~Coherent
          /\ Raise /\ UNCHANGED <<reads, faults>>
       \/ /\ faults < MaxFaults /\ faults' = faults + 1
          /\ Raise /\ UNCHANGED reads
       \/ /\ reads = "none" /\ Coherent /\ UNCHANGED faults
          /\ reads' = IF live # NoSession /\ live.cred = cred /\ live.bgen = ws.bgen THEN "open" ELSE reads
          /\ Disposed("COMMITTED")
    /\ UNCHANGED <<vaultVars, fileVars, request, lane, leaseVars, live, worldVars, countVars>>

-----------------------------------------------------------------------------
(* Disposition and recovery from what the two stores say *)

\* BrokerAccountWorkspace.abandon, up to its first write.
DisposeOperation ==
    /\ at.pc = "dispose"
    /\ revoked' = TRUE
    /\ \E f \in Outcomes :
        /\ Faulted(f)
        /\ CASE HasReceipt(Op) ->
                  IF row[Op].stage = "COMMITTED" /\ row[Op].abandoned = "no" /\ claim = Op
                  THEN /\ SaveRow(Op, Abandoned(Op, "committed"), f)
                       /\ IF f = "ok" THEN Disposed(row[Op].stage) ELSE Goto("latch")
                  ELSE f = "ok" /\ Disposed(row[Op].stage) /\ UNCHANGED row
             [] ~HasReceipt(Op) /\ AssertSnapshot /\ ws.marker.op = Op ->
                  f = "ok" /\ Goto("sync") /\ UNCHANGED row
             [] ~HasReceipt(Op) /\ AssertSnapshot /\ ws.marker.op # Op /\ row[Op].attempted ->
                  SaveRow(Op, Conflicted(Op), f) /\ Goto("latch")
             [] ~HasReceipt(Op) /\ Coherent /\ ws.marker.op # Op /\ ~row[Op].attempted
                  /\ Abandonable(Op, "uncommitted") ->
                  SaveRow(Op, Abandoned(Op, "uncommitted"), f) /\ Goto(IF f = "ok" THEN "reject" ELSE "latch")
             [] OTHER -> f = "ok" /\ Goto("latch") /\ UNCHANGED row
    /\ UNCHANGED <<claim, head, cred, present, fileVars, request, lane, drain, worker, fresh, old,
                   runtimeVars, worldVars, countVars>>

\* store.settle of an operation that was not decided.
RejectOperation ==
    /\ at.pc = "reject"
    /\ LET stage == IF row[Op].stage = "AUTHENTICATION_STARTED" THEN "AUTHENTICATION_UNKNOWN" ELSE "REJECTED"
       IN  \E f \in Outcomes :
            /\ Faulted(f)
            /\ IF Settleable(Op)
               THEN /\ SaveRow(Op, [row[Op] EXCEPT !.stage = stage], f)
                    /\ IF f = "ok" THEN Disposed(stage) ELSE Goto("latch")
               ELSE f = "ok" /\ Goto("latch") /\ UNCHANGED row
    /\ UNCHANGED <<claim, head, cred, present, fileVars, request, lane, leaseVars, runtimeVars, worldVars, countVars>>

\* recover(): at start-up, or later, also while a borrower awaits.
BeginRecovery ==
    /\ at.pc = "idle" \/ (at.pc \in {"drain", "wait", "settle"} /\ at.mode # "recover")
    /\ claim # None /\ lane \in {None, claim}
    /\ BorrowLane(claim)
    /\ saved' = at
    /\ at' = [pc |-> "recover", op |-> claim, mode |-> "recover", reason |-> "none"]
    /\ UNCHANGED <<vaultVars, fileVars, request, runtimeVars, faults, worldVars, countVars>>

\* recover() without a claim only fences a head that the workspace no longer shows.
RecoverIdle ==
    /\ at.pc = "idle" /\ claim = None /\ ~Coherent /\ head.op # None
    /\ row' = [row EXCEPT ![head.op] = Conflicted(head.op)]
    /\ UNCHANGED <<claim, head, cred, present, fileVars, request, at, saved, lane, leaseVars, runtimeVars,
                   faults, worldVars, countVars>>

\* BrokerAccountWorkspace.recover, up to its first write.
RecoverOperation ==
    /\ at.pc = "recover"
    /\ \E f \in Outcomes :
        /\ Faulted(f)
        /\ CASE HasReceipt(Op) ->
                  /\ f = "ok" /\ UNCHANGED row
                  /\ IF Coherent THEN Disposed(row[Op].stage) ELSE Goto("latch")
             [] ~Guarded(Op) -> RetainForeign(Op, f) /\ Goto("latch")
             [] Guarded(Op) /\ ~HasReceipt(Op) ->
                  /\ f = "ok" /\ UNCHANGED row
                  /\ IF row[Op].stage = "PLAN_READY" /\ ws.marker # head THEN Goto("sync")
                     ELSE IF ~Coherent \/ cred # request[Op].cred THEN Goto("latch")
                     ELSE IF row[Op].abandoned # "no" \/ row[Op].stage = "AUTHENTICATION_STARTED" THEN Goto("reject")
                     ELSE IF row[Op].stage = "ADMITTED" THEN Disposed("ADMITTED")
                     ELSE Goto("attempt")
    /\ UNCHANGED <<claim, head, cred, present, fileVars, request, lane, leaseVars, runtimeVars, worldVars, countVars>>

\* _operation_locked: an exception latches the uncertainty of an attempted write.
LatchConflict ==
    /\ at.pc = "latch"
    /\ LET uncertain == row[Op].attempted /\ row[Op].stage \in {"PLAN_READY", "COMMITTED"}
       IN  \E f \in IF uncertain THEN Outcomes ELSE {"ok"} :
            /\ Faulted(f)
            /\ IF uncertain THEN SaveRow(Op, Conflicted(Op), f) ELSE UNCHANGED row
            /\ Raise
    /\ UNCHANGED <<claim, head, cred, present, fileVars, request, lane, leaseVars, runtimeVars, worldVars, countVars>>

-----------------------------------------------------------------------------
(* Settlement: custody is cleaned before the claim and the lane are released *)

Quiet == drain # "asked" /\ worker # "running"
\* Mutant: the candidate is not waited for.
MutClean == old = "none"

Clean == fresh = "none" /\ old = "none"

\* lifecycle.settle revokes publication and starts the cleanup of what is not live.
StartCleanup ==
    /\ at.pc = "settle" /\ lane = Op /\ Quiet /\ "held" \in {fresh, old}
    /\ revoked' = TRUE
    /\ fresh' = IF fresh = "held" THEN "cleaning" ELSE fresh
    /\ old' = IF old = "held" THEN "cleaning" ELSE old
    /\ UNCHANGED <<vaultVars, fileVars, request, at, saved, lane, drain, worker, runtimeVars,
                   faults, worldVars, countVars>>

CleanupEnds ==
    /\ \E s \in {"none", "held"} :
        \/ fresh = "cleaning" /\ fresh' = s /\ UNCHANGED old
        \/ old = "cleaning" /\ old' = s /\ UNCHANGED fresh
    /\ UNCHANGED <<vaultVars, fileVars, request, at, saved, lane, revoked, drain, worker, runtimeVars,
                   faults, worldVars, countVars>>

\* _settle retries a drain that had expired.
RetryDrain ==
    /\ at.pc = "settle" /\ drain = "asked" /\ reads = "none" /\ drain' = "done"
    /\ UNCHANGED <<vaultVars, fileVars, request, at, saved, lane, revoked, worker, fresh, old, runtimeVars,
                   faults, worldVars, countVars>>

\* The durable claim goes first, the lane after it.
ReleaseClaim ==
    /\ at.pc = "settle" /\ lane = Op /\ Quiet /\ Clean
    /\ \E f \in Outcomes :
        /\ Faulted(f)
        /\ claim' = IF f = Lost THEN claim ELSE None
        /\ IF f = "ok"
           THEN lane' = None /\ at' = (IF at.mode = "recover" THEN Resumed(FALSE) ELSE Idle) /\ saved' = Idle /\ NewLease
           ELSE lane' = lane /\ Raise /\ revoked' = TRUE /\ UNCHANGED <<drain, worker, fresh, old>>
    /\ UNCHANGED <<row, head, cred, present, fileVars, request, runtimeVars, worldVars, countVars>>

\* The deadline passes, or recover() does not wait.
GiveUp ==
    /\ at.pc = "settle" /\ (~Quiet \/ "cleaning" \in {fresh, old})
    /\ revoked' = TRUE /\ saved' = Idle
    /\ at' = IF at.mode = "recover" THEN Resumed(TRUE) ELSE Idle
    /\ UNCHANGED <<vaultVars, fileVars, request, lane, drain, worker, fresh, old, runtimeVars,
                   faults, worldVars, countVars>>

-----------------------------------------------------------------------------
(* The rest of the world *)

\* The workspace's process lock is held across these steps.
LockHeld == at.pc \in {"cas", "sync", "abandon", "reject"} \/ (at.pc \in {"attempt", "apply"} /\ at.mode # "mutate")

\* A writer outside the account owner may not touch the marker or the broker domain.
EditWorkspace ==
    /\ edits < MaxEdits /\ edits' = edits + 1 /\ ~LockHeld
    /\ ws' = [ws EXCEPT !.wgen = @ + 1]
    /\ disk' \in {ws', disk}
    /\ UNCHANGED <<vaultVars, request, at, saved, lane, leaseVars, runtimeVars, faults, crashes, foreign, countVars>>

\* The file is edited by hand.
EditBrokerDomain ==
    /\ foreign < MaxForeign /\ foreign' = foreign + 1
    /\ ws' = [ws EXCEPT !.reg = ~@] /\ disk' = ws'
    /\ UNCHANGED <<vaultVars, request, at, saved, lane, leaseVars, runtimeVars, faults, crashes, edits, countVars>>

\* A crash of the process, or a loss of power that takes unsynchronised replacements with it.
Crash ==
    /\ crashes < MaxCrashes /\ crashes' = crashes + 1
    /\ ws' \in {ws, disk}
    /\ at' = Idle /\ saved' = Idle /\ lane' = None /\ NewLease /\ live' = NoSession /\ reads' = "none"
    /\ UNCHANGED <<vaultVars, disk, request, faults, edits, foreign, countVars>>

Step ==
    \/ Admit \/ RevokeReads \/ Drained \/ DrainTimesOut \/ LaneLost \/ RetireTarget \/ Dispatch \/ AwaitWorker
    \/ StagePlan \/ Cancel \/ MarkAttempted \/ WriteWorkspace \/ SyncWitness \/ AbandonCommitted \/ Apply
    \/ Publish \/ Rebuild \/ DisposeOperation \/ RejectOperation \/ RecoverOperation \/ LatchConflict
    \/ StartCleanup \/ RetryDrain \/ ReleaseClaim \/ GiveUp

Next ==
    \/ \E o \in Ops : Mutate(o) \/ \E k \in Kinds : Ask(o, k)
    \/ Step \/ BeginRecovery \/ RecoverIdle
    \/ ReadsFinish \/ WorkerEnds \/ CleanupEnds \/ EditWorkspace \/ EditBrokerDomain \/ Crash

Spec == Init /\ [][Next]_vars

-----------------------------------------------------------------------------
(* Properties *)

\* The two stores decide alike.  An operation whose receipt denies it has no
\* witness in the workspace, and the vault's head never runs ahead of the
\* workspace that would survive a power loss.
StoresAgree ==
    /\ \A o \in Ops : row[o].stage \in Terminal \ {"COMMITTED"} => o \notin {ws.marker.op, disk.marker.op}
    /\ head.epoch <= disk.marker.epoch

\* Whatever is replayed, recovered or lost, an operation calls the provider at
\* most once and writes the workspace at most once.
OncePerOperation == \A o \in Ops : auths[o] <= 1 /\ stamps[o] <= 1

\* A free claim admits the next operation: nothing of the last one is running,
\* unclean or undecided.
FreeClaimIsQuiet ==
    claim = None =>
        /\ worker # "running" /\ fresh = "none" /\ old = "none"
        /\ ws.marker = head
        /\ foreign = 0 => (ws.reg <=> present)

\* A session in the registry carries the vault's current credential and domain
\* and its payload is in nobody's cleanup; it is not removed under its readers.
LiveSessionIsCurrent ==
    /\ live # NoSession => live.cred = cred /\ live.bgen = head.bgen /\ (live.op = lane => fresh = "none")
    /\ reads # "none" => live # NoSession

====
