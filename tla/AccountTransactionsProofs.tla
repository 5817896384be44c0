----------------------- MODULE AccountTransactionsProofs -----------------------
(***************************************************************************)
(* Proofs about AccountTransactions.tla, for any number of operations and   *)
(* any bounds on faults, crashes and edits: the invariants of its run.      *)
(***************************************************************************)
EXTENDS AccountTransactions, TLAPS

Open == {"ADMITTED", "AUTHENTICATION_STARTED", "PLAN_READY"}
Denied == Terminal \ {"COMMITTED"}
Stages == {"none"} \cup Open \cup Terminal

Reasons == {"none", "operation_failed", "generation_drain_timeout", "caller_cancelled"}
Awaits == {"drain", "wait", "settle"}
Pcs == {"idle", "admit", "retire", "drain", "target", "dispatch", "wait", "stage", "attempt", "cas", "sync",
        "abandon", "apply", "publish", "rebuild", "dispose", "reject", "recover", "latch", "settle"}
MutatePcs == {"admit", "retire", "drain", "target", "dispatch", "wait", "stage", "publish", "rebuild"}

Rows == [stage : Stages, abandoned : {"no", "committed", "uncommitted"}, reason : Reasons,
         attempted : BOOLEAN, conflicted : BOOLEAN, epoch : Nat]
Requests == {NoRequest} \cup [kind : Kinds, wgen : Nat, bgen : Nat, cred : Nat]
Markers == [op : Ops \cup {None}, epoch : Nat, wgen : Nat, bgen : Nat, before : BOOLEAN, after : BOOLEAN]
Files == [wgen : Nat, bgen : Nat, reg : BOOLEAN, marker : Markers]
Modes == {"mutate", "final", "recover"}
Sections == [pc : Pcs, op : Ops \cup {None}, mode : Modes, reason : Reasons]
Frames == [pc : Awaits \cup {"idle", "replay"}, op : Ops \cup {None}, mode : Modes, reason : Reasons]

VaultType ==
    /\ row \in [Ops -> Rows] /\ claim \in Ops \cup {None} /\ head \in Markers
    /\ cred \in Nat /\ present \in BOOLEAN
FileType == ws \in Files /\ disk \in Files
SectionType ==
    /\ request \in [Ops -> Requests]
    /\ at \in Sections /\ saved \in Frames
    /\ lane \in Ops \cup {None}
LeaseType ==
    /\ revoked \in BOOLEAN /\ drain \in {"none", "asked", "done"}
    /\ worker \in {"none", "running", "done", "rejected", "failed"}
    /\ {fresh, old} \subseteq {"none", "held", "cleaning"}
    /\ live \in [op : Ops \cup {None}, cred : Nat, bgen : Nat] /\ reads \in {"none", "open", "draining"}
CountType ==
    /\ foreign \in Nat
    /\ auths \in [Ops -> Nat] /\ stamps \in [Ops -> Nat]
TypeInv == VaultType /\ FileType /\ SectionType /\ LeaseType /\ CountType

\* Where the coordinator is, and what a nested recover() returns to.
ControlInv ==
    /\ at.pc # "idle" => at.op \in Ops
    /\ at.pc = "idle" => at = Idle
    /\ at.mode # "recover" => saved = Idle
    /\ at.pc \in MutatePcs => at.mode = "mutate"
    /\ at.pc = "dispose" => at.mode = "final"
    /\ at.pc = "recover" => at.mode = "recover"
    /\ at.pc = "settle" => ~(at.mode = "recover" /\ saved.pc = "replay")
    /\ saved.pc = "idle" => saved = Idle
    /\ saved.pc \in Awaits => saved.op = at.op /\ saved.mode # "recover"
    /\ saved.pc \in {"drain", "wait"} => saved.mode = "mutate"

\* The claim and the lane are the section's.
ClaimInv ==
    /\ \A o \in Ops : row[o].stage \in Open => claim = o
    /\ claim # None => row[claim].stage # "none"
    /\ at.pc \notin {"idle", "admit"} => claim \in {None, at.op} /\ row[at.op].stage # "none"
    /\ at.pc = "admit" => row[at.op] = NoRow /\ request[at.op] # NoRequest
    /\ at.pc \notin {"idle", "drain"} => lane = at.op
    /\ at.pc = "drain" => lane \in {None, at.op}
    /\ lane # None /\ at.pc # "admit" =>
            /\ row[lane].stage # "none"
            /\ claim = lane \/ (claim = None /\ revoked)
    /\ at.mode = "recover" => claim = at.op

\* What the stage of an operation says about it.
RowOf(o) ==
    /\ row[o].stage = "none" => row[o] = NoRow
    /\ row[o].stage # "none" => request[o] # NoRequest
    /\ row[o].attempted => row[o].stage \in {"PLAN_READY", "COMMITTED"}
    /\ auths[o] <= 1 /\ (row[o].stage \in {"none", "ADMITTED"} => auths[o] = 0)
    /\ stamps[o] <= 1 /\ (~row[o].attempted => stamps[o] = 0)
RowInv == \A o \in Ops : RowOf(o)

\* The stages an operation may be in where the section is, or will resume.
StageAt(pc, s) ==
    /\ pc \in {"retire", "drain", "target", "dispatch"} => s \in {"ADMITTED"} \cup Denied
    /\ pc = "wait" => s \in {"AUTHENTICATION_STARTED", "AUTHENTICATION_UNKNOWN", "BLOCKED"}
    /\ pc = "stage" => s \in {"ADMITTED", "AUTHENTICATION_STARTED"} \cup Denied
    /\ pc = "cas" => s = "PLAN_READY"
    /\ pc \in {"publish", "rebuild"} => s = "COMMITTED"
    /\ pc = "settle" => s \in Releasable
StageInv ==
    /\ at.pc # "idle" => StageAt(at.pc, row[at.op].stage)
    /\ saved.pc \in Awaits => StageAt(saved.pc, row[at.op].stage)
    /\ at.pc = "cas" => row[at.op].attempted /\ stamps[at.op] = 0

\* A workspace carries the vault's head, or the witness of the operation being decided.
FileOf(f) ==
    /\ \/ f.marker = head
       \/ /\ f.marker.op \in Ops /\ row[f.marker.op].stage = "PLAN_READY" /\ row[f.marker.op].attempted
          /\ f.marker.after = (request[f.marker.op].kind # "REMOVE")
    /\ head.epoch <= f.marker.epoch
    /\ foreign = 0 => f.reg = f.marker.after
FileInv ==
    /\ FileOf(ws) /\ FileOf(disk)
    /\ head.after = present
    /\ head.op # None => row[head.op].stage = "COMMITTED" /\ row[head.op].attempted
    /\ at.pc \in {"apply", "abandon"} => disk.marker = ws.marker
    /\ at.pc = "cas" => ws.marker = head /\ disk.marker = head

\* Custody, the registry and its readers.
CustodyInv ==
    /\ \A o \in Ops : row[o].stage = "ADMITTED" => fresh = "none" /\ worker # "running"
    /\ worker = "running" => fresh = "none" /\ live = NoSession
    /\ fresh # "none" => live = NoSession
    /\ claim = None => worker # "running" /\ fresh = "none" /\ old = "none"
SessionInv ==
    /\ live # NoSession => live.cred = cred /\ live.bgen = head.bgen
    /\ \A o \in Ops : row[o].stage \in {"AUTHENTICATION_STARTED", "PLAN_READY"} => live = NoSession
    /\ at.pc \in {"dispatch", "wait", "stage"} \/ saved.pc = "wait" => live = NoSession
    /\ reads # "none" => live # NoSession
    /\ lane # None /\ drain = "done" /\ row[lane].stage # "COMMITTED" => reads = "none"
    /\ at.pc = "target" => drain = "done"

-----------------------------------------------------------------------------
(* How a step moves the section *)

\* An exception of mutate goes to its disposition.
Fails == at'.pc = "dispose" /\ at'.op = at.op /\ at'.mode = "final" /\ saved' = Idle
\* recover() returns to what it interrupted.
Returns == at.mode = "recover" /\ saved.pc # "replay" /\ at' = saved /\ saved' = Idle
Ends == at' = Idle /\ saved' = Idle
\* The section goes on, where the operation's stage allows it to be.
Onward ==
    /\ at'.op = at.op /\ at'.mode = at.mode /\ saved' = saved
    /\ at'.pc \notin {"idle", "admit", "dispose", "recover"}
    /\ at'.pc \in MutatePcs => at.mode = "mutate"
    /\ at'.pc = "settle" => ~(at.mode = "recover" /\ saved.pc = "replay")
    /\ StageAt(at'.pc, row'[at.op].stage)
    /\ at'.pc = "cas" => row'[at.op].attempted /\ stamps'[at.op] = 0
\* A replay that recovery has decided settles as mutate.
Settles == at'.pc = "settle" /\ at'.op = at.op /\ at'.mode = "mutate" /\ saved' = Idle /\ row'[at.op].stage \in Releasable
SectionMove ==
    /\ at.pc # "idle" /\ at' \in Sections /\ saved' \in Frames
    /\ Fails \/ Returns \/ Ends \/ Onward \/ Settles

LEMMA IdleSection == Idle \in Sections /\ Idle \in Frames /\ Idle.pc = "idle" /\ Idle.op = None /\ Idle.mode = "mutate"
BY Zenon DEF Idle, Sections, Frames, Pcs, Modes, Reasons

LEMMA GotoEffect ==
    ASSUME at \in Sections, NEW p \in Pcs, Goto(p)
    PROVE  /\ at' \in Sections /\ at'.pc = p /\ at'.op = at.op /\ at'.mode = at.mode /\ at'.reason = at.reason
           /\ saved' = saved
BY Zenon DEF Goto, Sections

LEMMA RaiseEffect ==
    ASSUME at \in Sections, saved \in Frames, ControlInv, at.pc # "idle", Raise
    PROVE  at' \in Sections /\ saved' \in Frames /\ (Fails \/ Returns \/ Ends)
<1>1. Disposing("operation_failed") \in Sections
  BY Zenon DEF Disposing, Op, Sections, Pcs, Modes, Reasons
<1>2. CASE at' = Disposing("operation_failed") /\ saved' = Idle
  BY Zenon, <1>1, <1>2, IdleSection DEF Disposing, Op, Fails
<1>3. CASE at.mode = "recover" /\ saved.pc # "replay" /\ at' = Resumed(TRUE) /\ saved' = Idle
  <2>1. at' = saved
    BY Zenon, <1>3 DEF Resumed
  <2>2. saved \in Sections
    BY Zenon, <1>3 DEF Sections, Frames, Awaits, Pcs
  <2> QED
    BY Zenon, <1>3, <2>1, <2>2, IdleSection DEF Returns
<1>4. CASE at' = Idle /\ saved' = Idle
  BY Zenon, <1>4, IdleSection DEF Ends
<1> QED
  BY Zenon, <1>2, <1>3, <1>4 DEF Raise

LEMMA DisposedEffect ==
    ASSUME at \in Sections, saved \in Frames, ControlInv, at.pc # "idle", NEW stage, Disposed(stage)
    PROVE  /\ at' \in Sections /\ saved' \in Frames
           /\ \/ Returns \/ Ends
              \/ /\ stage \in Releasable /\ at'.pc = "settle" /\ at'.op = at.op
                 /\ \/ at'.mode = "mutate" /\ saved' = Idle
                    \/ at'.mode = at.mode /\ saved' = saved /\ saved.pc # "replay"
<1>1. CASE stage \in Releasable /\ saved.pc = "replay" /\ at' = [at EXCEPT !.pc = "settle", !.mode = "mutate"] /\ saved' = Idle
  BY Zenon, <1>1, IdleSection DEF Sections, Pcs, Modes
<1>2. CASE stage \in Releasable /\ saved.pc # "replay" /\ Goto("settle")
  BY Zenon, <1>2, GotoEffect DEF Pcs
<1>3. CASE at.mode = "recover" /\ saved.pc # "replay" /\ at' = Resumed(TRUE) /\ saved' = Idle
  <2>1. at' = saved
    BY Zenon, <1>3 DEF Resumed
  <2>2. saved \in Sections
    BY Zenon, <1>3 DEF Sections, Frames, Awaits, Pcs
  <2> QED
    BY Zenon, <1>3, <2>1, <2>2, IdleSection DEF Returns
<1>4. CASE at' = Idle /\ saved' = Idle
  BY Zenon, <1>4, IdleSection DEF Ends
<1> QED
  BY Zenon, <1>1, <1>2, <1>3, <1>4 DEF Disposed

-----------------------------------------------------------------------------
(* How a step moves an operation's row *)

\* The stage only advances, and attempted is set once, on a staged plan.
RowMove(o) ==
    \/ row'[o] = row[o]
    \/ row[o].stage # "none" /\ row'[o].stage = row[o].stage /\ row'[o].attempted = row[o].attempted
    \/ /\ ~row[o].attempted /\ ~row'[o].attempted
       /\ \/ /\ at.pc = "admit" /\ o = at.op /\ row[o] = NoRow /\ row'[o].stage = "ADMITTED"
             /\ claim = None /\ claim' = o
          \/ /\ at.pc = "dispatch" /\ row[o].stage = "ADMITTED" /\ row'[o].stage = "AUTHENTICATION_STARTED"
          \/ /\ at.pc = "stage" /\ row[o].stage \in {"ADMITTED", "AUTHENTICATION_STARTED"}
             /\ row'[o].stage = "PLAN_READY"
          \/ /\ row[o].stage \in Open \cup Denied /\ row'[o].stage \in Denied
             /\ at.mode = "recover" =>
                    /\ row[o].stage \in Open
                    /\ row[o].stage = "AUTHENTICATION_STARTED" => row'[o].stage # "REJECTED"
    \/ row[o].stage = "PLAN_READY" /\ row'[o].stage = "PLAN_READY" /\ row'[o].attempted
    \/ /\ at.pc = "apply" /\ o = at.op /\ row[o].attempted /\ row'[o].attempted
       /\ row[o].stage = "PLAN_READY" /\ row'[o].stage = "COMMITTED"
RowsMove == row' \in [Ops -> Rows] /\ \A o \in Ops : RowMove(o)

LEMMA RowsStay ==
    ASSUME row \in [Ops -> Rows], UNCHANGED row
    PROVE  RowsMove
BY Zenon DEF RowsMove, RowMove

\* What a row saved with an outcome is.
LEMMA SaveRowEffect ==
    ASSUME row \in [Ops -> Rows], NEW o \in Ops, NEW r \in Rows, NEW f, SaveRow(o, r, f)
    PROVE  /\ row' \in [Ops -> Rows]
           /\ \A p \in Ops : row'[p] = row[p] \/ (p = o /\ row'[p] = r)
           /\ f # Lost => row'[o] = r
BY Zenon DEF SaveRow

LEMMA ConflictedMoves ==
    ASSUME row \in [Ops -> Rows], NEW o \in Ops, row[o].stage # "none", NEW f, SaveRow(o, Conflicted(o), f)
    PROVE  RowsMove /\ row'[o].stage = row[o].stage
<1>1. /\ Conflicted(o) \in Rows /\ Conflicted(o).stage = row[o].stage /\ Conflicted(o).attempted = row[o].attempted
  BY Zenon DEF Conflicted, Rows
<1> QED
  BY Zenon, <1>1, SaveRowEffect DEF RowsMove, RowMove

LEMMA AbandonedMoves ==
    ASSUME row \in [Ops -> Rows], at \in Sections, NEW o \in Ops, row[o].stage # "none",
           NEW how \in {"committed", "uncommitted"}, NEW f, SaveRow(o, Abandoned(o, how), f)
    PROVE  RowsMove /\ row'[o].stage = row[o].stage
<1>1. /\ Abandoned(o, how) \in Rows /\ Abandoned(o, how).stage = row[o].stage
      /\ Abandoned(o, how).attempted = row[o].attempted
  BY Zenon DEF Abandoned, Rows, Sections
<1>2. /\ row' \in [Ops -> Rows]
      /\ \A p \in Ops : row'[p] = row[p] \/ (p = o /\ row'[p] = Abandoned(o, how))
  BY Zenon, <1>1 DEF SaveRow
<1> QED
  BY Zenon, <1>1, <1>2 DEF RowsMove, RowMove

\* An operation that was not attempted is denied.
LEMMA DeniedMoves ==
    ASSUME row \in [Ops -> Rows], NEW o \in Ops, row[o].stage # "none", Settleable(o),
           NEW s \in Denied, s = "REJECTED" /\ row[o].stage = "AUTHENTICATION_STARTED" => at.mode # "recover",
           NEW f, SaveRow(o, [row[o] EXCEPT !.stage = s], f)
    PROVE  RowsMove /\ (f # Lost => row'[o].stage = s)
<1> DEFINE r == [row[o] EXCEPT !.stage = s]
<1>1. r \in Rows /\ r.stage = s /\ r.attempted = row[o].attempted
  BY Zenon DEF Rows, Stages, Denied
<1>2. ~row[o].attempted /\ row[o].stage \in Open
  BY Zenon DEF Rows, Stages, Settleable, HasReceipt
<1> HIDE DEF r
<1>3. SaveRow(o, r, f)
  BY Zenon DEF r
<1>4. /\ row' \in [Ops -> Rows] /\ (f # Lost => row'[o] = r)
      /\ \A p \in Ops : row'[p] = row[p] \/ (p = o /\ row'[p] = r)
  BY Zenon, <1>1, <1>3 DEF SaveRow
<1>5. row'[o] = r => RowMove(o)
  BY Zenon, <1>1, <1>2 DEF RowMove
<1> QED
  BY Zenon, <1>1, <1>4, <1>5 DEF RowsMove, RowMove

LEMMA RetainMoves ==
    ASSUME row \in [Ops -> Rows], NEW o \in Ops, row[o].stage # "none", NEW f, RetainForeign(o, f)
    PROVE  RowsMove
<1>1. CASE SaveRow(o, Conflicted(o), f)
  BY Zenon, <1>1, ConflictedMoves
<1>2. CASE Settleable(o) /\ SaveRow(o, [row[o] EXCEPT !.stage = "BLOCKED"], f)
  <2>1. "BLOCKED" \in Denied /\ "BLOCKED" # "REJECTED"
    BY Zenon DEF Denied, Terminal
  <2> QED
    BY Zenon, <1>2, <2>1, DeniedMoves
<1>3. CASE SaveRow(o, row[o], f)
  <2>1. row' = row
    BY Zenon, <1>3 DEF SaveRow
  <2> QED
    BY Zenon, <2>1, RowsStay
<1> QED
  BY Zenon, <1>1, <1>2, <1>3 DEF RetainForeign

-----------------------------------------------------------------------------
(* Each step of the coordinator is a move of the section and of one row *)

LEMMA SectionFacts ==
    ASSUME TypeInv, ControlInv, ClaimInv, at.pc \notin {"idle", "admit"}
    PROVE  /\ at \in Sections /\ saved \in Frames /\ row \in [Ops -> Rows]
           /\ at.op \in Ops /\ row[at.op] \in Rows /\ row[at.op].stage # "none"
<1>1. at \in Sections /\ saved \in Frames /\ row \in [Ops -> Rows] /\ at.op \in Ops /\ row[at.op].stage # "none"
  BY Zenon DEF TypeInv, VaultType, SectionType, ControlInv, ClaimInv
<1> QED
  BY Zenon, <1>1

LEMMA OnwardTo ==
    ASSUME at \in Sections, saved \in Frames, at.pc # "idle", NEW p \in Pcs, Goto(p),
           p \notin {"idle", "admit", "dispose", "recover"}, p \in MutatePcs => at.mode = "mutate",
           p = "settle" => ~(at.mode = "recover" /\ saved.pc = "replay"),
           StageAt(p, row'[at.op].stage), p = "cas" => row'[at.op].attempted /\ stamps'[at.op] = 0
    PROVE  SectionMove
<1>1. /\ at' \in Sections /\ at'.pc = p /\ at'.op = at.op /\ at'.mode = at.mode /\ saved' = saved
  BY Zenon, GotoEffect
<1> QED
  BY Zenon, <1>1 DEF SectionMove, Onward

LEMMA RaiseMove ==
    ASSUME at \in Sections, saved \in Frames, ControlInv, at.pc # "idle", Raise
    PROVE  SectionMove
BY Zenon, RaiseEffect DEF SectionMove

LEMMA DisposedMove ==
    ASSUME at \in Sections, saved \in Frames, ControlInv, at.pc # "idle",
           NEW stage, Disposed(stage), row'[at.op].stage = stage
    PROVE  SectionMove
<1>1. StageAt("settle", stage) \/ stage \notin Releasable
  BY Zenon DEF StageAt
<1> QED
  BY Zenon, <1>1, DisposedEffect DEF SectionMove, Settles, Onward, MutatePcs

LEMMA StageAtMost == \A p, s : p \in {"latch", "sync", "apply", "abandon", "reject", "attempt", "idle"} => StageAt(p, s)
BY Zenon DEF StageAt

LEMMA AdmitMoves ==
    ASSUME TypeInv, ControlInv, ClaimInv, Admit
    PROVE  SectionMove /\ RowsMove
<1>0. /\ at \in Sections /\ saved \in Frames /\ row \in [Ops -> Rows] /\ at.pc = "admit" /\ at.op \in Ops
      /\ row[at.op] = NoRow /\ at.mode = "mutate" /\ saved = Idle
  BY Zenon DEF TypeInv, VaultType, SectionType, ControlInv, ClaimInv, Admit, MutatePcs
<1>1. PICK f \in Outcomes :
        \/ row' = row /\ at' = Idle /\ UNCHANGED saved
        \/ /\ row' = [row EXCEPT ![at.op] = [NoRow EXCEPT !.stage = "ADMITTED"]]
           /\ claim = None /\ claim' = at.op /\ (Goto("retire") \/ Raise)
  BY Zenon DEF Admit, Op
<1>2. CASE row' = row /\ at' = Idle /\ UNCHANGED saved
  BY Zenon, <1>0, <1>2, RowsStay, IdleSection DEF SectionMove, Ends
<1>3. CASE /\ row' = [row EXCEPT ![at.op] = [NoRow EXCEPT !.stage = "ADMITTED"]]
           /\ claim = None /\ claim' = at.op /\ (Goto("retire") \/ Raise)
  <2>1. /\ row' \in [Ops -> Rows] /\ row'[at.op].stage = "ADMITTED" /\ ~row'[at.op].attempted /\ ~row[at.op].attempted
        /\ \A p \in Ops : p = at.op \/ row'[p] = row[p]
    <3>1. [NoRow EXCEPT !.stage = "ADMITTED"] \in Rows /\ ~NoRow.attempted
      BY Zenon DEF NoRow, Rows, Stages, Open, Reasons
    <3> QED
      BY Zenon, <1>0, <1>3, <3>1 DEF NoRow
  <2>2. RowsMove
    BY Zenon, <1>0, <1>3, <2>1 DEF RowsMove, RowMove
  <2>3. StageAt("retire", row'[at.op].stage) /\ "retire" \in Pcs
    BY Zenon, <2>1 DEF StageAt, Pcs
  <2> QED
    BY Zenon, <1>0, <1>3, <2>2, <2>3, OnwardTo, RaiseMove
<1> QED
  BY Zenon, <1>1, <1>2, <1>3

LEMMA RetireTargetMoves ==
    ASSUME TypeInv, ControlInv, ClaimInv, StageInv, RowInv, RetireTarget
    PROVE  SectionMove /\ RowsMove
<1>0. /\ at \in Sections /\ saved \in Frames /\ row \in [Ops -> Rows] /\ at.pc = "target" /\ at.op \in Ops
      /\ row[at.op] \in Rows /\ row[at.op].stage \in {"ADMITTED"} \cup Denied /\ at.mode = "mutate"
  BY Zenon, SectionFacts DEF RetireTarget, StageInv, StageAt, ControlInv, MutatePcs
<1>1. \/ UNCHANGED row /\ (Raise \/ Goto("dispatch"))
      \/ row' = [row EXCEPT ![at.op].stage = "BLOCKED"] /\ Raise
  BY Zenon DEF RetireTarget, Op
<1>2. CASE UNCHANGED row /\ (Raise \/ Goto("dispatch"))
  <2>1. StageAt("dispatch", row[at.op].stage) /\ "dispatch" \in Pcs
    BY Zenon, <1>0 DEF StageAt, Pcs
  <2> QED
    BY Zenon, <1>0, <1>2, <2>1, RowsStay, OnwardTo, RaiseMove
<1>3. CASE row' = [row EXCEPT ![at.op].stage = "BLOCKED"] /\ Raise
  <2>1. ~row[at.op].attempted
    BY Zenon, <1>0 DEF RowInv, RowOf, Denied, Terminal
  <2>2. /\ row' \in [Ops -> Rows] /\ row'[at.op].stage = "BLOCKED" /\ row'[at.op].attempted = row[at.op].attempted
        /\ \A p \in Ops : p = at.op \/ row'[p] = row[p]
    BY Zenon, <1>0, <1>3 DEF Rows, Stages, Terminal
  <2>3. row[at.op].stage \in Open \cup Denied /\ "BLOCKED" \in Denied
    BY Zenon, <1>0 DEF Open, Denied, Terminal
  <2>4. RowsMove
    BY Zenon, <1>0, <2>1, <2>2, <2>3 DEF RowsMove, RowMove
  <2> QED
    BY Zenon, <1>0, <1>3, <2>4, RaiseMove
<1> QED
  BY Zenon, <1>1, <1>2, <1>3

LEMMA DispatchMoves ==
    ASSUME TypeInv, ControlInv, ClaimInv, StageInv, RowInv, Dispatch
    PROVE  SectionMove /\ RowsMove
<1>0. /\ at \in Sections /\ saved \in Frames /\ row \in [Ops -> Rows] /\ at.pc = "dispatch" /\ at.op \in Ops
      /\ row[at.op] \in Rows /\ row[at.op].stage \in {"ADMITTED"} \cup Denied /\ at.mode = "mutate"
  BY Zenon, SectionFacts DEF Dispatch, StageInv, StageAt, ControlInv, MutatePcs
<1>1. \/ UNCHANGED row /\ (Raise \/ Goto("stage"))
      \/ /\ row[at.op].stage = "ADMITTED"
         /\ \E f \in Outcomes : /\ SaveRow(at.op, [row[at.op] EXCEPT !.stage = "AUTHENTICATION_STARTED"], f)
                                /\ (f = "ok" /\ Goto("wait")) \/ Raise
  BY Zenon DEF Dispatch, Op
<1>2. CASE UNCHANGED row /\ (Raise \/ Goto("stage"))
  <2>1. StageAt("stage", row[at.op].stage) /\ "stage" \in Pcs
    BY Zenon, <1>0 DEF StageAt, Pcs
  <2> QED
    BY Zenon, <1>0, <1>2, <2>1, RowsStay, OnwardTo, RaiseMove
<1>3. ASSUME row[at.op].stage = "ADMITTED", NEW f \in Outcomes,
             SaveRow(at.op, [row[at.op] EXCEPT !.stage = "AUTHENTICATION_STARTED"], f),
             (f = "ok" /\ Goto("wait")) \/ Raise
      PROVE  SectionMove /\ RowsMove
  <2>1. ~row[at.op].attempted
    BY Zenon, <1>0, <1>3 DEF RowInv, RowOf
  <2>2. /\ row' \in [Ops -> Rows] /\ (f = "ok" => row'[at.op].stage = "AUTHENTICATION_STARTED")
        /\ row'[at.op] = row[at.op] \/ (row'[at.op].stage = "AUTHENTICATION_STARTED"
                                        /\ row'[at.op].attempted = row[at.op].attempted)
        /\ \A p \in Ops : p = at.op \/ row'[p] = row[p]
    BY Zenon, <1>0, <1>3 DEF SaveRow, Rows, Stages, Open, Lost
  <2>3. RowsMove
    BY Zenon, <1>0, <1>3, <2>1, <2>2 DEF RowsMove, RowMove
  <2>4. "wait" \in Pcs /\ (f = "ok" => StageAt("wait", row'[at.op].stage))
    BY Zenon, <2>2 DEF StageAt, Pcs
  <2> QED
    BY Zenon, <1>0, <1>3, <2>3, <2>4, OnwardTo, RaiseMove
<1> QED
  BY Zenon, <1>1, <1>2, <1>3

LEMMA AwaitWorkerMoves ==
    ASSUME TypeInv, ControlInv, ClaimInv, StageInv, AwaitWorker
    PROVE  SectionMove /\ RowsMove
<1>0. /\ at \in Sections /\ saved \in Frames /\ row \in [Ops -> Rows] /\ at.pc = "wait" /\ at.op \in Ops
      /\ row[at.op].stage \in {"AUTHENTICATION_STARTED", "AUTHENTICATION_UNKNOWN", "BLOCKED"}
      /\ row[at.op].stage # "none" /\ at.mode = "mutate"
  BY Zenon, SectionFacts DEF AwaitWorker, StageInv, StageAt, ControlInv, MutatePcs
<1>1. \/ UNCHANGED row /\ (Raise \/ Goto("stage"))
      \/ \E f \in Outcomes : /\ Settleable(at.op) /\ SaveRow(at.op, [row[at.op] EXCEPT !.stage = "REJECTED"], f)
                             /\ (f = "ok" /\ Disposed("REJECTED")) \/ Raise
  BY Zenon DEF AwaitWorker, Op
<1>2. CASE UNCHANGED row /\ (Raise \/ Goto("stage"))
  <2>1. StageAt("stage", row[at.op].stage) /\ "stage" \in Pcs
    BY Zenon, <1>0 DEF StageAt, Pcs, Denied, Terminal
  <2> QED
    BY Zenon, <1>0, <1>2, <2>1, RowsStay, OnwardTo, RaiseMove
<1>3. ASSUME NEW f \in Outcomes, Settleable(at.op), SaveRow(at.op, [row[at.op] EXCEPT !.stage = "REJECTED"], f),
             (f = "ok" /\ Disposed("REJECTED")) \/ Raise
      PROVE  SectionMove /\ RowsMove
  <2>1. "REJECTED" \in Denied /\ (f = "ok" => f # Lost)
    BY Zenon DEF Denied, Terminal, Lost
  <2>2. PICK o \in Ops : o = at.op
    BY Zenon, <1>0
  <2>3. RowsMove /\ (f # Lost => row'[o].stage = "REJECTED")
    <3>1. SaveRow(o, [row[o] EXCEPT !.stage = "REJECTED"], f) /\ Settleable(o) /\ row[o].stage # "none"
      BY Zenon, <1>0, <1>3, <2>2
    <3> QED
      BY <1>0, <2>1, <3>1, DeniedMoves
  <2> QED
    BY Zenon, <1>0, <1>3, <2>1, <2>2, <2>3, DisposedMove, RaiseMove
<1> QED
  BY Zenon, <1>1, <1>2, <1>3

LEMMA StagePlanMoves ==
    ASSUME TypeInv, ControlInv, ClaimInv, RowInv, StagePlan
    PROVE  SectionMove /\ RowsMove
<1>0. /\ at \in Sections /\ saved \in Frames /\ row \in [Ops -> Rows] /\ at.pc = "stage" /\ at.op \in Ops
      /\ row[at.op] \in Rows /\ at.mode = "mutate"
  BY Zenon, SectionFacts DEF StagePlan, ControlInv, MutatePcs
<1>1. \/ UNCHANGED row /\ Raise
      \/ /\ row[at.op].stage \in {"ADMITTED", "AUTHENTICATION_STARTED"}
         /\ \E f \in Outcomes : /\ SaveRow(at.op, [row[at.op] EXCEPT !.stage = "PLAN_READY"], f)
                                /\ Goto("attempt") \/ Raise
  BY Zenon DEF StagePlan, Op
<1>2. CASE UNCHANGED row /\ Raise
  BY Zenon, <1>0, <1>2, RowsStay, RaiseMove
<1>3. ASSUME row[at.op].stage \in {"ADMITTED", "AUTHENTICATION_STARTED"}, NEW f \in Outcomes,
             SaveRow(at.op, [row[at.op] EXCEPT !.stage = "PLAN_READY"], f), Goto("attempt") \/ Raise
      PROVE  SectionMove /\ RowsMove
  <2>1. ~row[at.op].attempted
    BY Zenon, <1>0, <1>3 DEF RowInv, RowOf
  <2>2. /\ row' \in [Ops -> Rows]
        /\ row'[at.op] = row[at.op] \/ (row'[at.op].stage = "PLAN_READY"
                                        /\ row'[at.op].attempted = row[at.op].attempted)
        /\ \A p \in Ops : p = at.op \/ row'[p] = row[p]
    BY Zenon, <1>0, <1>3 DEF SaveRow, Rows, Stages, Open
  <2>3. RowsMove
    BY Zenon, <1>0, <1>3, <2>1, <2>2 DEF RowsMove, RowMove
  <2>4. "attempt" \in Pcs /\ "attempt" \notin MutatePcs /\ StageAt("attempt", row'[at.op].stage)
    BY Zenon DEF Pcs, MutatePcs, StageAt
  <2> QED
    BY Zenon, <1>0, <1>3, <2>3, <2>4, OnwardTo, RaiseMove
<1> QED
  BY Zenon, <1>1, <1>2, <1>3

LEMMA OnwardFree ==
    ASSUME at \in Sections, saved \in Frames, at.pc # "idle",
           NEW p \in {"latch", "sync", "apply", "abandon", "reject", "attempt"}, Goto(p)
    PROVE  SectionMove
<1>1. /\ p \in Pcs /\ p \notin {"idle", "admit", "dispose", "recover", "settle", "cas"} /\ p \notin MutatePcs
      /\ StageAt(p, row'[at.op].stage)
  BY Zenon DEF Pcs, MutatePcs, StageAt
<1> QED
  BY Zenon, <1>1, OnwardTo

\* The attempt is durable before the workspace is written.
LEMMA MarkAttemptedMoves ==
    ASSUME TypeInv, ControlInv, ClaimInv, RowInv, MarkAttempted
    PROVE  SectionMove /\ RowsMove
<1>0. /\ at \in Sections /\ saved \in Frames /\ row \in [Ops -> Rows] /\ at.pc = "attempt" /\ at.op \in Ops
      /\ row[at.op] \in Rows /\ row[at.op].stage # "none"
  BY Zenon, SectionFacts DEF MarkAttempted
<1>1. PICK o \in Ops : o = at.op
  BY Zenon, <1>0
<1>2. \/ UNCHANGED row /\ (Raise \/ Goto("latch"))
      \/ \E f \in Outcomes : (RetainForeign(o, f) \/ SaveRow(o, Conflicted(o), f)) /\ Goto("latch")
      \/ /\ row[o].stage = "PLAN_READY" /\ MayAttempt(o)
         /\ \E f \in Outcomes : /\ SaveRow(o, [row[o] EXCEPT !.attempted = TRUE], f)
                                /\ Goto(IF f = "ok" THEN "cas" ELSE "latch")
  BY Zenon, <1>1 DEF MarkAttempted, Op
<1>3. CASE UNCHANGED row /\ (Raise \/ Goto("latch"))
  BY Zenon, <1>0, <1>3, RowsStay, OnwardFree, RaiseMove
<1>4. CASE \E f \in Outcomes : (RetainForeign(o, f) \/ SaveRow(o, Conflicted(o), f)) /\ Goto("latch")
  BY Zenon, <1>0, <1>1, <1>4, RetainMoves, ConflictedMoves, OnwardFree
<1>5. ASSUME row[o].stage = "PLAN_READY", MayAttempt(o), NEW f \in Outcomes,
             SaveRow(o, [row[o] EXCEPT !.attempted = TRUE], f), Goto(IF f = "ok" THEN "cas" ELSE "latch")
      PROVE  SectionMove /\ RowsMove
  <2>1. /\ row' \in [Ops -> Rows] /\ (f = "ok" => row'[o].attempted /\ row'[o].stage = "PLAN_READY")
        /\ row'[o] = row[o] \/ (row'[o].stage = "PLAN_READY" /\ row'[o].attempted)
        /\ \A p \in Ops : p = o \/ row'[p] = row[p]
    BY Zenon, <1>0, <1>5 DEF SaveRow, Rows, Lost
  <2>2. RowsMove
    BY Zenon, <1>5, <2>1 DEF RowsMove, RowMove
  <2>3. stamps'[o] = 0
    BY Zenon, <1>5 DEF RowInv, RowOf, MayAttempt, MarkAttempted, countVars
  <2>4. "cas" \in Pcs /\ "cas" \notin MutatePcs /\ (f = "ok" => StageAt("cas", row'[o].stage))
    BY Zenon, <2>1 DEF Pcs, MutatePcs, StageAt
  <2>5. CASE f = "ok" /\ Goto("cas")
    BY Zenon, <1>0, <1>1, <2>1, <2>2, <2>3, <2>4, <2>5, OnwardTo
  <2>6. CASE Goto("latch")
    BY Zenon, <1>0, <2>2, <2>6, OnwardFree
  <2> QED
    BY Zenon, <1>5, <2>5, <2>6
<1> QED
  BY Zenon, <1>2, <1>3, <1>4, <1>5

LEMMA AbandonCommittedMoves ==
    ASSUME TypeInv, ControlInv, ClaimInv, AbandonCommitted
    PROVE  SectionMove /\ RowsMove
<1>0. /\ at \in Sections /\ saved \in Frames /\ row \in [Ops -> Rows] /\ at.pc = "abandon" /\ at.op \in Ops
      /\ row[at.op].stage # "none"
  BY Zenon, SectionFacts DEF AbandonCommitted
<1>1. PICK o \in Ops : o = at.op
  BY Zenon, <1>0
<1>2. /\ Goto("apply") \/ Goto("latch")
      /\ UNCHANGED row \/ \E f \in Outcomes : SaveRow(o, Abandoned(o, "committed"), f)
  BY Zenon, <1>1 DEF AbandonCommitted, Op
<1> QED
  BY Zenon, <1>0, <1>1, <1>2, AbandonedMoves, RowsStay, OnwardFree

\* The decision of the vault.
LEMMA ApplyMoves ==
    ASSUME TypeInv, ControlInv, ClaimInv, Apply
    PROVE  SectionMove /\ RowsMove
<1>0. /\ at \in Sections /\ saved \in Frames /\ row \in [Ops -> Rows] /\ at.pc = "apply" /\ at.op \in Ops
      /\ row[at.op] \in Rows
  BY Zenon, SectionFacts DEF Apply
<1>1. \/ UNCHANGED row /\ (Raise \/ Goto("latch"))
      \/ /\ row[at.op].stage = "PLAN_READY" /\ row[at.op].attempted
         /\ row' = [row EXCEPT ![at.op].stage = "COMMITTED", ![at.op].epoch = ws.marker.epoch]
         /\ (at.mode = "mutate" /\ Goto("publish")) \/ Disposed("COMMITTED")
  BY Zenon DEF Apply, Op
<1>2. CASE UNCHANGED row /\ (Raise \/ Goto("latch"))
  BY Zenon, <1>0, <1>2, RowsStay, OnwardFree, RaiseMove
<1>3. CASE /\ row[at.op].stage = "PLAN_READY" /\ row[at.op].attempted
           /\ row' = [row EXCEPT ![at.op].stage = "COMMITTED", ![at.op].epoch = ws.marker.epoch]
           /\ (at.mode = "mutate" /\ Goto("publish")) \/ Disposed("COMMITTED")
  <2>1. ws.marker.epoch \in Nat
    BY Zenon DEF TypeInv, FileType, Files, Markers
  <2>2. /\ row' \in [Ops -> Rows] /\ row'[at.op].stage = "COMMITTED" /\ row'[at.op].attempted = row[at.op].attempted
        /\ \A p \in Ops : p = at.op \/ row'[p] = row[p]
    BY Zenon, <1>0, <1>3, <2>1 DEF Rows, Stages, Terminal
  <2>3. RowsMove
    BY Zenon, <1>0, <1>3, <2>2 DEF RowsMove, RowMove
  <2>4. "publish" \in Pcs /\ StageAt("publish", row'[at.op].stage)
    BY Zenon, <2>2 DEF Pcs, StageAt
  <2> QED
    BY Zenon, <1>0, <1>3, <2>2, <2>3, <2>4, OnwardTo, DisposedMove
<1> QED
  BY Zenon, <1>1, <1>2, <1>3

LEMMA PublishMoves ==
    ASSUME TypeInv, ControlInv, ClaimInv, StageInv, Publish
    PROVE  SectionMove /\ RowsMove
<1>0. /\ at \in Sections /\ saved \in Frames /\ row \in [Ops -> Rows] /\ at.pc = "publish" /\ at.op \in Ops
      /\ row[at.op].stage = "COMMITTED" /\ row[at.op].stage # "none" /\ at.mode = "mutate"
  BY Zenon, SectionFacts DEF Publish, StageInv, StageAt, ControlInv, MutatePcs
<1>1. PICK o \in Ops : o = at.op
  BY Zenon, <1>0
<1>2. \/ UNCHANGED row /\ (Raise \/ Goto("rebuild"))
      \/ (\E f \in Outcomes : SaveRow(o, Conflicted(o), f)) /\ Raise
  BY Zenon, <1>1 DEF Publish, Op
<1>3. CASE UNCHANGED row /\ (Raise \/ Goto("rebuild"))
  <2>1. "rebuild" \in Pcs /\ StageAt("rebuild", row[at.op].stage)
    BY Zenon, <1>0 DEF Pcs, StageAt
  <2> QED
    BY Zenon, <1>0, <1>3, <2>1, RowsStay, OnwardTo, RaiseMove
<1>4. CASE (\E f \in Outcomes : SaveRow(o, Conflicted(o), f)) /\ Raise
  BY Zenon, <1>0, <1>1, <1>4, ConflictedMoves, RaiseMove
<1> QED
  BY Zenon, <1>2, <1>3, <1>4

LEMMA DisposeOperationMoves ==
    ASSUME TypeInv, ControlInv, ClaimInv, DisposeOperation
    PROVE  SectionMove /\ RowsMove
<1>0. /\ at \in Sections /\ saved \in Frames /\ row \in [Ops -> Rows] /\ at.pc = "dispose" /\ at.op \in Ops
      /\ row[at.op].stage # "none"
  BY Zenon, SectionFacts DEF DisposeOperation
<1>1. PICK o \in Ops : o = at.op
  BY Zenon, <1>0
<1>2. PICK s : s = row[o].stage
  BY Zenon
<1>3. /\ \/ UNCHANGED row
         \/ \E f \in Outcomes : SaveRow(o, Conflicted(o), f)
         \/ \E f \in Outcomes : SaveRow(o, Abandoned(o, "committed"), f)
         \/ \E f \in Outcomes : SaveRow(o, Abandoned(o, "uncommitted"), f)
      /\ Disposed(s) \/ Goto("latch") \/ Goto("sync") \/ Goto("reject")
  BY Zenon, <1>1, <1>2 DEF DisposeOperation, Op
<1>4. RowsMove /\ row'[o].stage = s
  BY Zenon, <1>0, <1>1, <1>2, <1>3, RowsStay, ConflictedMoves, AbandonedMoves
<1> QED
  BY Zenon, <1>0, <1>1, <1>3, <1>4, DisposedMove, OnwardFree

LEMMA RejectOperationMoves ==
    ASSUME TypeInv, ControlInv, ClaimInv, RejectOperation
    PROVE  SectionMove /\ RowsMove
<1>0. /\ at \in Sections /\ saved \in Frames /\ row \in [Ops -> Rows] /\ at.pc = "reject" /\ at.op \in Ops
      /\ row[at.op].stage # "none"
  BY Zenon, SectionFacts DEF RejectOperation
<1>1. PICK o \in Ops : o = at.op
  BY Zenon, <1>0
<1>2. PICK s \in Denied : s = IF row[o].stage = "AUTHENTICATION_STARTED" THEN "AUTHENTICATION_UNKNOWN" ELSE "REJECTED"
  BY DEF Denied, Terminal
<1>3. \/ UNCHANGED row /\ Goto("latch")
      \/ \E f \in Outcomes : /\ Settleable(o) /\ SaveRow(o, [row[o] EXCEPT !.stage = s], f)
                             /\ (f = "ok" /\ Disposed(s)) \/ Goto("latch")
  BY Zenon, <1>1, <1>2 DEF RejectOperation, Op
<1>4. CASE UNCHANGED row /\ Goto("latch")
  BY Zenon, <1>0, <1>4, RowsStay, OnwardFree
<1>5. ASSUME NEW f \in Outcomes, Settleable(o), SaveRow(o, [row[o] EXCEPT !.stage = s], f),
             (f = "ok" /\ Disposed(s)) \/ Goto("latch")
      PROVE  SectionMove /\ RowsMove
  <2>1. (s = "REJECTED" => row[o].stage # "AUTHENTICATION_STARTED") /\ (f = "ok" => f # Lost)
    BY Zenon, <1>2 DEF Lost
  <2>2. RowsMove /\ (f # Lost => row'[o].stage = s)
    BY <1>0, <1>1, <1>5, <2>1, DeniedMoves
  <2> QED
    BY Zenon, <1>0, <1>1, <1>5, <2>1, <2>2, DisposedMove, OnwardFree
<1> QED
  BY Zenon, <1>3, <1>4, <1>5

LEMMA RecoverOperationMoves ==
    ASSUME TypeInv, ControlInv, ClaimInv, RecoverOperation
    PROVE  SectionMove /\ RowsMove
<1>0. /\ at \in Sections /\ saved \in Frames /\ row \in [Ops -> Rows] /\ at.pc = "recover" /\ at.op \in Ops
      /\ row[at.op].stage # "none"
  BY Zenon, SectionFacts DEF RecoverOperation
<1>1. PICK o \in Ops : o = at.op
  BY Zenon, <1>0
<1>2. PICK s : s = row[o].stage
  BY Zenon
<1>3. \/ UNCHANGED row /\ Disposed(s)
      \/ /\ UNCHANGED row \/ \E f \in Outcomes : RetainForeign(o, f)
         /\ Goto("latch") \/ Goto("sync") \/ Goto("reject") \/ Goto("attempt")
  BY Zenon, <1>1, <1>2 DEF RecoverOperation, Op
<1>4. CASE UNCHANGED row /\ Disposed(s)
  BY Zenon, <1>0, <1>1, <1>2, <1>4, RowsStay, DisposedMove
<1>5. CASE /\ UNCHANGED row \/ \E f \in Outcomes : RetainForeign(o, f)
           /\ Goto("latch") \/ Goto("sync") \/ Goto("reject") \/ Goto("attempt")
  BY Zenon, <1>0, <1>1, <1>5, RowsStay, RetainMoves, OnwardFree
<1> QED
  BY Zenon, <1>3, <1>4, <1>5

LEMMA LatchConflictMoves ==
    ASSUME TypeInv, ControlInv, ClaimInv, LatchConflict
    PROVE  SectionMove /\ RowsMove
<1>0. /\ at \in Sections /\ saved \in Frames /\ row \in [Ops -> Rows] /\ at.pc = "latch" /\ at.op \in Ops
      /\ row[at.op].stage # "none"
  BY Zenon, SectionFacts DEF LatchConflict
<1>1. PICK o \in Ops : o = at.op
  BY Zenon, <1>0
<1>2. Raise /\ (UNCHANGED row \/ \E f : SaveRow(o, Conflicted(o), f))
  BY Zenon, <1>1 DEF LatchConflict, Op
<1> QED
  BY Zenon, <1>0, <1>1, <1>2, RowsStay, ConflictedMoves, RaiseMove

LEMMA DisposeMove ==
    ASSUME at \in Sections, at.pc # "idle", NEW why \in Reasons, Dispose(why)
    PROVE  SectionMove
<1>1. Disposing(why) \in Sections /\ Disposing(why).pc = "dispose" /\ Disposing(why).mode = "final"
      /\ Disposing(why).op = at.op
  BY Zenon DEF Disposing, Op, Sections, Pcs, Modes
<1> QED
  BY Zenon, <1>1, IdleSection DEF Dispose, SectionMove, Fails

\* The steps of the section that leave the rows alone.
LEMMA RowlessMoves ==
    ASSUME TypeInv, ControlInv, ClaimInv, StageInv,
           \/ RevokeReads \/ Drained \/ DrainTimesOut \/ LaneLost \/ Cancel \/ WriteWorkspace \/ SyncWitness
           \/ Rebuild \/ ReleaseClaim \/ GiveUp
    PROVE  SectionMove /\ RowsMove
<1>1. UNCHANGED row
  BY Zenon DEF RevokeReads, Drained, DrainTimesOut, LaneLost, Cancel, WriteWorkspace, SyncWitness,
     Rebuild,
     ReleaseClaim, GiveUp, vaultVars
<1>2. at.pc \notin {"idle", "admit"}
  BY Zenon DEF RevokeReads, Drained, DrainTimesOut, LaneLost, Cancel, WriteWorkspace, SyncWitness,
     Rebuild, ReleaseClaim, GiveUp
<1>3. at \in Sections /\ saved \in Frames /\ row \in [Ops -> Rows] /\ at.pc # "idle" /\ at.op \in Ops
  BY Zenon, <1>2, SectionFacts
<1>4. at.pc \in MutatePcs => at.mode = "mutate" /\ saved = Idle
  BY Zenon DEF ControlInv
<1>5. RowsMove
  BY Zenon, <1>1, <1>3, RowsStay
<1>6. CASE RevokeReads
  <2>1. "drain" \in Pcs /\ StageAt("drain", row[at.op].stage) /\ at.mode = "mutate" /\ Goto("drain")
    BY Zenon, <1>4, <1>6 DEF RevokeReads, StageInv, StageAt, Pcs, MutatePcs
  <2> QED
    BY Zenon, <1>1, <1>3, <1>5, <2>1, OnwardTo
<1>7. CASE Drained
  <2>1. "target" \in Pcs /\ StageAt("target", row[at.op].stage) /\ at.mode = "mutate" /\ Goto("target")
    BY Zenon, <1>4, <1>7 DEF Drained, StageInv, StageAt, Pcs, MutatePcs
  <2> QED
    BY Zenon, <1>1, <1>3, <1>5, <2>1, OnwardTo
<1>8. CASE DrainTimesOut \/ Cancel
  <2>1. {"generation_drain_timeout", "caller_cancelled"} \subseteq Reasons
    BY Zenon DEF Reasons
  <2> QED
    BY Zenon, <1>3, <1>5, <1>8, <2>1, DisposeMove DEF DrainTimesOut, Cancel
<1>9. CASE LaneLost
  <2>1. at' = Idle /\ saved' = Idle
    BY Zenon, <1>4, <1>9 DEF LaneLost, MutatePcs
  <2> QED
    BY Zenon, <1>3, <1>5, <2>1, IdleSection DEF SectionMove, Ends
<1>10. CASE WriteWorkspace \/ SyncWitness
  <2>1. Goto("apply") \/ Goto("latch") \/ Goto("abandon")
    BY Zenon, <1>10 DEF WriteWorkspace, SyncWitness
  <2> QED
    BY Zenon, <1>3, <1>5, <2>1, OnwardFree
<1>11. CASE Rebuild
  <2>1. row[at.op].stage = "COMMITTED" /\ (Raise \/ Disposed("COMMITTED"))
    BY Zenon, <1>11 DEF Rebuild, StageInv, StageAt
  <2> QED
    BY Zenon, <1>1, <1>3, <1>5, <2>1, RaiseMove, DisposedMove
<1>12. CASE ReleaseClaim \/ GiveUp
  <2>1. at.mode = "recover" => saved.pc # "replay"
    BY Zenon, <1>12 DEF ReleaseClaim, GiveUp, ControlInv
  <2>2. \/ Raise
        \/ saved' = Idle /\ at' = Idle
        \/ saved' = Idle /\ at.mode = "recover" /\ at' = saved
    BY Zenon, <1>12 DEF ReleaseClaim, GiveUp, Resumed
  <2>3. CASE saved' = Idle /\ at.mode = "recover" /\ at' = saved
    <3>1. saved \in Sections
      BY Zenon, <1>3, <2>1, <2>3 DEF Sections, Frames, Awaits, Pcs
    <3> QED
      BY Zenon, <1>3, <1>5, <2>1, <2>3, <3>1, IdleSection DEF SectionMove, Returns
  <2> QED
    BY Zenon, <1>3, <1>5, <2>2, <2>3, RaiseMove, IdleSection DEF SectionMove, Ends
<1> QED
  BY Zenon, <1>6, <1>7, <1>8, <1>9, <1>10, <1>11, <1>12

\* Every step of the coordinator.
LEMMA StepMoves ==
    ASSUME TypeInv, ControlInv, ClaimInv, RowInv, StageInv, Step
    PROVE  (SectionMove \/ UNCHANGED <<at, saved>>) /\ RowsMove
<1>1. CASE StartCleanup \/ RetryDrain
  <2>1. UNCHANGED <<row, at, saved>>
    BY Zenon, <1>1 DEF StartCleanup, RetryDrain, vaultVars
  <2> QED
    BY Zenon, <2>1, RowsStay DEF TypeInv, VaultType
<1>2. CASE \/ RevokeReads \/ Drained \/ DrainTimesOut \/ LaneLost \/ Cancel \/ WriteWorkspace \/ SyncWitness
           \/ Rebuild \/ ReleaseClaim \/ GiveUp
  BY Zenon, <1>2, RowlessMoves
<1> QED
  BY Zenon, <1>1, <1>2, AdmitMoves, RetireTargetMoves, DispatchMoves, AwaitWorkerMoves,
     StagePlanMoves, MarkAttemptedMoves,
     AbandonCommittedMoves, ApplyMoves, PublishMoves, DisposeOperationMoves, RejectOperationMoves,
     RecoverOperationMoves, LatchConflictMoves DEF Step

-----------------------------------------------------------------------------
(* Types and control *)

\* What starts a section: mutate of an idle coordinator, and recover().
LEMMA MutateStarts ==
    ASSUME TypeInv, ControlInv, NEW o \in Ops, Mutate(o)
    PROVE  /\ at.pc = "idle" /\ at.mode # "recover" /\ saved = Idle /\ lane \in {None, o} /\ request[o] # NoRequest
           /\ at' \in Sections /\ saved' \in Frames /\ at'.op = o
           /\ \/ /\ at'.pc = "settle" /\ at'.mode = "final" /\ saved' = Idle /\ lane = o
                 /\ row[o].stage \in Releasable /\ UNCHANGED <<lane, leaseVars>>
              \/ /\ ~HasReceipt(o) /\ BorrowLane(o)
                 /\ \/ at'.pc = "admit" /\ at'.mode = "mutate" /\ saved' = Idle /\ row[o] = NoRow
                    \/ at'.pc = "retire" /\ at'.mode = "mutate" /\ saved' = Idle /\ row[o].stage = "ADMITTED"
                    \/ /\ at'.pc = "recover" /\ at'.mode = "recover" /\ saved'.pc = "replay"
                       /\ row[o] # NoRow /\ row[o].stage # "ADMITTED"
<1>1. at.pc = "idle" /\ at.mode # "recover" /\ saved = Idle /\ lane \in {None, o} /\ request[o] # NoRequest
  BY Zenon, IdleSection DEF Mutate, ControlInv
<1>2. CASE /\ lane = o /\ row[o].stage \in Releasable /\ UNCHANGED <<saved, lane, leaseVars>>
           /\ at' = [pc |-> "settle", op |-> o, mode |-> "final", reason |-> "none"]
  BY Zenon, <1>1, <1>2, IdleSection DEF Sections, Pcs, Modes, Reasons
<1>3. ASSUME ~HasReceipt(o), BorrowLane(o),
             NEW next \in {"admit", "retire", "recover"},
             next = CASE row[o] = NoRow -> "admit" [] row[o].stage = "ADMITTED" -> "retire" [] OTHER -> "recover",
             at' = [pc |-> next, op |-> o, reason |-> "none", mode |-> IF next = "recover" THEN "recover" ELSE "mutate"],
             saved' = IF next = "recover" THEN [Idle EXCEPT !.pc = "replay"] ELSE Idle
      PROVE  /\ at' \in Sections /\ saved' \in Frames /\ at'.op = o
             /\ \/ at'.pc = "admit" /\ at'.mode = "mutate" /\ saved' = Idle /\ row[o] = NoRow
                \/ at'.pc = "retire" /\ at'.mode = "mutate" /\ saved' = Idle /\ row[o].stage = "ADMITTED"
                \/ /\ at'.pc = "recover" /\ at'.mode = "recover" /\ saved'.pc = "replay"
                   /\ row[o] # NoRow /\ row[o].stage # "ADMITTED"
  <2>1. NoRow.stage # "ADMITTED"
    BY Zenon DEF NoRow
  <2>2. /\ (next = "admit" => row[o] = NoRow) /\ (next = "retire" => row[o].stage = "ADMITTED")
        /\ next = "recover" => row[o] # NoRow /\ row[o].stage # "ADMITTED"
    BY Zenon, <1>3, <2>1
  <2>3. at' \in Sections /\ at'.op = o /\ at'.pc = next /\ at'.mode = IF next = "recover" THEN "recover" ELSE "mutate"
    BY Zenon, <1>3 DEF Sections, Pcs, Modes, Reasons
  <2>4. [Idle EXCEPT !.pc = "replay"] \in Frames /\ [Idle EXCEPT !.pc = "replay"].pc = "replay"
    BY Zenon DEF Idle, Frames, Modes, Reasons
  <2> QED
    BY Zenon, <1>3, <2>2, <2>3, <2>4, IdleSection
<1>4. LET next == CASE row[o] = NoRow -> "admit" [] row[o].stage = "ADMITTED" -> "retire" [] OTHER -> "recover"
      IN  next \in {"admit", "retire", "recover"}
  BY Zenon
<1> QED
  BY Zenon, <1>1, <1>2, <1>3, <1>4 DEF Mutate

LEMMA RecoveryStarts ==
    ASSUME TypeInv, ControlInv, BeginRecovery
    PROVE  /\ claim \in Ops /\ lane \in {None, claim} /\ BorrowLane(claim)
           /\ at' \in Sections /\ saved' = at /\ at'.op = claim /\ at'.pc = "recover" /\ at'.mode = "recover"
           /\ at \in Frames /\ at.mode # "recover"
           /\ (at.pc = "idle" /\ saved' = Idle) \/ at.pc \in Awaits
<1>1. claim \in Ops /\ at \in Sections
  BY Zenon DEF TypeInv, VaultType, SectionType, BeginRecovery
<1>2. at.mode # "recover" /\ at.pc \in Awaits \cup {"idle"}
  BY Zenon, IdleSection DEF ControlInv, BeginRecovery, Awaits
<1>3. at \in Frames
  BY Zenon, <1>1, <1>2 DEF Frames, Sections
<1>4. at' \in Sections /\ at'.op = claim /\ at'.pc = "recover" /\ at'.mode = "recover"
  BY Zenon, <1>1 DEF BeginRecovery, Sections, Pcs, Modes, Reasons
<1>5. at.pc = "idle" => at = Idle
  BY Zenon DEF ControlInv
<1> QED
  BY Zenon, <1>1, <1>2, <1>3, <1>4, <1>5 DEF BeginRecovery

LEMMA ControlNext ==
    ASSUME TypeInv, ControlInv, ClaimInv, RowInv, StageInv, [Next]_vars
    PROVE  ControlInv' /\ at' \in Sections /\ saved' \in Frames
<1>0. at \in Sections /\ saved \in Frames /\ (at.pc # "idle" => at.op \in Ops)
  BY Zenon DEF TypeInv, SectionType, ControlInv
<1>1. CASE UNCHANGED <<at, saved>>
  BY Zenon, <1>0, <1>1 DEF ControlInv
<1>2. CASE SectionMove
  <2>1. CASE Fails
    BY Zenon, <1>0, <1>2, <2>1 DEF SectionMove, Fails, ControlInv, Idle, MutatePcs, Awaits
  <2>2. CASE Returns
    BY Zenon, <1>0, <1>2, <2>2 DEF SectionMove, Returns, ControlInv, Idle, MutatePcs, Awaits, Frames
  <2>3. CASE Ends
    BY Zenon, <1>0, <1>2, <2>3 DEF SectionMove, Ends, ControlInv, Idle, MutatePcs, Awaits
  <2>4. CASE Onward
    BY Zenon, <1>0, <1>2, <2>4 DEF SectionMove, Onward, ControlInv
  <2>5. CASE Settles
    BY Zenon, <1>0, <1>2, <2>5 DEF SectionMove, Settles, ControlInv, Idle, MutatePcs, Awaits
  <2> QED
    BY Zenon, <1>2, <2>1, <2>2, <2>3, <2>4, <2>5 DEF SectionMove
<1>3. ASSUME NEW o \in Ops, Mutate(o) PROVE ControlInv' /\ at' \in Sections /\ saved' \in Frames
  <2>1. /\ at' \in Sections /\ saved' \in Frames /\ at'.op = o
        /\ \/ at'.pc = "settle" /\ at'.mode = "final" /\ saved' = Idle
           \/ at'.pc \in {"admit", "retire"} /\ at'.mode = "mutate" /\ saved' = Idle
           \/ at'.pc = "recover" /\ at'.mode = "recover" /\ saved'.pc = "replay"
    BY Zenon, <1>3, MutateStarts
  <2> QED
    BY <2>1 DEF ControlInv, Idle, MutatePcs, Awaits
<1>4. CASE BeginRecovery
  <2>1. /\ at' \in Sections /\ saved' \in Frames /\ saved' = at /\ at'.op = claim /\ claim \in Ops
        /\ at'.pc = "recover" /\ at'.mode = "recover" /\ at.mode # "recover"
        /\ (at.pc = "idle" /\ saved' = Idle) \/ at.pc \in Awaits
    BY Zenon, <1>4, RecoveryStarts
  <2>2. at.pc \in Awaits => at.op = claim
    BY Zenon, <1>4, <2>1 DEF ClaimInv, Awaits, BeginRecovery
  <2> QED
    BY Zenon, <2>1, <2>2 DEF ControlInv, Idle, MutatePcs, Awaits
<1>5. CASE Crash
  <2>1. at' = Idle /\ saved' = Idle
    BY Zenon, <1>5 DEF Crash
  <2> QED
    BY Zenon, <2>1, IdleSection DEF ControlInv, Idle, MutatePcs, Awaits
<1>6. CASE UNCHANGED vars \/ (\E o \in Ops : \E k \in Kinds : Ask(o, k)) \/ RecoverIdle \/ ReadsFinish \/ WorkerEnds
           \/ CleanupEnds \/ EditWorkspace \/ EditBrokerDomain
  <2>1. UNCHANGED <<at, saved>>
    BY Zenon, <1>6 DEF vars, Ask, RecoverIdle, ReadsFinish, WorkerEnds, CleanupEnds,
       EditWorkspace, EditBrokerDomain
  <2> QED
    BY Zenon, <1>1, <2>1
<1> QED
  BY Zenon, <1>1, <1>2, <1>3, <1>4, <1>5, <1>6, StepMoves DEF Next

LEMMA RowsNext ==
    ASSUME TypeInv, ControlInv, ClaimInv, RowInv, StageInv, FileInv, [Next]_vars
    PROVE  RowsMove
<1>0. row \in [Ops -> Rows]
  BY Zenon DEF TypeInv, VaultType
<1>1. CASE RecoverIdle
  <2>1. PICK o \in Ops : o = head.op /\ row[o].stage # "none"
    BY Zenon, <1>1 DEF RecoverIdle, FileInv, TypeInv, VaultType, Markers
  <2>2. Conflicted(o) \in Rows /\ Conflicted(o).stage = row[o].stage /\ Conflicted(o).attempted = row[o].attempted
    BY Zenon, <1>0 DEF Conflicted, Rows
  <2>3. row' = [row EXCEPT ![o] = Conflicted(o)]
    BY Zenon, <1>1, <2>1 DEF RecoverIdle
  <2>4. row' \in [Ops -> Rows] /\ row'[o] = Conflicted(o) /\ \A p \in Ops : p = o \/ row'[p] = row[p]
    BY Zenon, <1>0, <2>2, <2>3
  <2> QED
    BY Zenon, <2>1, <2>2, <2>4 DEF RowsMove, RowMove
<1>2. CASE UNCHANGED vars \/ (\E o \in Ops : Mutate(o) \/ \E k \in Kinds : Ask(o, k)) \/ BeginRecovery
           \/ ReadsFinish \/ WorkerEnds \/ CleanupEnds \/ EditWorkspace \/ EditBrokerDomain \/ Crash
  <2>1. UNCHANGED row
    BY Zenon, <1>2 DEF vars, Mutate, Ask, BeginRecovery, ReadsFinish, WorkerEnds,
       CleanupEnds, EditWorkspace,
       EditBrokerDomain, Crash, vaultVars
  <2> QED
    BY Zenon, <1>0, <2>1, RowsStay
<1> QED
  BY Zenon, <1>1, <1>2, StepMoves DEF Next

\* The steps that change the claim, the head and the credential.
LEMMA VaultFrame ==
    ASSUME [Next]_vars, ~Admit, ~ReleaseClaim
    PROVE  claim' = claim
BY Zenon DEF Next, Step, vars, vaultVars, Mutate, Ask, RevokeReads, Drained, DrainTimesOut,
   LaneLost, RetireTarget, Dispatch,
   AwaitWorker, StagePlan, Cancel, MarkAttempted, WriteWorkspace, SyncWitness, AbandonCommitted, Apply, Publish, Rebuild,
   DisposeOperation, RejectOperation, RecoverOperation, LatchConflict, StartCleanup, RetryDrain, GiveUp, BeginRecovery,
   RecoverIdle, ReadsFinish, WorkerEnds, CleanupEnds, EditWorkspace, EditBrokerDomain, Crash

LEMMA HeadFrame ==
    ASSUME [Next]_vars, ~Apply
    PROVE  UNCHANGED <<head, cred, present>>
BY Zenon DEF Next, Step, vars, vaultVars, Mutate, Ask, Admit, RevokeReads, Drained, DrainTimesOut,
   LaneLost, RetireTarget,
   Dispatch, AwaitWorker, StagePlan, Cancel, MarkAttempted, WriteWorkspace, SyncWitness, AbandonCommitted, Publish, Rebuild,
   DisposeOperation, RejectOperation, RecoverOperation, LatchConflict, StartCleanup, RetryDrain, ReleaseClaim, GiveUp,
   BeginRecovery, RecoverIdle, ReadsFinish, WorkerEnds, CleanupEnds, EditWorkspace, EditBrokerDomain, Crash

LEMMA FileFrame ==
    ASSUME [Next]_vars, ~WriteWorkspace, ~SyncWitness, ~EditWorkspace, ~EditBrokerDomain, ~Crash
    PROVE  UNCHANGED <<ws, disk>>
BY Zenon DEF Next, Step, vars, fileVars, Mutate, Ask, Admit, RevokeReads, Drained, DrainTimesOut,
   LaneLost, RetireTarget,
   Dispatch, AwaitWorker, StagePlan, Cancel, MarkAttempted, AbandonCommitted, Apply, Publish, Rebuild,
   DisposeOperation, RejectOperation, RecoverOperation, LatchConflict, StartCleanup, RetryDrain, ReleaseClaim, GiveUp,
   BeginRecovery, RecoverIdle, ReadsFinish, WorkerEnds, CleanupEnds

LEMMA VaultTypeNext ==
    ASSUME TypeInv, RowsMove, ControlInv, [Next]_vars
    PROVE  VaultType'
<1>1. row' \in [Ops -> Rows] /\ claim \in Ops \cup {None} /\ (at.pc # "idle" => at.op \in Ops)
  BY Zenon DEF RowsMove, TypeInv, VaultType, ControlInv
<1>2. claim' \in Ops \cup {None}
  <2>1. CASE Admit
    BY Zenon, <1>1, <2>1 DEF Admit, Op
  <2>2. CASE ReleaseClaim
    BY Zenon, <1>1, <2>2 DEF ReleaseClaim
  <2> QED
    BY Zenon, <1>1, <2>1, <2>2, VaultFrame
<1>3. head' \in Markers /\ cred' \in Nat /\ present' \in BOOLEAN
  <2>1. CASE Apply
    <3>1. head \in Markers /\ ws.marker \in Markers /\ cred \in Nat /\ present \in BOOLEAN
      BY Zenon DEF TypeInv, VaultType, FileType, Files
    <3>2. \/ UNCHANGED <<head, cred, present>>
          \/ head' = ws.marker /\ cred' = cred + 1 /\ present' = (request[Op].kind # "REMOVE")
      BY Zenon, <2>1 DEF Apply
    <3>3. cred + 1 \in Nat /\ (request[Op].kind # "REMOVE") \in BOOLEAN
      BY <3>1
    <3> QED
      BY Zenon, <3>1, <3>2, <3>3
  <2> QED
    BY Zenon, <2>1, HeadFrame DEF TypeInv, VaultType
<1> QED
  BY Zenon, <1>1, <1>2, <1>3 DEF VaultType

LEMMA StampedType ==
    ASSUME FileType, NEW o \in Ops
    PROVE  /\ Stamped(o) \in Files
           /\ Stamped(o).marker.op = o /\ Stamped(o).marker.epoch = ws.marker.epoch + 1
           /\ Stamped(o).marker.after = (request[o].kind # "REMOVE") /\ Stamped(o).reg = Stamped(o).marker.after
<1> DEFINE after == request[o].kind # "REMOVE"
           bgen == IF after = ws.marker.after THEN ws.bgen ELSE ws.bgen + 1
           marker == [op |-> o, epoch |-> ws.marker.epoch + 1, wgen |-> ws.wgen + 1, bgen |-> bgen,
                      before |-> ws.marker.after, after |-> after]
<1>1. ws.wgen + 1 \in Nat /\ ws.marker.epoch + 1 \in Nat /\ ws.marker.after \in BOOLEAN /\ bgen \in Nat /\ after \in BOOLEAN
  BY DEF FileType, Files, Markers
<1>2. Stamped(o) = [wgen |-> ws.wgen + 1, bgen |-> bgen, reg |-> after, marker |-> marker]
  BY Zenon DEF Stamped
<1> HIDE DEF after, bgen
<1>3. marker \in Markers /\ marker.op = o /\ marker.epoch = ws.marker.epoch + 1 /\ marker.after = after
  BY Zenon, <1>1 DEF Markers
<1> HIDE DEF marker
<1>4. Stamped(o) \in Files /\ Stamped(o).marker = marker /\ Stamped(o).reg = after
  BY <1>1, <1>2, <1>3 DEF Files
<1> QED
  BY Zenon, <1>3, <1>4 DEF after

LEMMA FileTypeNext ==
    ASSUME TypeInv, ControlInv, [Next]_vars
    PROVE  FileType'
<1>1. FileType /\ ws \in Files /\ disk \in Files /\ (at.pc # "idle" => at.op \in Ops)
  BY Zenon DEF TypeInv, FileType, ControlInv
<1>2. CASE WriteWorkspace
  <2>1. PICK o \in Ops : o = at.op
    BY Zenon, <1>1, <1>2 DEF WriteWorkspace
  <2>2. ws' \in {ws, Stamped(o)} /\ disk' \in {disk, Stamped(o)}
    BY Zenon, <1>2, <2>1 DEF WriteWorkspace, Op
  <2> QED
    BY Zenon, <1>1, <2>2, StampedType DEF FileType
<1>3. CASE SyncWitness
  BY Zenon, <1>1, <1>3 DEF SyncWitness, FileType
<1>4. CASE EditWorkspace
  BY <1>1, <1>4 DEF EditWorkspace, FileType, Files
<1>5. CASE EditBrokerDomain
  BY Zenon, <1>1, <1>5 DEF EditBrokerDomain, FileType, Files
<1>6. CASE Crash
  BY Zenon, <1>1, <1>6 DEF Crash, FileType
<1> QED
  BY Zenon, <1>1, <1>2, <1>3, <1>4, <1>5, <1>6, FileFrame DEF FileType

LEMMA LaneFrame ==
    ASSUME [Next]_vars, \A o \in Ops : ~Mutate(o), ~Admit, ~BeginRecovery, ~ReleaseClaim, ~Crash
    PROVE  lane' = lane /\ (revoked' = revoked \/ revoked' = TRUE)
BY Zenon DEF Next, Step, vars, leaseVars, Ask, RevokeReads, Drained, DrainTimesOut, LaneLost,
   RetireTarget, Dispatch,
   AwaitWorker, StagePlan, Cancel, MarkAttempted, WriteWorkspace, SyncWitness, AbandonCommitted, Apply, Publish, Rebuild,
   DisposeOperation, RejectOperation, RecoverOperation, LatchConflict, StartCleanup, RetryDrain, GiveUp, RecoverIdle,
   ReadsFinish, WorkerEnds, CleanupEnds, EditWorkspace, EditBrokerDomain

LEMMA LeaseFrame ==
    ASSUME [Next]_vars, \A o \in Ops : ~Mutate(o), ~BeginRecovery, ~ReleaseClaim, ~Crash, ~RevokeReads, ~Drained,
           ~RetireTarget, ~Dispatch, ~WorkerEnds, ~Publish, ~Rebuild, ~ReadsFinish, ~StartCleanup, ~CleanupEnds, ~RetryDrain
    PROVE  UNCHANGED <<drain, worker, fresh, old, live, reads>>
BY Zenon DEF Next, Step, vars, leaseVars, runtimeVars, Ask, Admit, DrainTimesOut, LaneLost,
   AwaitWorker, StagePlan, Cancel,
   MarkAttempted, WriteWorkspace, SyncWitness, AbandonCommitted, Apply, DisposeOperation, RejectOperation, RecoverOperation,
   LatchConflict, GiveUp, RecoverIdle, EditWorkspace, EditBrokerDomain

LEMMA RequestFrame ==
    ASSUME [Next]_vars, ~(\E o \in Ops : \E k \in Kinds : Ask(o, k))
    PROVE  request' = request
BY Zenon DEF Next, Step, vars, Mutate, Admit, RevokeReads, Drained, DrainTimesOut, LaneLost,
   RetireTarget, Dispatch,
   AwaitWorker, StagePlan, Cancel, MarkAttempted, WriteWorkspace, SyncWitness, AbandonCommitted, Apply, Publish, Rebuild,
   DisposeOperation, RejectOperation, RecoverOperation, LatchConflict, StartCleanup, RetryDrain, ReleaseClaim, GiveUp,
   BeginRecovery, RecoverIdle, ReadsFinish, WorkerEnds, CleanupEnds, EditWorkspace, EditBrokerDomain, Crash

LEMMA CountFrame ==
    ASSUME [Next]_vars, ~Dispatch, ~WriteWorkspace
    PROVE  UNCHANGED <<auths, stamps>>
BY Zenon DEF Next, Step, vars, countVars, Mutate, Ask, Admit, RevokeReads, Drained, DrainTimesOut,
   LaneLost, RetireTarget,
   AwaitWorker, StagePlan, Cancel, MarkAttempted, SyncWitness, AbandonCommitted, Apply, Publish, Rebuild,
   DisposeOperation, RejectOperation, RecoverOperation, LatchConflict, StartCleanup, RetryDrain, ReleaseClaim, GiveUp,
   BeginRecovery, RecoverIdle, ReadsFinish, WorkerEnds, CleanupEnds, EditWorkspace, EditBrokerDomain, Crash

LEMMA ForeignFrame ==
    ASSUME [Next]_vars, ~EditBrokerDomain
    PROVE  foreign' = foreign
BY Zenon DEF Next, Step, vars, worldVars, Mutate, Ask, Admit, RevokeReads, Drained, DrainTimesOut,
   LaneLost, RetireTarget,
   Dispatch, AwaitWorker, StagePlan, Cancel, MarkAttempted, WriteWorkspace, SyncWitness, AbandonCommitted, Apply, Publish,
   Rebuild, DisposeOperation, RejectOperation, RecoverOperation, LatchConflict, StartCleanup, RetryDrain, ReleaseClaim,
   GiveUp, BeginRecovery, RecoverIdle, ReadsFinish, WorkerEnds, CleanupEnds, EditWorkspace, Crash

\* A request is made once.
LEMMA RequestNext ==
    ASSUME TypeInv, [Next]_vars
    PROVE  /\ request' \in [Ops -> Requests]
           /\ \A o \in Ops : request[o] # NoRequest => request'[o] = request[o]
<1>0. request \in [Ops -> Requests]
  BY Zenon DEF TypeInv, SectionType
<1>1. ASSUME NEW o \in Ops, NEW k \in Kinds, Ask(o, k)
      PROVE  /\ request' \in [Ops -> Requests]
             /\ \A p \in Ops : request[p] # NoRequest => request'[p] = request[p]
  <2>1. [kind |-> k, wgen |-> ws.wgen, bgen |-> ws.bgen, cred |-> cred] \in Requests
    BY Zenon DEF Requests, TypeInv, VaultType, FileType, Files
  <2> QED
    BY Zenon, <1>0, <1>1, <2>1 DEF Ask
<1> QED
  BY Zenon, <1>0, <1>1, RequestFrame

LEMMA SectionTypeNext ==
    ASSUME TypeInv, ControlInv, ClaimInv, RowInv, StageInv, [Next]_vars
    PROVE  SectionType'
<1>1. lane' \in Ops \cup {None}
  <2>0. lane \in Ops \cup {None} /\ claim \in Ops \cup {None}
    BY Zenon DEF TypeInv, SectionType, VaultType
  <2>1. ASSUME NEW o \in Ops, Mutate(o) PROVE lane' \in Ops \cup {None}
    BY Zenon, <2>0, <2>1 DEF Mutate, BorrowLane
  <2>2. CASE Admit \/ ReleaseClaim \/ BeginRecovery \/ Crash
    BY Zenon, <2>0, <2>2 DEF Admit, ReleaseClaim, BeginRecovery, BorrowLane, Crash
  <2> QED
    BY Zenon, <2>0, <2>1, <2>2, LaneFrame
<1> QED
  BY Zenon, <1>1, ControlNext, RequestNext DEF SectionType

LEMMA CountTypeNext ==
    ASSUME TypeInv, ControlInv, [Next]_vars
    PROVE  CountType'
<1>0. /\ foreign \in Nat
      /\ auths \in [Ops -> Nat] /\ stamps \in [Ops -> Nat]
  BY Zenon DEF TypeInv, CountType
<1>1. auths' \in [Ops -> Nat] /\ stamps' \in [Ops -> Nat]
  <2>1. CASE Dispatch
    BY <1>0, <2>1 DEF Dispatch
  <2>2. CASE WriteWorkspace
    <3>1. stamps' = [stamps EXCEPT ![Op] = @ + 1] /\ auths' = auths
      BY Zenon, <2>2 DEF WriteWorkspace
    <3>2. Op \in Ops
      BY Zenon, <2>2 DEF WriteWorkspace, ControlInv, Op
    <3> QED
      BY <1>0, <3>1, <3>2
  <2> QED
    BY Zenon, <1>0, <2>1, <2>2, CountFrame
<1>2. foreign' \in Nat
  <2>1. CASE EditBrokerDomain
    BY <1>0, <2>1 DEF EditBrokerDomain
  <2> QED
    BY Zenon, <1>0, <2>1, ForeignFrame
<1> QED
  BY Zenon, <1>1, <1>2 DEF CountType

\* The lease, the registry session and its readers.
LEMMA BorrowEffect ==
    ASSUME NEW o, BorrowLane(o)
    PROVE  /\ lane' = o
           /\ \/ lane = o /\ UNCHANGED <<revoked, drain, worker, fresh, old>>
              \/ /\ lane # o /\ revoked' = FALSE /\ drain' = "none" /\ worker' = "none"
                 /\ fresh' = "none" /\ old' = "none"
BY Zenon DEF BorrowLane, NewLease, leaseVars

LEMMA LeaseTypeNext ==
    ASSUME TypeInv, ControlInv, [Next]_vars
    PROVE  LeaseType'
<1> DEFINE Lease == /\ revoked \in BOOLEAN /\ drain \in {"none", "asked", "done"}
                    /\ worker \in {"none", "running", "done", "rejected", "failed"}
                    /\ fresh \in {"none", "held", "cleaning"} /\ old \in {"none", "held", "cleaning"}
           Runtime == live \in [op : Ops \cup {None}, cred : Nat, bgen : Nat] /\ reads \in {"none", "open", "draining"}
<1>0. Lease /\ Runtime
  BY Zenon DEF TypeInv, LeaseType
<1>1. SUFFICES Lease' /\ Runtime'
  BY Zenon DEF LeaseType
<1>2. ASSUME UNCHANGED live, UNCHANGED reads, NEW o, BorrowLane(o) PROVE Lease' /\ Runtime'
  BY Zenon, <1>0, <1>2, BorrowEffect
<1>3. ASSUME NEW o \in Ops, Mutate(o) PROVE Lease' /\ Runtime'
  <2>1. UNCHANGED live /\ UNCHANGED reads /\ (UNCHANGED leaseVars \/ BorrowLane(o))
    BY Zenon, <1>3 DEF Mutate, runtimeVars
  <2> QED
    BY ZenonT(30), <1>0, <1>2, <2>1 DEF leaseVars
<1>4. CASE BeginRecovery
  BY Zenon, <1>2, <1>4 DEF BeginRecovery, runtimeVars
<1>5. CASE Crash
  BY Zenon, <1>5, OpsAssumption DEF Crash, NewLease, NoSession
<1>6. CASE ReleaseClaim
  <2>1. UNCHANGED <<live, reads>> /\ (NewLease \/ (revoked' = TRUE /\ UNCHANGED <<drain, worker, fresh, old>>))
    BY Zenon, <1>6 DEF ReleaseClaim, runtimeVars
  <2> QED
    BY Zenon, <1>0, <2>1 DEF NewLease
<1>7. CASE Publish
  <2>1. /\ UNCHANGED <<revoked, drain, worker, old, reads>>
        /\ \/ UNCHANGED <<fresh, live>>
           \/ live' = [op |-> at.op, cred |-> cred, bgen |-> ws.bgen] /\ fresh' = "none"
    BY Zenon, <1>7 DEF Publish, Op
  <2>2. [op |-> at.op, cred |-> cred, bgen |-> ws.bgen] \in [op : Ops \cup {None}, cred : Nat, bgen : Nat]
    BY Zenon DEF TypeInv, VaultType, FileType, Files, SectionType, Sections
  <2> QED
    BY Zenon, <1>0, <2>1, <2>2
<1>8. CASE RetireTarget
  <2>1. /\ UNCHANGED <<revoked, drain, worker, fresh, reads>>
        /\ (live' = live \/ live' = NoSession) /\ (old' = old \/ old' = "held")
    BY Zenon, <1>8 DEF RetireTarget
  <2> QED
    BY <1>0, <2>1 DEF NoSession
<1>9. CASE Dispatch
  <2>1. /\ UNCHANGED <<revoked, drain, fresh, old, live, reads>>
        /\ worker' = worker \/ worker' = "running" \/ worker' = "failed"
    BY Zenon, <1>9 DEF Dispatch, runtimeVars
  <2> QED
    BY ZenonT(30), <1>0, <2>1
<1>10. CASE RevokeReads \/ Drained \/ RetryDrain \/ WorkerEnds \/ StartCleanup \/ CleanupEnds
  <2>1. CASE RevokeReads
    BY Zenon, <1>0, <2>1 DEF RevokeReads
  <2>2. CASE Drained \/ RetryDrain
    BY Zenon, <1>0, <2>2 DEF Drained, RetryDrain, runtimeVars
  <2>3. CASE WorkerEnds
    BY Zenon, <1>0, <2>3 DEF WorkerEnds, runtimeVars
  <2>4. CASE StartCleanup
    BY Zenon, <1>0, <2>4 DEF StartCleanup, runtimeVars
  <2>5. CASE CleanupEnds
    BY Zenon, <1>0, <2>5 DEF CleanupEnds, runtimeVars
  <2> QED
    BY Zenon, <1>10, <2>1, <2>2, <2>3, <2>4, <2>5
<1>11. CASE ReadsFinish
  BY Zenon, <1>0, <1>11 DEF ReadsFinish, leaseVars
<1>12. CASE Rebuild
  <2>1. UNCHANGED live /\ UNCHANGED leaseVars /\ (reads' = reads \/ reads' = "open")
    BY Zenon, <1>12 DEF Rebuild
  <2> QED
    BY Zenon, <1>0, <2>1 DEF leaseVars
<1>13. CASE Admit
  BY Zenon, <1>0, <1>13 DEF Admit, leaseVars, runtimeVars
<1>14. ASSUME UNCHANGED <<drain, worker, fresh, old, live, reads>>, revoked' = revoked \/ revoked' = TRUE
       PROVE  Lease' /\ Runtime'
  BY Zenon, <1>0, <1>14
<1> HIDE DEF Lease, Runtime
<1> QED
  BY Zenon, <1>3, <1>4, <1>5, <1>6, <1>7, <1>8, <1>9, <1>10, <1>11, <1>12, <1>13, <1>14,
     LaneFrame, LeaseFrame

LEMMA TypeNext ==
    ASSUME TypeInv, ControlInv, ClaimInv, RowInv, StageInv, FileInv, [Next]_vars
    PROVE  TypeInv'
BY Zenon, RowsNext, VaultTypeNext, FileTypeNext, SectionTypeNext, LeaseTypeNext, CountTypeNext,
   Zenon DEF TypeInv

-----------------------------------------------------------------------------
(* The claim, the lane and the stages *)

LEMMA RowFacts ==
    ASSUME RowsMove, NEW o \in Ops
    PROVE  /\ row'[o].stage \in Open => row[o].stage \in Open \/ (at.pc = "admit" /\ o = at.op /\ claim' = o)
           /\ row[o].stage # "none" => row'[o].stage # "none"
           /\ row[o].stage = "none" => row'[o] = row[o] \/ (claim = None /\ claim' = o)
           /\ row[o].stage = "COMMITTED" => row'[o].stage = "COMMITTED"
           /\ row[o].attempted => row'[o].attempted
<1>1. RowMove(o)
  BY Zenon DEF RowsMove
<1>2. row[o] = NoRow => row[o].stage = "none"
  BY DEF NoRow
<1> QED
  BY Zenon, <1>1, <1>2 DEF RowMove, Open, Denied, Terminal

LEMMA StepPlaces ==
    ASSUME Step, ~Admit
    PROVE  /\ at.pc \notin {"idle", "admit"}
           /\ at.pc = "drain" => lane = at.op \/ (LaneLost /\ at' = Idle)
BY Zenon DEF Step, RevokeReads, Drained, DrainTimesOut, LaneLost, RetireTarget, Dispatch,
   AwaitWorker, StagePlan, Cancel,
   MarkAttempted, WriteWorkspace, SyncWitness, AbandonCommitted, Apply, Publish, Rebuild, DisposeOperation,
   RejectOperation, RecoverOperation, LatchConflict, StartCleanup, RetryDrain, ReleaseClaim, GiveUp, Op

\* A section that goes on or ends keeps its claim and its lane.
LEMMA SectionClaim ==
    ASSUME TypeInv, ControlInv, ControlInv', ClaimInv, RowsMove, SectionMove, at.pc \notin {"idle", "admit"},
           UNCHANGED <<claim, lane>>, revoked' = revoked \/ revoked' = TRUE,
           at.pc = "drain" => lane = at.op \/ at' = Idle
    PROVE  ClaimInv'
<1>0. /\ claim \in Ops \cup {None} /\ lane \in Ops \cup {None} /\ at.op \in Ops /\ at.pc \notin {"idle", "admit"}
  BY Zenon DEF TypeInv, VaultType, SectionType, ControlInv
<1>1. /\ \A o \in Ops : row'[o].stage \in Open => row[o].stage \in Open
      /\ \A o \in Ops : row[o].stage # "none" => row'[o].stage # "none"
  BY Zenon, <1>0, RowFacts
<1>2. \/ at' = Idle
      \/ /\ at'.op = at.op /\ lane = at.op /\ at'.pc # "admit" /\ at'.pc # "idle"
         /\ at'.mode = "recover" => at.mode = "recover"
  <2>1. CASE Fails \/ Onward \/ Settles
    <3>1. at'.pc # "idle" /\ at'.pc # "admit" /\ at'.op = at.op /\ (at'.mode = "recover" => at.mode = "recover")
      BY Zenon, <2>1 DEF Fails, Onward, Settles
    <3>2. at' # Idle
      BY Zenon, <3>1, IdleSection
    <3> QED
      BY Zenon, <1>0, <3>1, <3>2 DEF ClaimInv
  <2>2. CASE Returns
    <3>1. CASE saved.pc = "idle"
      BY Zenon, <2>2, <3>1 DEF Returns, ControlInv
    <3>2. CASE saved.pc \in Awaits
      <4>1. at' # Idle
        BY Zenon, <2>2, <3>2, IdleSection DEF Returns, Awaits
      <4>2. at'.op = at.op /\ at'.pc # "admit" /\ at'.pc # "idle"
        BY Zenon, <2>2, <3>2 DEF Returns, Awaits, ControlInv
      <4> QED
        BY Zenon, <1>0, <2>2, <4>1, <4>2 DEF ClaimInv, Returns
    <3>3. saved.pc \in Awaits \cup {"idle"}
      BY Zenon, <2>2 DEF TypeInv, SectionType, Frames, Returns
    <3> QED
      BY Zenon, <3>1, <3>2, <3>3
  <2> QED
    BY Zenon, <2>1, <2>2 DEF SectionMove, Ends
<1>3. claim # None => claim \in Ops
  BY Zenon, <1>0
<1>4. lane # None => lane \in Ops
  BY Zenon, <1>0
<1>5. /\ \A o \in Ops : row'[o].stage \in Open => claim' = o
      /\ claim' # None => row'[claim'].stage # "none"
  BY Zenon, <1>1, <1>3 DEF ClaimInv
<1>6. lane' # None => /\ row'[lane'].stage # "none"
                      /\ claim' = lane' \/ (claim' = None /\ revoked')
  BY Zenon, <1>0, <1>1, <1>4 DEF ClaimInv
<1>7. CASE at' = Idle
  BY Zenon, <1>5, <1>6, <1>7, IdleSection DEF ClaimInv
<1>8. CASE /\ at'.op = at.op /\ lane = at.op /\ at'.pc # "admit" /\ at'.pc # "idle"
           /\ at'.mode = "recover" => at.mode = "recover"
  <2>1. claim' \in {None, at'.op} /\ row'[at'.op].stage # "none"
    BY Zenon, <1>0, <1>1, <1>8 DEF ClaimInv
  <2>2. at'.mode = "recover" => claim' = at'.op
    BY Zenon, <1>8 DEF ClaimInv
  <2>3. lane' = at'.op
    BY Zenon, <1>8
  <2> QED
    BY Zenon, <1>5, <1>6, <1>8, <2>1, <2>2, <2>3 DEF ClaimInv
<1> QED
  BY Zenon, <1>2, <1>7, <1>8

\* The admitted operation has the claim and keeps the lane; what is dropped leaves the lane.
LEMMA AdmitClaim ==
    ASSUME TypeInv, ControlInv, ClaimInv, Admit
    PROVE  ClaimInv'
<1>0. /\ at \in Sections /\ saved \in Frames /\ row \in [Ops -> Rows] /\ at.pc = "admit" /\ at.op \in Ops
      /\ row[at.op] = NoRow /\ at.mode = "mutate" /\ lane = at.op /\ claim \in Ops \cup {None}
  BY Zenon DEF TypeInv, VaultType, SectionType, ControlInv, ClaimInv, Admit, MutatePcs
<1>1. \/ row' = row /\ claim' = claim /\ lane' = None /\ at' = Idle
      \/ /\ row' = [row EXCEPT ![at.op] = [NoRow EXCEPT !.stage = "ADMITTED"]]
         /\ claim = None /\ claim' = at.op /\ lane' = lane /\ (Goto("retire") \/ Raise)
  BY Zenon DEF Admit, Op
<1>2. CASE row' = row /\ claim' = claim /\ lane' = None /\ at' = Idle
  BY Zenon, <1>0, <1>2, IdleSection DEF ClaimInv
<1>3. CASE /\ row' = [row EXCEPT ![at.op] = [NoRow EXCEPT !.stage = "ADMITTED"]]
           /\ claim = None /\ claim' = at.op /\ lane' = lane /\ (Goto("retire") \/ Raise)
  <2>1. row'[at.op].stage = "ADMITTED" /\ \A p \in Ops : p = at.op \/ row'[p] = row[p]
    BY Zenon, <1>0, <1>3 DEF NoRow
  <2>2. at'.op = at.op /\ at'.pc \in {"retire", "dispose"} /\ at'.mode # "recover"
    BY <1>0, <1>3 DEF Goto, Raise, Disposing, Op, Sections
  <2>3. \A o \in Ops : row'[o].stage \in Open => claim' = o
    BY Zenon, <1>0, <1>3, <2>1, OpsAssumption DEF ClaimInv
  <2>4. claim' = at'.op /\ lane' = at'.op /\ row'[at'.op].stage # "none"
    BY Zenon, <1>0, <1>3, <2>1, <2>2
  <2> QED
    BY Zenon, <2>2, <2>3, <2>4 DEF ClaimInv
<1> QED
  BY Zenon, <1>1, <1>2, <1>3

\* Only a decided operation gives up its claim.
LEMMA ReleaseClaimClaim ==
    ASSUME TypeInv, ControlInv, ControlInv', ClaimInv, StageInv, RowsMove, SectionMove, ReleaseClaim
    PROVE  ClaimInv'
<1>0. /\ at.pc = "settle" /\ at.op \in Ops /\ lane = at.op /\ row[at.op].stage \in Releasable
      /\ claim \in {None, at.op} /\ row[at.op].stage # "none" /\ row' = row
      /\ at.mode = "recover" => saved.pc # "replay"
  BY Zenon DEF ReleaseClaim, Op, ControlInv, ClaimInv, StageInv, StageAt
<1>1. PICK f \in Outcomes :
        /\ claim' = IF f = Lost THEN claim ELSE None
        /\ \/ f = "ok" /\ lane' = None /\ at' = (IF at.mode = "recover" THEN Resumed(FALSE) ELSE Idle)
           \/ lane' = lane /\ Raise /\ revoked' = TRUE
  BY Zenon DEF ReleaseClaim
<1>2. CASE f = Lost
  <2>1. claim' = claim /\ lane' = lane /\ revoked' = TRUE
    BY Zenon, <1>1, <1>2 DEF Lost
  <2> QED
    BY Zenon, <1>0, <2>1, SectionClaim
<1>3. CASE f # Lost
  <2>1. claim' = None
    BY Zenon, <1>1, <1>3
  <2>2. \A o \in Ops : row'[o].stage \notin Open
    <3>1. \A o \in Ops : row[o].stage \in Open => o = at.op
      BY Zenon, <1>0, OpsAssumption DEF ClaimInv
    <3> QED
      BY Zenon, <1>0, <3>1 DEF Open, Releasable
  <2>3. \/ at' = Idle
        \/ /\ at'.op = at.op /\ at'.pc \notin {"idle", "admit"} /\ at'.mode # "recover"
           /\ (lane' = lane /\ revoked' = TRUE) \/ at'.pc = "drain"
    <3>1. CASE at.mode = "recover" /\ (at' = Resumed(FALSE) \/ at' = Resumed(TRUE))
      <4>1. saved.pc \in Awaits \cup {"idle"} /\ (saved.pc = "wait" => row[at.op].stage \notin Releasable)
        BY Zenon, <1>0, <3>1 DEF TypeInv, SectionType, Frames, StageInv, StageAt, Awaits, Releasable
      <4>2. at' = Idle \/ at' = saved
        BY Zenon, <3>1 DEF Resumed
      <4>3. saved.pc = "settle" => at' = Idle \/ at' = Resumed(TRUE)
        BY Zenon, <3>1 DEF Resumed
      <4>4. CASE at' = saved /\ saved.pc = "drain"
        BY Zenon, <4>4 DEF ControlInv, Awaits
      <4>5. CASE at' = saved /\ saved.pc = "settle" /\ at' # Idle
        <5>1. lane' = lane /\ revoked' = TRUE
          BY Zenon, <1>1, <3>1, <4>5 DEF Resumed
        <5> QED
          BY Zenon, <4>5, <5>1 DEF ControlInv, Awaits
      <4> QED
        BY Zenon, <1>0, <4>1, <4>2, <4>4, <4>5 DEF Awaits, ControlInv
    <3>2. CASE at' = Disposing("operation_failed") /\ lane' = lane /\ revoked' = TRUE
      BY Zenon, <3>2 DEF Disposing, Op
    <3> QED
      BY Zenon, <1>0, <1>1, <3>1, <3>2 DEF Raise
  <2>4. (lane' = lane /\ revoked' = TRUE) \/ lane' = None
    BY Zenon, <1>1
  <2>5. lane' # None => row'[lane'].stage # "none" /\ claim' = None /\ revoked'
    BY Zenon, <1>0, <2>1, <2>4
  <2>6. CASE at' = Idle
    BY Zenon, <2>1, <2>2, <2>5, <2>6, IdleSection DEF ClaimInv
  <2>7. CASE /\ at'.op = at.op /\ at'.pc \notin {"idle", "admit"} /\ at'.mode # "recover"
             /\ (lane' = lane /\ revoked' = TRUE) \/ at'.pc = "drain"
    <3>1. at'.pc # "drain" => lane' = at'.op
      BY Zenon, <1>0, <2>7
    <3>2. lane' \in {None, at'.op} /\ row'[at'.op].stage # "none"
      BY Zenon, <1>0, <2>4, <2>7
    <3> QED
      BY Zenon, <2>1, <2>2, <2>5, <2>7, <3>1, <3>2 DEF ClaimInv
  <2> QED
    BY Zenon, <2>3, <2>6, <2>7
<1> QED
  BY Zenon, <1>2, <1>3

\* A section starts on the lane of its operation.
LEMMA StartClaim ==
    ASSUME TypeInv, ControlInv, ClaimInv, RowInv, (\E o \in Ops : Mutate(o)) \/ BeginRecovery
    PROVE  ClaimInv'
<1>0. UNCHANGED <<row, claim, request>>
  BY Zenon DEF Mutate, BeginRecovery, vaultVars
<1>1. /\ \A o \in Ops : row'[o].stage \in Open => claim' = o
      /\ claim' # None => row'[claim'].stage # "none"
  BY Zenon, <1>0 DEF ClaimInv
<1>2. ASSUME NEW o \in Ops, Mutate(o) PROVE ClaimInv'
  <2>1. /\ at.pc = "idle" /\ request[o] # NoRequest /\ at'.op = o
        /\ \/ /\ at'.pc = "settle" /\ at'.mode = "final" /\ lane = o
              /\ row[o].stage \in Releasable /\ UNCHANGED <<lane, leaseVars>>
           \/ /\ ~HasReceipt(o) /\ BorrowLane(o)
              /\ \/ at'.pc = "admit" /\ at'.mode = "mutate" /\ row[o] = NoRow
                 \/ at'.pc = "retire" /\ at'.mode = "mutate" /\ row[o].stage = "ADMITTED"
                 \/ at'.pc = "recover" /\ row[o] # NoRow
    BY Zenon, <1>2, MutateStarts
  <2>2. CASE at'.pc = "settle"
    <3>1. lane = o /\ lane' = lane /\ revoked' = revoked /\ at'.mode # "recover" /\ row[o].stage # "none"
      BY Zenon, <2>1, <2>2 DEF leaseVars, Releasable
    <3>2. claim = o \/ (claim = None /\ revoked)
      BY Zenon, <2>1, <3>1, OpsAssumption DEF ClaimInv
    <3> QED
      BY Zenon, <1>0, <1>1, <2>1, <2>2, <3>1, <3>2 DEF ClaimInv
  <2>3. CASE at'.pc = "admit"
    <3>1. lane' = o /\ row[o] = NoRow /\ at'.mode # "recover"
      BY Zenon, <2>1, <2>3, BorrowEffect
    <3> QED
      BY Zenon, <1>0, <1>1, <2>1, <2>3, <3>1 DEF ClaimInv
  <2>4. CASE at'.pc \in {"retire", "recover"}
    <3>1. lane' = o
      BY Zenon, <2>1, <2>4, BorrowEffect
    <3>2. row[o].stage \in Open
      BY Zenon, <2>1, <2>4 DEF HasReceipt, Open, RowInv, RowOf, TypeInv, VaultType, Rows, Stages
    <3>3. claim = o /\ row[o].stage # "none"
      BY Zenon, <3>2 DEF ClaimInv, Open
    <3> QED
      BY Zenon, <1>0, <1>1, <2>1, <2>4, <3>1, <3>3 DEF ClaimInv
  <2> QED
    BY Zenon, <2>1, <2>2, <2>3, <2>4
<1>3. CASE BeginRecovery
  <2>1. claim \in Ops /\ BorrowLane(claim) /\ at'.op = claim /\ at'.pc = "recover"
    BY Zenon, <1>3, RecoveryStarts
  <2>2. lane' = claim /\ row[claim].stage # "none"
    BY Zenon, <2>1, OpsAssumption DEF BorrowLane, ClaimInv
  <2> QED
    BY Zenon, <1>0, <1>1, <2>1, <2>2 DEF ClaimInv
<1> QED
  BY Zenon, <1>2, <1>3

LEMMA ClaimNext ==
    ASSUME TypeInv, ControlInv, ClaimInv, RowInv, StageInv, FileInv, [Next]_vars
    PROVE  ClaimInv'
<1>0. ControlInv' /\ RowsMove
  BY Zenon, ControlNext, RowsNext
<1>1. CASE Step /\ ~Admit /\ ~ReleaseClaim /\ SectionMove
  <2>1. claim' = claim /\ at.pc \notin {"idle", "admit"} /\ (at.pc = "drain" => lane = at.op \/ at' = Idle)
    BY Zenon, <1>1, VaultFrame, StepPlaces
  <2>2. lane' = lane /\ (revoked' = revoked \/ revoked' = TRUE)
    BY Zenon, <1>1 DEF Step, leaseVars, RevokeReads, Drained, DrainTimesOut, LaneLost,
       RetireTarget, Dispatch, AwaitWorker,
       StagePlan, Cancel, MarkAttempted, WriteWorkspace, SyncWitness, AbandonCommitted, Apply, Publish, Rebuild,
       DisposeOperation, RejectOperation, RecoverOperation, LatchConflict, StartCleanup, RetryDrain, GiveUp
  <2> QED
    BY Zenon, <1>0, <1>1, <2>1, <2>2, SectionClaim
<1>2. CASE Crash
  <2>1. UNCHANGED <<row, claim>> /\ at' = Idle /\ lane' = None
    BY Zenon, <1>2 DEF Crash, vaultVars
  <2> QED
    BY Zenon, <2>1, IdleSection DEF ClaimInv
<1>3. ASSUME UNCHANGED <<at, claim, lane>>, revoked' = revoked \/ revoked' = TRUE, UNCHANGED row \/ at.pc # "admit"
      PROVE  ClaimInv'
  <2>1. /\ claim \in Ops \cup {None} /\ lane \in Ops \cup {None} /\ (at.pc # "idle" => at.op \in Ops)
    BY Zenon DEF TypeInv, VaultType, SectionType, ControlInv
  <2>2. /\ \A o \in Ops : row'[o].stage \in Open => row[o].stage \in Open
        /\ \A o \in Ops : row[o].stage # "none" => row'[o].stage # "none"
    BY Zenon, <1>0, <1>3, RowFacts
  <2>3. claim # None => claim \in Ops
    BY Zenon, <2>1
  <2>4. lane # None => lane \in Ops
    BY Zenon, <2>1
  <2>5. at.pc = "admit" => row'[at.op] = NoRow /\ request'[at.op] # NoRequest
    BY Zenon, <1>3, <2>1, RequestNext DEF ClaimInv
  <2>6. /\ \A o \in Ops : row'[o].stage \in Open => claim' = o
        /\ claim' # None => row'[claim'].stage # "none"
    BY Zenon, <1>3, <2>2, <2>3 DEF ClaimInv
  <2>7. at.pc \notin {"idle", "admit"} => claim' \in {None, at.op} /\ row'[at.op].stage # "none"
    BY Zenon, <1>3, <2>1, <2>2 DEF ClaimInv
  <2>8. lane' # None /\ at.pc # "admit" => row'[lane'].stage # "none" /\ (claim' = lane' \/ (claim' = None /\ revoked'))
    BY <1>3, <2>2, <2>4 DEF ClaimInv
  <2>9. /\ at.pc \notin {"idle", "drain"} => lane' = at.op
        /\ at.pc = "drain" => lane' \in {None, at.op}
        /\ at.mode = "recover" => claim' = at.op
    BY Zenon, <1>3 DEF ClaimInv
  <2> QED
    BY Zenon, <1>3, <2>5, <2>6, <2>7, <2>8, <2>9 DEF ClaimInv
<1>4. CASE Step /\ ~Admit /\ ~ReleaseClaim /\ UNCHANGED <<at, saved>>
  <2>1. claim' = claim /\ at.pc \notin {"idle", "admit"}
    BY Zenon, <1>4, VaultFrame, StepPlaces
  <2>2. lane' = lane /\ (revoked' = revoked \/ revoked' = TRUE)
    BY Zenon, <1>4 DEF Step, leaseVars, RevokeReads, Drained, DrainTimesOut, LaneLost,
       RetireTarget, Dispatch, AwaitWorker,
       StagePlan, Cancel, MarkAttempted, WriteWorkspace, SyncWitness, AbandonCommitted, Apply, Publish, Rebuild,
       DisposeOperation, RejectOperation, RecoverOperation, LatchConflict, StartCleanup, RetryDrain, GiveUp
  <2> QED
    BY Zenon, <1>3, <1>4, <2>1, <2>2
<1>5. CASE UNCHANGED vars \/ (\E o \in Ops : \E k \in Kinds : Ask(o, k)) \/ RecoverIdle \/ ReadsFinish \/ WorkerEnds
           \/ CleanupEnds \/ EditWorkspace \/ EditBrokerDomain
  <2>1. UNCHANGED <<at, claim, lane>> /\ revoked' = revoked
    BY Zenon, <1>5 DEF vars, vaultVars, leaseVars, Ask, RecoverIdle, ReadsFinish,
       WorkerEnds, CleanupEnds, EditWorkspace,
       EditBrokerDomain
  <2>2. UNCHANGED row \/ at.pc # "admit"
    BY Zenon, <1>5 DEF vars, vaultVars, Ask, RecoverIdle, ReadsFinish, WorkerEnds, CleanupEnds,
       EditWorkspace, EditBrokerDomain
  <2> QED
    BY Zenon, <1>3, <2>1, <2>2
<1>6. CASE ReleaseClaim
  <2>1. SectionMove
    BY Zenon, <1>6, RowlessMoves
  <2> QED
    BY Zenon, <1>0, <1>6, <2>1, ReleaseClaimClaim
<1> QED
  BY Zenon, <1>1, <1>2, <1>4, <1>5, <1>6, StepMoves, AdmitClaim, StartClaim DEF Next

\* A row says what its operation has done: the provider is called from ADMITTED
\* only, and the workspace is written on an attempt that was not made before.
LEMMA RowNext ==
    ASSUME TypeInv, ControlInv, ClaimInv, RowInv, StageInv, FileInv, [Next]_vars
    PROVE  RowInv'
<1>0. RowsMove
  BY Zenon, RowsNext
<1>1. SUFFICES ASSUME NEW o \in Ops PROVE RowOf(o)'
  BY Zenon DEF RowInv
<1>2. RowOf(o) /\ RowMove(o) /\ auths[o] \in Nat /\ stamps[o] \in Nat /\ row[o] \in Rows
  BY Zenon, <1>0 DEF RowInv, RowsMove, TypeInv, CountType, VaultType
<1>3. row'[o].stage = "none" => row'[o] = NoRow
  BY Zenon, <1>2 DEF RowOf, RowMove, Denied, Terminal
<1>4. row'[o].stage # "none" => request'[o] # NoRequest
  <2>1. CASE row[o].stage # "none"
    BY Zenon, <1>2, <2>1, RequestNext DEF RowOf
  <2>2. CASE row[o].stage = "none" /\ row'[o].stage # "none"
    <3>1. at.pc = "admit" /\ o = at.op
      BY Zenon, <1>2, <2>2 DEF RowMove, Open, Denied, Terminal
    <3>2. request[o] # NoRequest
      BY Zenon, <3>1 DEF ClaimInv
    <3> QED
      BY Zenon, <3>2, RequestNext
  <2> QED
    BY Zenon, <2>1, <2>2
<1>5. row'[o].attempted => row'[o].stage \in {"PLAN_READY", "COMMITTED"}
  BY Zenon, <1>2 DEF RowOf, RowMove, NoRow
<1>6. auths'[o] <= 1 /\ (row'[o].stage \in {"none", "ADMITTED"} => auths'[o] = 0)
  <2>1. row'[o].stage \in {"none", "ADMITTED"} => row[o].stage \in {"none", "ADMITTED"}
    <3>1. RowMove(o) /\ NoRow.stage = "none"
      BY Zenon, <1>2 DEF NoRow
    <3> QED
      BY ONLY <3>1, SMT DEF RowMove, Denied, Terminal
  <2>2. CASE auths'[o] = auths[o]
    BY Zenon, <1>2, <2>1, <2>2 DEF RowOf
  <2>3. CASE Dispatch
    <3>1. \/ auths' = auths
          \/ /\ auths' = [auths EXCEPT ![at.op] = @ + 1] /\ row[at.op].stage = "ADMITTED"
             /\ \E f \in Outcomes : f = "ok" /\ SaveRow(at.op, [row[at.op] EXCEPT !.stage = "AUTHENTICATION_STARTED"], f)
      BY Zenon, <2>3 DEF Dispatch, Op
    <3>2. CASE /\ auths' = [auths EXCEPT ![at.op] = @ + 1] /\ row[at.op].stage = "ADMITTED"
               /\ \E f \in Outcomes : f = "ok" /\ SaveRow(at.op, [row[at.op] EXCEPT !.stage = "AUTHENTICATION_STARTED"], f)
      <4>1. CASE o = at.op
        <5>1. auths[o] = 0
          BY Zenon, <1>2, <3>2, <4>1 DEF RowOf
        <5>2. auths'[o] = 1
          BY <3>2, <4>1, <5>1 DEF TypeInv, CountType
        <5>3. row'[o].stage = "AUTHENTICATION_STARTED"
          BY <1>2, <3>2, <4>1 DEF SaveRow, Lost, TypeInv, VaultType, Rows
        <5> QED
          BY <5>2, <5>3
      <4>2. CASE o # at.op
        <5>1. auths'[o] = auths[o]
          BY Zenon, <3>2, <4>2 DEF TypeInv, CountType
        <5> QED
          BY Zenon, <2>2, <5>1
      <4> QED
        BY Zenon, <4>1, <4>2
    <3> QED
      BY Zenon, <2>2, <3>1, <3>2
  <2>4. CASE WriteWorkspace
    BY Zenon, <2>2, <2>4 DEF WriteWorkspace
  <2> QED
    BY Zenon, <2>2, <2>3, <2>4, CountFrame
<1>7. stamps'[o] <= 1 /\ (~row'[o].attempted => stamps'[o] = 0)
  <2>1. row[o].attempted => row'[o].attempted
    BY Zenon, <1>0, RowFacts
  <2>2. CASE stamps'[o] = stamps[o]
    BY Zenon, <1>2, <2>1, <2>2 DEF RowOf
  <2>3. CASE WriteWorkspace
    <3>1. stamps' = [stamps EXCEPT ![at.op] = @ + 1] /\ at.pc = "cas"
      BY Zenon, <2>3 DEF WriteWorkspace, Op
    <3>2. CASE o = at.op
      <4>1. row[o].attempted /\ stamps[o] = 0
        BY Zenon, <3>1, <3>2 DEF StageInv
      <4>2. stamps'[o] = 1
        BY <3>1, <3>2, <4>1 DEF TypeInv, CountType
      <4> QED
        BY <2>1, <4>1, <4>2
    <3>3. CASE o # at.op
      <4>1. stamps'[o] = stamps[o]
        BY Zenon, <3>1, <3>3 DEF TypeInv, CountType
      <4> QED
        BY Zenon, <2>2, <4>1
    <3> QED
      BY Zenon, <3>2, <3>3
  <2>4. CASE Dispatch
    BY Zenon, <2>2, <2>4 DEF Dispatch
  <2> QED
    BY Zenon, <2>2, <2>3, <2>4, CountFrame
<1> QED
  BY Zenon, <1>3, <1>4, <1>5, <1>6, <1>7 DEF RowOf

\* The stage at which a borrower was interrupted stays one it may resume at.
LEMMA StageKept ==
    ASSUME TypeInv, RowsMove, NEW o \in Ops, NEW pc, StageAt(pc, row[o].stage), row[o].stage # "none",
           \/ pc \in Awaits /\ at.mode = "recover" /\ at.pc \notin {"admit", "dispatch", "stage"}
           \/ row'[o] = row[o]
    PROVE  pc = "cas" \/ StageAt(pc, row'[o].stage)
<1>1. RowMove(o) /\ row[o] \in Rows
  BY Zenon DEF RowsMove, TypeInv, VaultType
<1>2. CASE row'[o].stage = row[o].stage
  BY Zenon, <1>2
<1>3. CASE row'[o].stage # row[o].stage
  BY Zenon, <1>1, <1>3 DEF StageAt, RowMove, Awaits, Open, Denied, Terminal, Releasable, NoRow
<1> QED
  BY Zenon, <1>2, <1>3

LEMMA StageNext ==
    ASSUME TypeInv, ControlInv, ClaimInv, RowInv, StageInv, FileInv, [Next]_vars
    PROVE  StageInv'
<1>0. RowsMove /\ ControlInv' /\ at' \in Sections /\ saved' \in Frames
  BY Zenon, RowsNext, ControlNext
<1>1. CASE SectionMove /\ at.pc # "admit"
  <2>0. at.op \in Ops /\ row[at.op].stage # "none"
    BY Zenon, <1>1 DEF SectionMove, ControlInv, ClaimInv
  <2>1. at.mode = "recover" => at.pc \notin {"admit", "dispatch", "stage"}
    BY Zenon DEF ControlInv, MutatePcs
  <2>2. at.mode = "recover" /\ saved.pc \in Awaits => StageAt(saved.pc, row'[at.op].stage)
    <3>1. PICK o \in Ops : o = at.op
      BY Zenon, <2>0
    <3>2. PICK p : p = saved.pc
      BY Zenon
    <3>3. p \in Awaits => p # "cas"
      BY Zenon DEF Awaits
    <3> QED
      BY Zenon, <1>0, <2>0, <2>1, <3>1, <3>2, <3>3, StageKept DEF StageInv
  <2>3. Idle.pc \notin Awaits
    BY Zenon, IdleSection DEF Awaits
  <2>4. CASE Fails
    BY Zenon, <2>3, <2>4 DEF Fails, StageInv, StageAt
  <2>5. CASE Ends
    BY Zenon, <2>3, <2>5, IdleSection DEF Ends, StageInv, StageAt
  <2>6. CASE Settles
    BY Zenon, <2>3, <2>6 DEF Settles, StageInv, StageAt
  <2>7. CASE Returns
    <3>1. CASE saved.pc = "idle"
      BY Zenon, <2>3, <2>7, <3>1 DEF Returns, StageInv
    <3>2. CASE saved.pc \in Awaits
      <4>1. at'.op = at.op /\ at'.pc = saved.pc /\ saved.pc # "cas"
        BY Zenon, <2>7, <3>2 DEF Returns, ControlInv, Awaits
      <4> QED
        BY Zenon, <2>2, <2>3, <2>7, <3>2, <4>1 DEF Returns, StageInv
    <3> QED
      BY Zenon, <2>7, <3>1, <3>2 DEF Returns, TypeInv, SectionType, Frames
  <2>8. CASE Onward
    <3>1. saved.pc \in Awaits => at.mode = "recover"
      BY Zenon, <2>3 DEF ControlInv
    <3> QED
      BY Zenon, <2>2, <2>8, <3>1 DEF Onward, StageInv
  <2> QED
    BY Zenon, <1>1, <2>4, <2>5, <2>6, <2>7, <2>8 DEF SectionMove
<1>2. CASE Admit
  <2>1. SectionMove /\ saved = Idle /\ Idle.pc \notin Awaits /\ at.mode = "mutate"
    BY Zenon, <1>2, AdmitMoves, IdleSection DEF Admit, ControlInv, MutatePcs, Awaits
  <2>2. CASE Fails \/ Settles \/ Ends
    BY Zenon, <2>1, <2>2, IdleSection DEF Fails, Settles, Ends, StageInv, StageAt
  <2>3. CASE Onward
    BY Zenon, <2>1, <2>3 DEF Onward, StageInv
  <2> QED
    BY Zenon, <2>1, <2>2, <2>3 DEF SectionMove, Returns
<1>3. ASSUME NEW o \in Ops, Mutate(o) PROVE StageInv'
  <2>1. /\ at'.op = o /\ row' = row
        /\ \/ at'.pc = "settle" /\ saved' = Idle /\ row[o].stage \in Releasable
           \/ at'.pc = "admit" /\ saved' = Idle
           \/ at'.pc = "retire" /\ saved' = Idle /\ row[o].stage = "ADMITTED"
           \/ at'.pc = "recover" /\ saved'.pc = "replay"
    BY Zenon, <1>3, MutateStarts DEF Mutate, vaultVars
  <2> QED
    BY Zenon, <2>1, IdleSection DEF StageInv, StageAt, Awaits
<1>4. CASE BeginRecovery
  <2>1. /\ saved' = at /\ at'.op = claim /\ at'.pc = "recover" /\ row' = row
        /\ (at.pc = "idle" /\ saved' = Idle) \/ at.pc \in Awaits
    BY Zenon, <1>4, RecoveryStarts DEF BeginRecovery, vaultVars
  <2>2. at.pc \in Awaits => at.op = claim
    BY Zenon, <1>4, <2>1 DEF ClaimInv, Awaits, BeginRecovery
  <2> QED
    BY Zenon, <2>1, <2>2, IdleSection DEF StageInv, StageAt, Awaits
<1>5. CASE Crash
  <2>1. at' = Idle /\ saved' = Idle
    BY Zenon, <1>5 DEF Crash
  <2> QED
    BY Zenon, <2>1, IdleSection DEF StageInv, Awaits
<1>6. CASE UNCHANGED <<at, saved, row>> /\ stamps' = stamps
  BY Zenon, <1>6 DEF StageInv
<1>7. CASE RecoverIdle
  <2>1. at' = at /\ saved' = saved /\ at.pc = "idle"
    BY Zenon, <1>7 DEF RecoverIdle
  <2>2. saved = Idle
    BY Zenon, <2>1, IdleSection DEF ControlInv
  <2> QED
    BY Zenon, <2>1, <2>2, IdleSection DEF StageInv, Awaits
<1>8. CASE UNCHANGED vars \/ (\E o \in Ops : \E k \in Kinds : Ask(o, k)) \/ ReadsFinish \/ WorkerEnds
           \/ CleanupEnds \/ EditWorkspace \/ EditBrokerDomain \/ StartCleanup \/ RetryDrain
  <2>1. UNCHANGED <<at, saved, row>> /\ stamps' = stamps
    BY Zenon, <1>8 DEF vars, vaultVars, countVars, Ask, ReadsFinish, WorkerEnds,
       CleanupEnds, EditWorkspace,
       EditBrokerDomain, StartCleanup, RetryDrain
  <2> QED
    BY Zenon, <1>6, <2>1
<1>9. CASE Step /\ ~Admit /\ ~StartCleanup /\ ~RetryDrain
  <2>1. at.pc # "admit"
    BY Zenon, <1>9, StepPlaces
  <2>2. SectionMove
    BY Zenon, <1>9, AdmitMoves, RetireTargetMoves, DispatchMoves, AwaitWorkerMoves,
       StagePlanMoves, MarkAttemptedMoves,
     AbandonCommittedMoves, ApplyMoves, PublishMoves, DisposeOperationMoves, RejectOperationMoves,
     RecoverOperationMoves, LatchConflictMoves, RowlessMoves DEF Step
  <2> QED
    BY Zenon, <1>1, <2>1, <2>2
<1> QED
  BY Zenon, <1>2, <1>3, <1>4, <1>5, <1>7, <1>8, <1>9 DEF Next

-----------------------------------------------------------------------------
(* Where a step leads *)

\* Away from the places that an invariant ties to the stores or to the session.
Away ==
    \/ at'.pc \in {"idle", "retire", "drain", "attempt", "sync", "publish", "rebuild", "dispose", "reject", "latch", "settle"}
    \/ at'.pc = "wait" /\ saved.pc = "wait"

LEMMA RaiseAway ==
    ASSUME at \in Sections, saved \in Frames, ControlInv, at.pc # "idle", Raise
    PROVE  Away
BY Zenon, RaiseEffect, IdleSection DEF Fails, Returns, Ends, Away, Frames, Awaits

LEMMA DisposedAway ==
    ASSUME at \in Sections, saved \in Frames, ControlInv, at.pc # "idle", NEW stage, Disposed(stage)
    PROVE  Away
<1>1. Returns \/ Ends \/ at'.pc = "settle"
  BY Zenon, DisposedEffect
<1> QED
  BY Zenon, <1>1, IdleSection DEF Returns, Ends, Away, Frames, Awaits

LEMMA GotoAway ==
    ASSUME at \in Sections,
           NEW p \in {"retire", "drain", "attempt", "sync", "publish", "rebuild", "reject", "latch", "settle"}, Goto(p)
    PROVE  Away
BY Zenon DEF Goto, Sections, Away

LEMMA Elsewhere ==
    ASSUME TypeInv, ControlInv, Step, ~Drained, ~RetireTarget, ~Dispatch, ~AwaitWorker, ~MarkAttempted, ~WriteWorkspace,
           ~SyncWitness, ~AbandonCommitted
    PROVE  Away \/ at' = at
<1>0. at \in Sections /\ saved \in Frames
  BY Zenon DEF TypeInv, SectionType
<1>1. at.pc # "idle"
  BY Zenon, StepPlaces DEF Admit
<1>2. CASE Admit \/ RevokeReads \/ StagePlan
  <2>1. at' = Idle \/ Raise \/ Goto("retire") \/ Goto("drain") \/ Goto("attempt")
    BY Zenon, <1>2 DEF Admit, RevokeReads, StagePlan
  <2>2. CASE at' = Idle
    BY Zenon, <2>2, IdleSection DEF Away
  <2> QED
    BY Zenon, <1>0, <1>1, <2>1, <2>2, RaiseAway, GotoAway
<1>3. CASE DrainTimesOut \/ LaneLost \/ Cancel
  BY <1>3, IdleSection DEF DrainTimesOut, LaneLost, Cancel, Dispose, Disposing, Away
<1>4. CASE StartCleanup \/ RetryDrain
  BY Zenon, <1>4 DEF StartCleanup, RetryDrain
<1>5. CASE ReleaseClaim \/ GiveUp
  <2>1. Raise \/ at' = Idle \/ (at' = saved /\ at.mode = "recover")
    BY Zenon, <1>5 DEF ReleaseClaim, GiveUp, Resumed
  <2>2. CASE at' = saved /\ at.mode = "recover"
    <3>1. saved.pc # "replay"
      BY Zenon, <1>5, <2>2 DEF ReleaseClaim, GiveUp, ControlInv
    <3> QED
      BY Zenon, <1>0, <2>2, <3>1 DEF Away, Frames, Awaits
  <2>3. CASE at' = Idle
    BY Zenon, <2>3, IdleSection DEF Away
  <2> QED
    BY Zenon, <1>0, <1>1, <2>1, <2>2, <2>3, RaiseAway
<1>6. CASE Apply \/ Publish \/ Rebuild \/ DisposeOperation \/ RejectOperation \/ RecoverOperation \/ LatchConflict
  <2>1. \/ Raise \/ \E s : Disposed(s)
        \/ Goto("latch") \/ Goto("publish") \/ Goto("rebuild") \/ Goto("sync") \/ Goto("reject") \/ Goto("attempt")
    BY Zenon, <1>6 DEF Apply, Publish, Rebuild, DisposeOperation, RejectOperation,
       RecoverOperation, LatchConflict
  <2> QED
    BY Zenon, <1>0, <1>1, <2>1, RaiseAway, DisposedAway, GotoAway
<1> QED
  BY Zenon, <1>2, <1>3, <1>4, <1>5, <1>6 DEF Step

-----------------------------------------------------------------------------
(* The two stores *)

\* A witnessed plan stays staged until the vault applies it.
LEMMA WitnessKept ==
    ASSUME TypeInv, ControlInv, ClaimInv, RowInv, StageInv, FileInv, [Next]_vars, ~Apply,
           NEW o \in Ops, row[o].stage = "PLAN_READY", row[o].attempted
    PROVE  row'[o].stage = "PLAN_READY" /\ row'[o].attempted /\ request'[o] = request[o]
<1>1. RowMove(o)
  BY Zenon, RowsNext DEF RowsMove
<1>2. at.pc = "apply" => row' = row
  <2>1. CASE Step
    <3>1. at.pc # "apply"
      BY Zenon, <2>1 DEF Step, Admit, RevokeReads, Drained, DrainTimesOut, LaneLost, RetireTarget,
         Dispatch, AwaitWorker, StagePlan,
         Cancel, MarkAttempted, WriteWorkspace, SyncWitness, AbandonCommitted, Publish, Rebuild, DisposeOperation,
         RejectOperation, RecoverOperation, LatchConflict, StartCleanup, RetryDrain, ReleaseClaim, GiveUp
    <3> QED
      BY Zenon, <3>1
  <2>2. CASE RecoverIdle
    BY Zenon, <2>2 DEF RecoverIdle
  <2> QED
    BY Zenon, <2>1, <2>2 DEF Next, vars, vaultVars, Mutate, Ask, BeginRecovery,
       ReadsFinish, WorkerEnds, CleanupEnds,
       EditWorkspace, EditBrokerDomain, Crash
<1>3. request[o] # NoRequest
  BY Zenon DEF RowInv, RowOf
<1>4. request'[o] = request[o]
  BY Zenon, <1>3, RequestNext
<1> QED
  BY Zenon, <1>1, <1>2, <1>4 DEF RowMove, NoRow

\* What a workspace carries stays consistent with the vault until the vault applies it.
LEMMA FileKept ==
    ASSUME TypeInv, ControlInv, ClaimInv, RowInv, StageInv, FileInv, [Next]_vars, ~Apply,
           NEW f \in Files, FileOf(f), NEW g \in Files, g.marker = f.marker, g.reg = f.reg \/ EditBrokerDomain
    PROVE  FileOf(g)'
<1>1. UNCHANGED head
  BY Zenon, HeadFrame
<1>2. f.marker.op \in Ops => \/ ~(row[f.marker.op].stage = "PLAN_READY" /\ row[f.marker.op].attempted)
                             \/ /\ row'[f.marker.op].stage = "PLAN_READY" /\ row'[f.marker.op].attempted
                                /\ request'[f.marker.op] = request[f.marker.op]
  BY Zenon, WitnessKept
<1>3. foreign' = 0 => foreign = 0 /\ g.reg = f.reg
  <2>1. CASE EditBrokerDomain
    BY <2>1 DEF EditBrokerDomain, TypeInv, CountType
  <2> QED
    BY Zenon, <2>1, ForeignFrame
<1> QED
  BY Zenon, <1>1, <1>2, <1>3 DEF FileOf

LEMMA FileNext ==
    ASSUME TypeInv, ControlInv, ClaimInv, RowInv, StageInv, FileInv, [Next]_vars
    PROVE  FileInv'
<1>0. /\ ws \in Files /\ disk \in Files /\ FileOf(ws) /\ FileOf(disk) /\ head \in Markers /\ RowsMove
      /\ ws' \in Files /\ disk' \in Files
  BY Zenon, RowsNext, FileTypeNext DEF TypeInv, VaultType, FileType, FileInv
<1>1. PICK w \in Files, d \in Files : w = ws /\ d = disk
  BY Zenon, <1>0
<1>1a. PICK v \in Files, e \in Files : v = ws' /\ e = disk'
  BY Zenon, <1>0
<1>2. FileOf(w) /\ FileOf(d)
  BY Zenon, <1>0, <1>1
<1>3. CASE Apply
  <2>1. /\ UNCHANGED <<ws, disk, request, foreign>> /\ at.pc = "apply" /\ at.op \in Ops
        /\ disk.marker = ws.marker /\ (Raise \/ Goto("latch") \/ Goto("publish") \/ Disposed("COMMITTED"))
        /\ row \in [Ops -> Rows]
    BY Zenon, <1>3 DEF Apply, fileVars, worldVars, FileInv, ControlInv, TypeInv, VaultType
  <2>2. at \in Sections /\ saved \in Frames /\ at.pc # "idle"
    BY Zenon, <2>1 DEF TypeInv, SectionType
  <2>3. at'.pc \notin {"apply", "abandon", "cas"}
    BY Zenon, <2>1, <2>2, RaiseAway, GotoAway, DisposedAway DEF Away
  <2>4. CASE UNCHANGED <<row, head, present>>
    <3>1. FileOf(ws)' /\ FileOf(disk)'
      BY Zenon, <1>0, <2>1, <2>4 DEF FileOf
    <3> QED
      BY Zenon, <2>3, <2>4, <3>1 DEF FileInv
  <2>5. CASE /\ row' = [row EXCEPT ![at.op].stage = "COMMITTED", ![at.op].epoch = ws.marker.epoch]
             /\ head' = ws.marker /\ present' = (request[at.op].kind # "REMOVE") /\ row[at.op].attempted
             /\ ws.marker.op = at.op /\ ws.marker.epoch = head.epoch + 1
    <3>1. ws.marker # head
      BY <1>0, <2>5 DEF Markers
    <3>2. ws.marker.after = (request[at.op].kind # "REMOVE")
      BY Zenon, <1>0, <2>5, <3>1 DEF FileOf
    <3>3. row'[at.op].stage = "COMMITTED" /\ row'[at.op].attempted
      BY Zenon, <2>1, <2>5 DEF Rows
    <3>4. ws.marker.epoch \in Nat /\ (foreign = 0 => ws.reg = ws.marker.after /\ disk.reg = disk.marker.after)
      BY Zenon, <1>0 DEF Files, Markers, FileOf
    <3>5. FileOf(ws)' /\ FileOf(disk)'
      BY <2>1, <2>5, <3>4 DEF FileOf
    <3> QED
      BY Zenon, <2>3, <2>5, <3>2, <3>3, <3>5 DEF FileInv
  <2> QED
    BY Zenon, <1>3, <2>4, <2>5 DEF Apply, Op
<1>4. CASE ~Apply
  <2>0. /\ UNCHANGED <<head, present>>
        /\ head.op # None => head.op \in Ops /\ row[head.op].stage = "COMMITTED" /\ row[head.op].attempted
    BY Zenon, <1>0, <1>4, HeadFrame DEF FileInv, Markers
  <2>1. /\ head'.after = present'
        /\ head'.op # None => row'[head'.op].stage = "COMMITTED" /\ row'[head'.op].attempted
    <3>1. head.op # None => row'[head.op].stage = "COMMITTED" /\ row'[head.op].attempted
      BY Zenon, <1>0, <2>0, RowFacts
    <3> QED
      BY Zenon, <2>0, <3>1 DEF FileInv
  <2>2. CASE WriteWorkspace
    <3>1. PICK o \in Ops : o = at.op /\ at.pc = "cas"
      BY Zenon, <2>2 DEF WriteWorkspace, ControlInv
    <3>2. /\ row[o].stage = "PLAN_READY" /\ row[o].attempted /\ ws.marker = head /\ disk.marker = head
      BY Zenon, <3>1 DEF StageInv, StageAt, FileInv
    <3>3. /\ UNCHANGED <<row, request, foreign>>
          /\ \/ ws' = Stamped(o) /\ disk' = Stamped(o) /\ Goto("apply")
             \/ ws' = Stamped(o) /\ disk' = disk /\ Goto("latch")
             \/ ws' = ws /\ disk' = disk /\ Goto("latch")
      <4>1. UNCHANGED <<row, request, foreign>>
        BY Zenon, <2>2 DEF WriteWorkspace, vaultVars, worldVars
      <4>2. PICK f \in Outcomes : /\ ws' = IF f = Lost THEN ws ELSE Stamped(o)
                                  /\ disk' = IF f = "ok" THEN Stamped(o) ELSE disk
                                  /\ Goto(IF f = "ok" THEN "apply" ELSE "latch")
        BY Zenon, <2>2, <3>1 DEF WriteWorkspace, Op
      <4> QED
        BY Zenon, <4>1, <4>2 DEF Lost
    <3>4. /\ Stamped(o).marker.op = o /\ Stamped(o).marker.epoch = head.epoch + 1
          /\ Stamped(o).marker.after = (request[o].kind # "REMOVE") /\ Stamped(o).reg = Stamped(o).marker.after
      BY Zenon, <3>2, StampedType DEF TypeInv
    <3>5. head.epoch \in Nat
      BY Zenon, <1>0 DEF Markers
    <3>5a. /\ row'[o].stage = "PLAN_READY" /\ row'[o].attempted /\ request'[o] = request[o]
           /\ head'.epoch <= Stamped(o).marker.epoch
      BY <2>0, <3>2, <3>3, <3>4, <3>5
    <3>6. ws' = Stamped(o) => FileOf(ws)'
      BY Zenon, <3>4, <3>5a DEF FileOf
    <3>7. disk' = Stamped(o) => FileOf(disk)'
      BY Zenon, <3>4, <3>5a DEF FileOf
    <3>8. ws' = ws => FileOf(ws)'
      BY Zenon, <1>0, <2>0, <3>3 DEF FileOf
    <3>9. disk' = disk => FileOf(disk)'
      BY Zenon, <1>0, <2>0, <3>3 DEF FileOf
    <3>10. (at'.pc = "apply" /\ ws' = Stamped(o) /\ disk' = Stamped(o)) \/ at'.pc = "latch"
      BY Zenon, <3>3 DEF Goto, TypeInv, SectionType, Sections
    <3> QED
      BY Zenon, <2>1, <3>3, <3>6, <3>7, <3>8, <3>9, <3>10 DEF FileInv
  <2>3. (FileOf(ws)' /\ FileOf(disk)') \/ WriteWorkspace
    <3>1. CASE SyncWitness
      <4>1. v = w /\ (e = d \/ e = w)
        BY Zenon, <1>1, <1>1a, <3>1 DEF SyncWitness
      <4>2. FileOf(v)' /\ FileOf(e)'
        BY Zenon, <1>2, <1>4, <4>1, FileKept
      <4> QED
        BY Zenon, <1>1a, <4>2 DEF FileOf
    <3>2. CASE EditWorkspace
      <4>1. v.marker = w.marker /\ v.reg = w.reg /\ (e = d \/ e = v)
        BY Zenon, <1>1, <1>1a, <3>2 DEF EditWorkspace, Files
      <4>2. FileOf(v)' /\ FileOf(e)'
        BY Zenon, <1>2, <1>4, <4>1, FileKept
      <4> QED
        BY Zenon, <1>1a, <4>2 DEF FileOf
    <3>3. CASE EditBrokerDomain
      <4>1. v.marker = w.marker /\ e = v
        BY Zenon, <1>1, <1>1a, <3>3 DEF EditBrokerDomain, Files
      <4>2. FileOf(v)' /\ FileOf(e)'
        BY Zenon, <1>2, <1>4, <3>3, <4>1, FileKept
      <4> QED
        BY Zenon, <1>1a, <4>2 DEF FileOf
    <3>4. CASE Crash
      <4>1. (v = w \/ v = d) /\ e = d
        BY Zenon, <1>1, <1>1a, <3>4 DEF Crash
      <4>2. FileOf(v)' /\ FileOf(e)'
        BY Zenon, <1>2, <1>4, <4>1, FileKept
      <4> QED
        BY Zenon, <1>1a, <4>2 DEF FileOf
    <3>5. CASE UNCHANGED <<ws, disk>>
      <4>1. v = w /\ e = d
        BY Zenon, <1>1, <1>1a, <3>5
      <4>2. FileOf(v)' /\ FileOf(e)'
        BY Zenon, <1>2, <1>4, <4>1, FileKept
      <4> QED
        BY Zenon, <1>1a, <4>2 DEF FileOf
    <3> QED
      BY Zenon, <3>1, <3>2, <3>3, <3>4, <3>5, FileFrame
  <2>4. /\ at'.pc \in {"apply", "abandon"} => disk'.marker = ws'.marker
        /\ at'.pc = "cas" => ws'.marker = head' /\ disk'.marker = head'
        \/ WriteWorkspace
    <3>0. at \in Sections /\ saved \in Frames
      BY Zenon DEF TypeInv, SectionType
    <3>1. CASE at' = at /\ UNCHANGED <<ws, disk>>
      BY Zenon, <2>0, <3>1 DEF FileInv
    <3>2. CASE EditWorkspace \/ EditBrokerDomain
      <4>1. at' = at /\ ws'.marker = ws.marker /\ (disk'.marker = disk.marker \/ disk'.marker = ws.marker)
        BY Zenon, <1>0, <3>2 DEF EditWorkspace, EditBrokerDomain, Files
      <4> QED
        BY Zenon, <2>0, <4>1 DEF FileInv
    <3>3. CASE Crash
      BY Zenon, <3>3, IdleSection DEF Crash
    <3>4. CASE SyncWitness
      <4>1. \/ disk' = ws /\ ws' = ws /\ (Goto("apply") \/ Goto("abandon"))
            \/ Goto("latch")
        BY Zenon, <3>4 DEF SyncWitness
      <4> QED
        BY Zenon, <3>0, <4>1 DEF Goto, Sections
    <3>5. CASE AbandonCommitted
      <4>1. UNCHANGED <<ws, disk>> /\ disk.marker = ws.marker /\ (Goto("apply") \/ Goto("latch"))
        BY Zenon, <3>5 DEF AbandonCommitted, fileVars, FileInv
      <4> QED
        BY Zenon, <3>0, <4>1 DEF Goto, Sections
    <3>6. CASE MarkAttempted
      <4>1. UNCHANGED <<ws, disk>> /\ at.pc = "attempt" /\ at.op \in Ops
        BY Zenon, <3>6 DEF MarkAttempted, fileVars, ControlInv
      <4>2. \/ Raise \/ Goto("latch")
            \/ Goto("cas") /\ Coherent /\ row[at.op].stage = "PLAN_READY" /\ MayAttempt(at.op)
        BY Zenon, <3>6 DEF MarkAttempted, Op
      <4>3. CASE Raise \/ Goto("latch")
        BY Zenon, <3>0, <4>1, <4>3, RaiseAway, GotoAway DEF Away
      <4>4. CASE Goto("cas") /\ Coherent /\ row[at.op].stage = "PLAN_READY" /\ MayAttempt(at.op)
        <5>1. at'.pc = "cas" /\ ws.marker = head
          BY Zenon, <3>0, <4>4 DEF Goto, Sections, Coherent
        <5>2. disk.marker = head
          BY Zenon, <1>0, <4>1, <4>4 DEF FileOf, ClaimInv, Open, MayAttempt
        <5> QED
          BY Zenon, <2>0, <4>1, <5>1, <5>2
      <4> QED
        BY Zenon, <4>2, <4>3, <4>4
    <3>7. CASE Drained \/ RetireTarget \/ Dispatch \/ AwaitWorker
      <4>1. at.pc # "idle" /\ (Raise \/ Goto("target") \/ Goto("dispatch") \/ Goto("stage") \/ Goto("wait") \/ Disposed("REJECTED"))
        BY Zenon, <3>7 DEF Drained, RetireTarget, Dispatch, AwaitWorker
      <4>2. Away \/ at'.pc \in {"target", "dispatch", "stage", "wait"}
        BY Zenon, <3>0, <4>1, RaiseAway, DisposedAway DEF Goto, Sections
      <4> QED
        BY Zenon, <4>2 DEF Away
    <3>8. CASE Step
      <4>1. Away => at'.pc \notin {"apply", "abandon", "cas"}
        BY Zenon DEF Away
      <4>2. at' = at /\ ~Drained /\ ~SyncWitness /\ ~WriteWorkspace => UNCHANGED <<ws, disk>>
        BY ZenonT(30), <3>8, FileFrame, <3>2, <3>3 DEF Step, Admit, RevokeReads, DrainTimesOut,
           LaneLost, RetireTarget, Dispatch,
           AwaitWorker, StagePlan, Cancel, MarkAttempted, AbandonCommitted, Apply, Publish, Rebuild, DisposeOperation,
           RejectOperation, RecoverOperation, LatchConflict, StartCleanup, RetryDrain, ReleaseClaim, GiveUp, fileVars
      <4> QED
        BY Zenon, <3>1, <3>4, <3>5, <3>6, <3>7, <3>8, <4>1, <4>2, Elsewhere
    <3>9. ASSUME NEW o \in Ops, Mutate(o)
          PROVE  at'.pc \notin {"apply", "abandon", "cas"}
      BY Zenon, <3>9, MutateStarts
    <3>10. CASE BeginRecovery
      BY Zenon, <3>10, RecoveryStarts
    <3>11. CASE UNCHANGED vars \/ (\E o \in Ops : \E k \in Kinds : Ask(o, k)) \/ RecoverIdle \/ ReadsFinish \/ WorkerEnds
                \/ CleanupEnds
      <4>1. at' = at /\ UNCHANGED <<ws, disk>>
        BY Zenon, <3>11 DEF vars, fileVars, Ask, RecoverIdle, ReadsFinish, WorkerEnds,
           CleanupEnds
      <4> QED
        BY Zenon, <3>1, <4>1
    <3> QED
      BY Zenon, <3>2, <3>3, <3>8, <3>9, <3>10, <3>11 DEF Next
  <2> QED
    BY Zenon, <2>1, <2>2, <2>3, <2>4 DEF FileInv
<1> QED
  BY Zenon, <1>3, <1>4

-----------------------------------------------------------------------------
(* Custody of the candidate and of the retired session *)

LEMMA AdmittedBefore ==
    ASSUME RowsMove, NEW o \in Ops, row'[o].stage = "ADMITTED"
    PROVE  row[o].stage = "ADMITTED" \/ claim = None
<1>1. RowMove(o)
  BY Zenon DEF RowsMove
<1> QED
  BY Zenon, <1>1 DEF RowMove, Denied, Terminal

\* A step that takes nothing into custody and starts no worker.
LEMMA CustodyKept ==
    ASSUME CustodyInv, RowsMove, worker' = "running" => worker = "running", fresh' # "none" => fresh # "none",
           old' # "none" => old # "none", live' = live \/ live' = NoSession, claim' = None => claim = None
    PROVE  CustodyInv'
<1>1. \A o \in Ops : row'[o].stage = "ADMITTED" => fresh' = "none" /\ worker' # "running"
  BY Zenon, AdmittedBefore DEF CustodyInv
<1> QED
  BY Zenon, <1>1 DEF CustodyInv

LEMMA CustodyNext ==
    ASSUME TypeInv, ControlInv, ClaimInv, RowInv, StageInv, FileInv, CustodyInv, SessionInv, [Next]_vars
    PROVE  CustodyInv'
<1>0. RowsMove
  BY Zenon, RowsNext
<1>1. ASSUME NEW o \in Ops, Mutate(o) PROVE CustodyInv'
  <2>1. UNCHANGED <<claim, live>> /\ (UNCHANGED <<worker, fresh, old>> \/ BorrowLane(o))
    BY Zenon, <1>1 DEF Mutate, vaultVars, runtimeVars, leaseVars
  <2> QED
    BY Zenon, <1>0, <2>1, BorrowEffect, CustodyKept
<1>2. CASE BeginRecovery
  <2>1. UNCHANGED <<claim, live>> /\ BorrowLane(claim)
    BY Zenon, <1>2 DEF BeginRecovery, vaultVars, runtimeVars
  <2>2. UNCHANGED <<worker, fresh, old>> \/ (worker' = "none" /\ fresh' = "none" /\ old' = "none")
    BY Zenon, <2>1 DEF BorrowLane, NewLease, leaseVars
  <2> QED
    BY Zenon, <1>0, <2>1, <2>2, CustodyKept
<1>3. CASE Crash
  <2>1. claim' = claim /\ worker' = "none" /\ fresh' = "none" /\ old' = "none" /\ live' = NoSession
    BY Zenon, <1>3 DEF Crash, NewLease, vaultVars
  <2> QED
    BY Zenon, <1>0, <2>1, CustodyKept
<1>4. CASE ReleaseClaim
  <2>1. /\ live' = live /\ row' = row /\ worker # "running" /\ fresh = "none" /\ old = "none"
    BY Zenon, <1>4 DEF ReleaseClaim, Quiet, Clean, runtimeVars
  <2>2. worker' # "running" /\ fresh' = "none" /\ old' = "none"
    BY Zenon, <1>4, <2>1 DEF ReleaseClaim, NewLease
  <2> QED
    BY Zenon, <2>1, <2>2 DEF CustodyInv
<1>5. CASE RetireTarget
  <2>1. UNCHANGED <<claim, worker, fresh>> /\ (live' = live \/ live' = NoSession) /\ (old' = old \/ ~revoked) /\ at.pc = "target"
    BY Zenon, <1>5 DEF RetireTarget
  <2>2. CASE old' = old
    BY Zenon, <1>0, <2>1, <2>2, CustodyKept
  <2>3. CASE ~revoked
    <3>1. claim # None
      BY Zenon, <2>1, <2>3, OpsAssumption DEF ClaimInv, ControlInv
    <3>2. \A o \in Ops : row'[o].stage = "ADMITTED" => row[o].stage = "ADMITTED"
      BY Zenon, <1>0, <3>1, AdmittedBefore
    <3> QED
      BY Zenon, <2>1, <3>1, <3>2 DEF CustodyInv
  <2> QED
    BY Zenon, <2>1, <2>2, <2>3
<1>6. CASE Dispatch
  <2>1. /\ UNCHANGED <<claim, fresh, old, live>> /\ at.pc = "dispatch" /\ at.op \in Ops /\ row \in [Ops -> Rows]
        /\ live = NoSession
    BY Zenon, <1>6 DEF Dispatch, runtimeVars, ControlInv, SessionInv, TypeInv, VaultType
  <2>2. \/ worker' = worker \/ worker' = "failed"
        \/ /\ claim = at.op /\ row[at.op].stage = "ADMITTED"
           /\ \E f \in Outcomes : f = "ok" /\ SaveRow(at.op, [row[at.op] EXCEPT !.stage = "AUTHENTICATION_STARTED"], f)
    BY Zenon, <1>6 DEF Dispatch, Op
  <2>3. CASE worker' = worker \/ worker' = "failed"
    BY Zenon, <1>0, <2>1, <2>3, CustodyKept
  <2>4. CASE /\ claim = at.op /\ row[at.op].stage = "ADMITTED"
             /\ \E f \in Outcomes : f = "ok" /\ SaveRow(at.op, [row[at.op] EXCEPT !.stage = "AUTHENTICATION_STARTED"], f)
    <3>1. row'[at.op].stage = "AUTHENTICATION_STARTED" /\ \A o \in Ops : o = at.op \/ row'[o] = row[o]
      BY <2>1, <2>4 DEF SaveRow, Lost, Rows
    <3>2. \A o \in Ops : row'[o].stage # "ADMITTED"
      BY Zenon, <2>4, <3>1 DEF ClaimInv, Open
    <3>3. fresh = "none" /\ claim # None
      BY Zenon, <2>1, <2>4, OpsAssumption DEF CustodyInv
    <3> QED
      BY Zenon, <2>1, <3>2, <3>3 DEF CustodyInv
  <2> QED
    BY Zenon, <2>2, <2>3, <2>4
<1>7. CASE WorkerEnds
  <2>1. worker = "running" /\ UNCHANGED <<row, claim, live, old>> /\ worker' # "running"
    BY Zenon, <1>7 DEF WorkerEnds, vaultVars, runtimeVars
  <2> QED
    BY Zenon, <2>1 DEF CustodyInv
<1>8. CASE Publish
  <2>1. UNCHANGED <<claim, worker, old>> /\ (UNCHANGED <<fresh, live>> \/ (fresh = "held" /\ fresh' = "none"))
    BY Zenon, <1>8 DEF Publish
  <2>2. CASE UNCHANGED <<fresh, live>>
    BY Zenon, <1>0, <2>1, <2>2, CustodyKept
  <2>3. CASE fresh = "held" /\ fresh' = "none"
    <3>1. worker # "running" /\ claim # None
      BY Zenon, <2>3 DEF CustodyInv
    <3> QED
      BY Zenon, <2>1, <2>3, <3>1 DEF CustodyInv
  <2> QED
    BY Zenon, <2>1, <2>2, <2>3
<1>9. CASE StartCleanup \/ CleanupEnds
  <2>1. UNCHANGED <<claim, worker, live>> /\ (fresh' # "none" => fresh # "none") /\ (old' # "none" => old # "none")
    BY Zenon, <1>9 DEF StartCleanup, CleanupEnds, vaultVars, runtimeVars
  <2> QED
    BY Zenon, <1>0, <2>1, CustodyKept
<1>10. CASE RevokeReads \/ Drained \/ RetryDrain \/ ReadsFinish \/ Rebuild
  <2>1. UNCHANGED <<claim, worker, fresh, old, live>>
    BY Zenon, <1>10 DEF RevokeReads, Drained, RetryDrain, ReadsFinish, Rebuild, vaultVars,
       leaseVars, runtimeVars
  <2> QED
    BY Zenon, <1>0, <2>1, CustodyKept
<1>11. CASE Admit
  <2>1. UNCHANGED <<worker, fresh, old, live>> /\ (claim' = claim \/ claim' = at.op) /\ at.op \in Ops
    BY Zenon, <1>11 DEF Admit, leaseVars, runtimeVars, Op, ControlInv
  <2> QED
    BY Zenon, <1>0, <2>1, CustodyKept, OpsAssumption
<1>12. ASSUME UNCHANGED <<claim, worker, fresh, old, live>> PROVE CustodyInv'
  BY ZenonT(30), <1>0, <1>12, CustodyKept
<1> QED
  BY Zenon, <1>1, <1>2, <1>3, <1>4, <1>5, <1>6, <1>7, <1>8, <1>9, <1>10, <1>11, <1>12, VaultFrame,
     LeaseFrame

-----------------------------------------------------------------------------
(* The registry session and its readers *)

LEMMA LiveFrame ==
    ASSUME [Next]_vars, ~Publish
    PROVE  live' = live \/ live' = NoSession
BY Zenon DEF Next, Step, vars, runtimeVars, Mutate, Ask, Admit, RevokeReads, Drained,
   DrainTimesOut, LaneLost, RetireTarget,
   Dispatch, AwaitWorker, StagePlan, Cancel, MarkAttempted, WriteWorkspace, SyncWitness, AbandonCommitted, Apply, Rebuild,
   DisposeOperation, RejectOperation, RecoverOperation, LatchConflict, StartCleanup, RetryDrain, ReleaseClaim, GiveUp,
   BeginRecovery, RecoverIdle, ReadsFinish, WorkerEnds, CleanupEnds, EditWorkspace, EditBrokerDomain, Crash

\* While a session is live the section does not come to where there must be none.
LEMMA LiveElsewhere ==
    ASSUME TypeInv, ControlInv, ClaimInv, RowInv, StageInv, SessionInv, [Next]_vars, live # NoSession, live' = live
    PROVE  at'.pc \notin {"dispatch", "wait", "stage"} /\ saved'.pc # "wait"
<1>0. at \in Sections /\ saved \in Frames /\ at.pc \notin {"dispatch", "wait", "stage"} /\ saved.pc # "wait"
  BY Zenon DEF TypeInv, SectionType, SessionInv
<1>1. Away => at'.pc \notin {"dispatch", "wait", "stage"}
  BY Zenon, <1>0 DEF Away
<1>2. CASE Step
  <2>1. saved'.pc # "wait"
    <3>1. saved' = saved \/ saved' = Idle
      BY Zenon, <1>2, StepMoves DEF SectionMove, Fails, Returns, Ends, Onward, Settles
    <3> QED
      BY Zenon, <1>0, <3>1, IdleSection
  <2>2. at.pc # "idle"
    BY Zenon, <1>2, StepPlaces DEF Admit
  <2>3. CASE Drained \/ RetireTarget
    <3>1. Goto("target") \/ Raise
      BY Zenon, <2>3 DEF Drained, RetireTarget
    <3> QED
      BY Zenon, <1>0, <1>1, <2>1, <2>2, <3>1, RaiseAway DEF Goto, Sections
  <2>4. CASE Dispatch \/ AwaitWorker
    BY Zenon, <1>0, <2>4 DEF Dispatch, AwaitWorker
  <2>5. CASE MarkAttempted \/ WriteWorkspace \/ SyncWitness \/ AbandonCommitted
    <3>1. Raise \/ Goto("latch") \/ Goto("cas") \/ Goto("apply") \/ Goto("abandon")
      BY Zenon, <2>5 DEF MarkAttempted, WriteWorkspace, SyncWitness, AbandonCommitted
    <3>2. Away \/ at'.pc \in {"latch", "cas", "apply", "abandon"}
      BY Zenon, <1>0, <2>2, <3>1, RaiseAway DEF Goto, Sections
    <3> QED
      BY Zenon, <1>1, <2>1, <3>2
  <2> QED
    BY Zenon, <1>0, <1>1, <1>2, <2>1, <2>3, <2>4, <2>5, Elsewhere
<1>3. ASSUME NEW o \in Ops, Mutate(o) PROVE at'.pc \notin {"dispatch", "wait", "stage"} /\ saved'.pc # "wait"
  <2>1. at'.pc \in {"settle", "admit", "retire", "recover"} /\ (saved' = Idle \/ saved'.pc = "replay")
    BY Zenon, <1>3, MutateStarts
  <2> QED
    BY Zenon, <2>1, IdleSection
<1>4. CASE BeginRecovery
  <2>1. at'.pc = "recover" /\ saved' = at
    BY Zenon, <1>4, RecoveryStarts
  <2> QED
    BY Zenon, <1>0, <2>1
<1>5. CASE Crash
  BY Zenon, <1>5, IdleSection DEF Crash
<1>6. CASE UNCHANGED vars \/ (\E o \in Ops : \E k \in Kinds : Ask(o, k)) \/ RecoverIdle \/ ReadsFinish \/ WorkerEnds
           \/ CleanupEnds \/ EditWorkspace \/ EditBrokerDomain
  <2>1. at' = at /\ saved' = saved
    BY Zenon, <1>6 DEF vars, Ask, RecoverIdle, ReadsFinish, WorkerEnds, CleanupEnds,
       EditWorkspace, EditBrokerDomain
  <2> QED
    BY Zenon, <1>0, <2>1
<1> QED
  BY Zenon, <1>2, <1>3, <1>4, <1>5, <1>6 DEF Next

\* The live session is the vault's current one, and there is none while a plan is made.
LiveOf ==
    /\ live # NoSession => live.cred = cred /\ live.bgen = head.bgen
    /\ \A o \in Ops : row[o].stage \in {"AUTHENTICATION_STARTED", "PLAN_READY"} => live = NoSession
    /\ at.pc \in {"dispatch", "wait", "stage"} \/ saved.pc = "wait" => live = NoSession

LEMMA LiveNext ==
    ASSUME TypeInv, ControlInv, ClaimInv, RowInv, StageInv, FileInv, SessionInv, [Next]_vars
    PROVE  LiveOf'
<1>0. RowsMove
  BY Zenon, RowsNext
<1>1. CASE live' = NoSession
  BY Zenon, <1>1 DEF LiveOf
<1>2. CASE live' = live /\ live # NoSession
  <2>1. UNCHANGED <<head, cred>>
    <3>1. CASE Apply
      <4>1. row[at.op].stage # "PLAN_READY"
        BY Zenon, <1>2, <3>1 DEF Apply, ControlInv, SessionInv
      <4> QED
        BY Zenon, <3>1, <4>1 DEF Apply, Op
    <3> QED
      BY Zenon, <3>1, HeadFrame
  <2>2. \A o \in Ops : row'[o].stage \notin {"AUTHENTICATION_STARTED", "PLAN_READY"}
    <3>1. SUFFICES ASSUME NEW o \in Ops PROVE row'[o].stage \notin {"AUTHENTICATION_STARTED", "PLAN_READY"}
      BY Zenon
    <3>2. RowMove(o) /\ row[o].stage \notin {"AUTHENTICATION_STARTED", "PLAN_READY"} /\ at.pc \notin {"dispatch", "stage"}
      BY Zenon, <1>0, <1>2 DEF RowsMove, SessionInv
    <3> QED
      BY Zenon, <3>2 DEF RowMove, Denied, Terminal
  <2>3. at'.pc \notin {"dispatch", "wait", "stage"} /\ saved'.pc # "wait"
    BY Zenon, <1>2, LiveElsewhere
  <2> QED
    BY Zenon, <1>2, <2>1, <2>2, <2>3 DEF LiveOf, SessionInv
<1>3. CASE Publish /\ live' # live
  <2>1. /\ at.pc = "publish" /\ at.op \in Ops /\ at.mode = "mutate" /\ saved = Idle /\ row[at.op].stage = "COMMITTED"
        /\ at \in Sections /\ saved \in Frames
    BY Zenon, <1>3 DEF Publish, ControlInv, MutatePcs, StageInv, StageAt, TypeInv, SectionType
  <2>2. /\ Coherent /\ live' = [op |-> at.op, cred |-> cred, bgen |-> ws.bgen] /\ UNCHANGED <<row, head, cred>>
        /\ Goto("rebuild") \/ Raise
    BY Zenon, <1>3 DEF Publish, Op
  <2>3. live'.cred = cred' /\ live'.bgen = head'.bgen
    BY Zenon, <2>2 DEF Coherent, AssertSnapshot
  <2>4. \A o \in Ops : row'[o].stage \notin {"AUTHENTICATION_STARTED", "PLAN_READY"}
    BY Zenon, <2>1, <2>2, OpsAssumption DEF ClaimInv, Open
  <2>5. at'.pc \in {"rebuild", "dispose"} /\ saved'.pc = "idle"
    BY <2>1, <2>2, IdleSection DEF Goto, Raise, Disposing, Sections
  <2> QED
    BY Zenon, <2>3, <2>4, <2>5 DEF LiveOf
<1> QED
  BY Zenon, <1>1, <1>2, <1>3, LiveFrame

\* Readers have a session, and a lease that has drained them stays without.
ReadersOf ==
    /\ reads # "none" => live # NoSession
    /\ lane # None /\ drain = "done" /\ row[lane].stage # "COMMITTED" => reads = "none"
    /\ at.pc = "target" => drain = "done"

LEMMA ReadersKept ==
    ASSUME TypeInv, SessionInv, RowsMove, UNCHANGED <<drain, reads>>, live' = NoSession => live = NoSession,
           lane' = lane \/ lane' = None, at'.pc = "target" => at.pc = "target"
    PROVE  ReadersOf'
<1>1. lane' # None => lane' = lane /\ lane \in Ops
  BY Zenon DEF TypeInv, SectionType
<1>2. lane' # None => (row[lane].stage = "COMMITTED" => row'[lane].stage = "COMMITTED")
  BY Zenon, <1>1, RowFacts
<1>3. lane' # None /\ drain' = "done" /\ row'[lane'].stage # "COMMITTED" => reads' = "none"
  BY Zenon, <1>1, <1>2 DEF SessionInv
<1> QED
  BY Zenon, <1>3 DEF SessionInv, ReadersOf

LEMMA ReadersNext ==
    ASSUME TypeInv, ControlInv, ClaimInv, RowInv, StageInv, FileInv, SessionInv, [Next]_vars
    PROVE  ReadersOf'
<1>0. RowsMove /\ at \in Sections /\ saved \in Frames
  BY Zenon, RowsNext DEF TypeInv, SectionType
<1>1. ASSUME NEW o \in Ops, Mutate(o) PROVE ReadersOf'
  <2>1. UNCHANGED <<row, live, reads>> /\ (UNCHANGED <<drain, lane>> \/ BorrowLane(o)) /\ at'.pc # "target"
    BY Zenon, <1>1, MutateStarts DEF Mutate, vaultVars, runtimeVars, leaseVars
  <2>2. UNCHANGED <<drain, lane>> \/ drain' = "none"
    BY Zenon, <2>1, BorrowEffect
  <2> QED
    BY Zenon, <2>1, <2>2 DEF ReadersOf, SessionInv
<1>2. CASE BeginRecovery
  <2>1. UNCHANGED <<row, live, reads>> /\ BorrowLane(claim) /\ at'.pc # "target"
    BY Zenon, <1>2, RecoveryStarts DEF BeginRecovery, vaultVars, runtimeVars
  <2>2. UNCHANGED <<drain, lane>> \/ drain' = "none"
    BY Zenon, <2>1 DEF BorrowLane, NewLease, leaseVars
  <2> QED
    BY Zenon, <2>1, <2>2 DEF ReadersOf, SessionInv
<1>3. CASE Crash
  BY Zenon, <1>3, IdleSection DEF Crash, ReadersOf
<1>4. CASE ReleaseClaim
  <2>1. UNCHANGED <<row, live, reads>> /\ ((lane' = lane /\ drain' = drain) \/ drain' = "none")
    BY Zenon, <1>4 DEF ReleaseClaim, NewLease, runtimeVars
  <2>2. at'.pc # "target"
    <3>1. Away \/ at' = at
      BY Zenon, <1>4, Elsewhere DEF Step, ReleaseClaim, Drained, RetireTarget, Dispatch,
         AwaitWorker, MarkAttempted, WriteWorkspace,
         SyncWitness, AbandonCommitted
    <3> QED
      BY Zenon, <1>4, <3>1 DEF Away, ReleaseClaim
  <2> QED
    BY Zenon, <2>1, <2>2 DEF ReadersOf, SessionInv
<1>5. CASE RevokeReads
  <2>1. /\ UNCHANGED <<row, live, lane>> /\ at'.pc = "drain" /\ (reads' # "none" => reads # "none")
        /\ drain' = "done" => drain = "done" /\ reads' = reads
    BY Zenon, <1>0, <1>5 DEF RevokeReads, vaultVars, Goto, Sections
  <2> QED
    BY Zenon, <2>1 DEF ReadersOf, SessionInv
<1>6. CASE Drained
  <2>1. UNCHANGED <<row, live, lane, reads>> /\ drain' = "done" /\ (drain = "done" \/ reads = "none")
    BY Zenon, <1>6 DEF Drained, vaultVars, runtimeVars
  <2> QED
    BY Zenon, <2>1 DEF ReadersOf, SessionInv
<1>7. CASE RetryDrain
  <2>1. UNCHANGED <<row, live, lane, reads>> /\ drain' = "done" /\ reads = "none"
    BY Zenon, <1>7 DEF RetryDrain, vaultVars, runtimeVars
  <2> QED
    BY Zenon, <2>1 DEF ReadersOf
<1>8. CASE ReadsFinish
  <2>1. UNCHANGED <<drain, at>> /\ reads' = "none"
    BY Zenon, <1>8 DEF ReadsFinish, leaseVars
  <2> QED
    BY Zenon, <2>1 DEF ReadersOf, SessionInv
<1>9. CASE RetireTarget
  <2>1. /\ at.pc = "target" /\ at.op \in Ops /\ lane = at.op /\ row[at.op].stage # "COMMITTED"
    BY Zenon, <1>9 DEF RetireTarget, ControlInv, ClaimInv, StageInv, StageAt, Denied
  <2>2. UNCHANGED <<drain, reads, lane>> /\ (Raise \/ Goto("dispatch"))
    BY Zenon, <1>9 DEF RetireTarget
  <2>3. reads = "none"
    BY Zenon, <2>1, OpsAssumption DEF SessionInv
  <2>4. at'.pc # "target"
    BY Zenon, <1>0, <2>1, <2>2, RaiseAway DEF Away, Goto, Sections
  <2> QED
    BY Zenon, <2>2, <2>3, <2>4 DEF ReadersOf
<1>10. CASE Rebuild
  <2>1. /\ at.pc = "rebuild" /\ at.op \in Ops /\ lane = at.op /\ row[at.op].stage = "COMMITTED"
    BY Zenon, <1>10 DEF Rebuild, ControlInv, ClaimInv, StageInv, StageAt
  <2>2. /\ UNCHANGED <<row, drain, lane, live>> /\ (reads' = reads \/ live # NoSession)
        /\ Raise \/ Disposed("COMMITTED")
    BY Zenon, <1>10 DEF Rebuild, leaseVars, vaultVars
  <2>3. at'.pc # "target"
    BY Zenon, <1>0, <2>1, <2>2, RaiseAway, DisposedAway DEF Away
  <2> QED
    BY Zenon, <2>1, <2>2, <2>3 DEF ReadersOf, SessionInv
<1>11. ASSUME Step, ~RevokeReads, ~Drained, ~RetryDrain, ~RetireTarget, ~Rebuild, ~ReleaseClaim PROVE ReadersOf'
  <2>1. UNCHANGED <<drain, reads>> /\ (lane' = lane \/ lane' = None)
    BY Zenon, <1>11 DEF Step, Admit, DrainTimesOut, LaneLost, Dispatch, AwaitWorker,
       StagePlan, Cancel, MarkAttempted,
       WriteWorkspace, SyncWitness, AbandonCommitted, Apply, Publish, DisposeOperation, RejectOperation, RecoverOperation,
       LatchConflict, StartCleanup, GiveUp, leaseVars, runtimeVars
  <2>2. live' = NoSession => live = NoSession
    <3>1. CASE Publish
      <4>1. live' = live \/ live' = [op |-> at.op, cred |-> cred, bgen |-> ws.bgen]
        BY Zenon, <3>1 DEF Publish, Op
      <4>2. [op |-> at.op, cred |-> cred, bgen |-> ws.bgen] # NoSession
        BY Zenon, <3>1, OpsAssumption DEF Publish, ControlInv, NoSession
      <4> QED
        BY Zenon, <4>1, <4>2
    <3>2. CASE ~Publish
      BY Zenon, <1>11, <3>2 DEF Step, Admit, DrainTimesOut, LaneLost, Dispatch,
         AwaitWorker, StagePlan, Cancel, MarkAttempted,
         WriteWorkspace, SyncWitness, AbandonCommitted, Apply, DisposeOperation, RejectOperation, RecoverOperation,
         LatchConflict, StartCleanup, GiveUp, runtimeVars
    <3> QED
      BY Zenon, <3>1, <3>2
  <2>3. at'.pc = "target" => at.pc = "target"
    <3>1. at.pc # "idle"
      BY Zenon, <1>11, StepPlaces DEF Admit
    <3>2. CASE Dispatch \/ AwaitWorker \/ MarkAttempted \/ WriteWorkspace \/ SyncWitness \/ AbandonCommitted
      <4>1. \/ Raise \/ Disposed("REJECTED") \/ Goto("stage") \/ Goto("wait") \/ Goto("latch") \/ Goto("cas")
            \/ Goto("apply") \/ Goto("abandon")
        BY Zenon, <3>2 DEF Dispatch, AwaitWorker, MarkAttempted, WriteWorkspace,
           SyncWitness, AbandonCommitted
      <4>2. Away \/ at'.pc \in {"stage", "wait", "latch", "cas", "apply", "abandon"}
        BY Zenon, <1>0, <3>1, <4>1, RaiseAway, DisposedAway DEF Goto, Sections
      <4> QED
        BY Zenon, <4>2 DEF Away
    <3>3. Away => at'.pc # "target"
      BY Zenon DEF Away
    <3> QED
      BY Zenon, <1>11, <3>2, <3>3, Elsewhere
  <2> QED
    BY Zenon, <1>0, <2>1, <2>2, <2>3, ReadersKept
<1>12. CASE UNCHANGED vars \/ (\E o \in Ops : \E k \in Kinds : Ask(o, k)) \/ RecoverIdle \/ WorkerEnds
           \/ CleanupEnds \/ EditWorkspace \/ EditBrokerDomain
  <2>1. UNCHANGED <<at, lane, drain, live, reads>>
    BY Zenon, <1>12 DEF vars, leaseVars, runtimeVars, Ask, RecoverIdle, WorkerEnds,
       CleanupEnds, EditWorkspace,
       EditBrokerDomain
  <2> QED
    BY Zenon, <1>0, <2>1, ReadersKept
<1> QED
  BY Zenon, <1>1, <1>2, <1>3, <1>4, <1>5, <1>6, <1>7, <1>8, <1>9, <1>10, <1>11, <1>12
     DEF Next

LEMMA SessionNext ==
    ASSUME TypeInv, ControlInv, ClaimInv, RowInv, StageInv, FileInv, SessionInv, [Next]_vars
    PROVE  SessionInv'
BY Zenon, LiveNext, ReadersNext DEF SessionInv, LiveOf, ReadersOf

-----------------------------------------------------------------------------
(* The invariant, and what it says *)

TransactionInv ==
    TypeInv /\ ControlInv /\ ClaimInv /\ RowInv /\ StageInv /\ FileInv /\ CustodyInv /\ SessionInv

LEMMA InitHolds == Init => TransactionInv
<1> SUFFICES ASSUME Init PROVE TransactionInv
  BY Zenon
<1>1. /\ NoRow \in Rows /\ NoRow.stage = "none" /\ NoRow.attempted = FALSE /\ NoRequest \in Requests
      /\ NoSession \in [op : Ops \cup {None}, cred : Nat, bgen : Nat]
  BY Zenon DEF NoRow, Rows, Stages, Reasons, Requests, NoRequest, NoSession
<1>2. head \in Markers /\ head.op = None /\ head.after = present /\ head.epoch = 0 /\ present \in BOOLEAN
  BY Zenon DEF Init, Genesis, Markers
<1>3. ws \in Files /\ disk = ws /\ ws.marker = head /\ ws.reg = present
  BY Zenon, <1>2 DEF Init, Files
<1>4. TypeInv
  <2>1. VaultType /\ FileType
    BY Zenon, <1>1, <1>2, <1>3 DEF Init, VaultType, FileType
  <2>2. SectionType
    BY Zenon, <1>1, IdleSection DEF Init, SectionType
  <2>3. LeaseType /\ CountType
    BY Zenon, <1>1 DEF Init, LeaseType, CountType
  <2> QED
    BY Zenon, <2>1, <2>2, <2>3 DEF TypeInv
<1>5. at = Idle /\ saved = Idle /\ Idle.pc = "idle" /\ Idle.mode = "mutate"
  BY Zenon, IdleSection DEF Init
<1>6. ControlInv
  BY Zenon, <1>5 DEF ControlInv, MutatePcs, Awaits
<1>7. \A o \in Ops : row[o] = NoRow /\ row[o].stage = "none" /\ ~row[o].attempted /\ auths[o] = 0 /\ stamps[o] = 0
  BY Zenon, <1>1 DEF Init
<1>8. ClaimInv
  <2>1. claim = None /\ lane = None
    BY Zenon DEF Init
  <2>2. \A o \in Ops : row[o].stage \notin Open
    BY Zenon, <1>7 DEF Open
  <2> QED
    BY Zenon, <1>5, <2>1, <2>2 DEF ClaimInv
<1>9. RowInv
  <2>1. SUFFICES ASSUME NEW o \in Ops PROVE RowOf(o)
    BY Zenon DEF RowInv
  <2>2. row[o] = NoRow /\ row[o].stage = "none" /\ ~row[o].attempted /\ auths[o] = 0 /\ stamps[o] = 0
    BY Zenon, <1>7
  <2> QED
    BY <2>2, 0 <= 1, "none" # "ADMITTED", Zenon DEF RowOf
<1>9a. StageInv
  BY ONLY <1>5, SMT DEF StageInv, Awaits
<1>10. FileInv
  <2>1. FileOf(ws) /\ FileOf(disk)
    BY <1>2, <1>3, 0 <= 0, Zenon DEF FileOf
  <2>2. at.pc \notin {"apply", "abandon", "cas"}
    BY Zenon, <1>5
  <2> QED
    BY Zenon, <1>2, <2>1, <2>2 DEF FileInv
<1>11. CustodyInv /\ SessionInv
  BY Zenon, <1>5, <1>7 DEF Init, CustodyInv, SessionInv
<1> QED
  BY Zenon, <1>4, <1>6, <1>8, <1>9, <1>9a, <1>10, <1>11 DEF TransactionInv

LEMMA TransactionNext == TransactionInv /\ [Next]_vars => TransactionInv'
BY Zenon, TypeNext, ControlNext, ClaimNext, RowNext, StageNext, FileNext, CustodyNext,
   SessionNext DEF TransactionInv

\* Every reachable state satisfies the invariant that ties the claim and the lane
\* to the coordinator's place, each row to its stage, the workspace to the vault's
\* head and custody to the live session.
THEOREM TransactionInvariant == Spec => []TransactionInv
BY InitHolds, TransactionNext, PTL DEF Spec

\* The workspace never carries the witness of an operation whose receipt denies it,
\* and the head of the vault is never ahead of the workspace on disk
\* (BrokerAccountWorkspace._commit synchronises the witness before store.apply).
THEOREM StoresDecideAlike == Spec => []StoresAgree
<1>1. TransactionInv => StoresAgree
  <2> SUFFICES ASSUME TransactionInv PROVE StoresAgree
    BY Zenon
  <2>1. FileOf(ws) /\ FileOf(disk) /\ (head.op # None => row[head.op].stage = "COMMITTED")
    BY Zenon DEF TransactionInv, FileInv
  <2>2. ASSUME NEW o \in Ops, row[o].stage \in Terminal \ {"COMMITTED"} PROVE o # ws.marker.op /\ o # disk.marker.op
    BY Zenon, <2>1, <2>2, OpsAssumption DEF FileOf, Terminal
  <2> QED
    BY Zenon, <2>1, <2>2 DEF StoresAgree, FileOf
<1> QED
  BY <1>1, TransactionInvariant, PTL

\* However often a change is replayed or recovered, it calls the provider at most
\* once and writes workspace.json at most once (the durable stage before run_worker
\* and the durable attempt before the workspace CAS).
THEOREM ChangesHappenOnce == Spec => []OncePerOperation
<1>1. TransactionInv => OncePerOperation
  BY Zenon DEF TransactionInv, RowInv, RowOf, OncePerOperation
<1> QED
  BY <1>1, TransactionInvariant, PTL

\* When store.release has freed the claim, no worker runs, nothing waits for cleanup
\* and the two stores agree.
THEOREM ReleasedClaimIsQuiet == Spec => []FreeClaimIsQuiet
<1>1. TransactionInv => FreeClaimIsQuiet
  <2> SUFFICES ASSUME TransactionInv, claim = None
               PROVE  /\ worker # "running" /\ fresh = "none" /\ old = "none"
                      /\ ws.marker = head
                      /\ foreign = 0 => (ws.reg <=> present)
    BY Zenon DEF FreeClaimIsQuiet
  <2>1. worker # "running" /\ fresh = "none" /\ old = "none"
    BY Zenon DEF TransactionInv, CustodyInv
  <2>2. FileOf(ws) /\ head.after = present
    BY Zenon DEF TransactionInv, FileInv
  <2>3. \A o \in Ops : row[o].stage # "PLAN_READY"
    BY Zenon, OpsAssumption DEF TransactionInv, ClaimInv, Open
  <2>4. ws.marker = head
    BY Zenon, <2>2, <2>3 DEF FileOf
  <2>5. foreign = 0 => ws.reg = present
    BY Zenon, <2>2, <2>4 DEF FileOf
  <2> QED
    BY Zenon, <2>1, <2>4, <2>5
<1> QED
  BY <1>1, TransactionInvariant, PTL

\* The session that the registry serves is the one of the vault's current credential
\* and domain, is in no cleanup, and outlives its readers (retire_generations_async
\* drains them before _retire_target removes it).
THEOREM ServedSessionIsCurrent == Spec => []LiveSessionIsCurrent
<1>1. TransactionInv => LiveSessionIsCurrent
  BY Zenon DEF TransactionInv, CustodyInv, SessionInv, LiveSessionIsCurrent
<1> QED
  BY <1>1, TransactionInvariant, PTL
=============================================================================
