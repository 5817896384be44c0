---------------------------- MODULE OrderAdmission ----------------------------
(***************************************************************************)
(* A live order from the place route to the broker and back: the reduce-only*)
(* classification and its process-local exit holds                          *)
(* (flinttrade_engine/reduce_only.py, flinttrade_core/order_routes.py), the *)
(* account's admission lease with its durable exposure reservations         *)
(* (SafetySystem in flinttrade_engine/safety.py), the portfolio snapshot    *)
(* they are projected into (flinttrade_core/l2_state.py), and the position  *)
(* limit (PositionLimits).                                                  *)
(*                                                                          *)
(* One account.  The broker's two books, of orders and of positions, each   *)
(* lag behind its orders.  A snapshot is one step because the code reads    *)
(* both books until two reads agree.  The layers that compare prices,       *)
(* greeks, margins and losses, Laya, and the gate may refuse any order.     *)
(***************************************************************************)
EXTENDS Integers, FiniteSets, Functions

CONSTANTS
    Orders,         \* orders of this account
    Contracts,      \* (symbol, exchange, product)
    Contract,       \* the contract of each order
    Quantity,       \* its signed quantity: BUY positive, SELL negative
    Operator,       \* orders of the place routes; the others come from strategies
    Start,          \* positions held at the broker at first
    NoOrder,        \* nobody holds the admission lease
    MaxPositions,   \* PositionLimits.max_positions
    MaxCrashes      \* bound: process crashes

ASSUME OrdersAssumption ==
    /\ IsFiniteSet(Orders) /\ IsFiniteSet(Contracts) /\ NoOrder \notin Orders /\ Operator \subseteq Orders
    /\ Contract \in [Orders -> Contracts] /\ Quantity \in [Orders -> Int \ {0}]
ASSUME StartAssumption == Start \in [Contracts -> Int]
ASSUME BoundsAssumption ==
    MaxPositions \in Nat /\ MaxCrashes \in Nat

VARIABLES
    pc,                             \* request threads
    net, pending, kept,             \* what a classification has read so far
    hold,                           \* _reserved and _bound_exits, by order
    lease, worst, settled,          \* the admission lease and its holder's snapshot
    reserved, acknowledged, starting,   \* order_exposure_reservations
    status, filled,                 \* the orders at the broker
    row, rowFilled,                 \* the order book
    posFilled,                      \* fills the position book shows
    inStep,                         \* whether this broker updates its books together
    crashes,
    exits, torn, overlapped         \* history, see the properties

readVars == <<net, pending, kept>>
snapshotVars == <<worst, settled>>
reservationVars == <<reserved, acknowledged, starting>>
brokerVars == <<status, filled>>
bookVars == <<row, rowFilled, posFilled>>
worldVars == <<inStep, crashes>>
history == <<exits, torn, overlapped>>
vars == <<pc, readVars, hold, lease, snapshotVars, reservationVars, brokerVars, bookVars,
          worldVars, history>>

Zero == [o \in Orders |-> 0]
Everywhere(v) == [o \in Orders |-> v]
Abs(n) == IF n < 0 THEN -n ELSE n
Size(o) == Abs(Quantity[o])
Buys(o) == Quantity[o] > 0
Direction(o) == IF Buys(o) THEN 1 ELSE -1
On(c) == {o \in Orders : Contract[o] = c}

Init ==
    /\ pc = Everywhere("idle")
    /\ net = Zero /\ pending = Zero /\ kept = Everywhere("unseen")
    /\ hold = Everywhere("none") /\ lease = NoOrder
    /\ worst = Start /\ settled = {}
    /\ reserved = {} /\ acknowledged = {} /\ starting = Zero
    /\ status = Everywhere("none") /\ filled = Zero
    /\ row = Everywhere("absent") /\ rowFilled = Zero /\ posFilled = Zero
    /\ inStep \in BOOLEAN /\ crashes = 0
    /\ exits = {} /\ torn = {} /\ overlapped = {}

Goto(o, label) == pc' = [pc EXCEPT ![o] = label]

\* The net quantity of a contract when the given fills count.
Signed(fills) == [o \in Orders |-> Direction(o) * fills[o]]
Net(c, fills) == Start[c] + SumFunctionOnSet(Signed(fills), On(c))
Shown(c) == Net(c, posFilled)

-----------------------------------------------------------------------------
(* Reduce-only classification of an operator's order.                       *)

\* Exits of this desk on the contract that hold quantity no book row stands for:
\* reserved_exit.  An "unknown" hold has no order id; nothing ever ends it.
Held(c, h) == {o \in On(c) : h[o] \in {"flight", "unknown", "bound"}}
Total(S) == SumFunctionOnSet([o \in Orders |-> Size(o)], S)

\* pending_exit_quantity over the broker's order book.
PendingExits(c, buys) ==
    SumFunctionOnSet([o \in Orders |-> Size(o) - rowFilled[o]],
                     {o \in On(c) : row[o] = "open" /\ Buys(o) = buys})

\* The order is on the opposite side of the position.
Opposes(o, position) == position # 0 /\ Buys(o) = (position < 0)

\* _live_exit_books reads the positions under the contract lock ...
ReadPositions(o) ==
    /\ pc[o] = "idle" /\ o \in Operator
    /\ \A p \in On(Contract[o]) : pc[p] \notin {"positions", "orders"}
    /\ net' = [net EXCEPT ![o] = Shown(Contract[o])]
    /\ Goto(o, "positions")
    /\ UNCHANGED <<pending, kept, hold, lease, snapshotVars, reservationVars, brokerVars,
                   bookVars, worldVars, history>>

\* ... or cannot, and Laya decides alone, without a hold.
PositionsUnreadable(o) ==
    /\ pc[o] = "positions"
    /\ \E label \in {"ready", "done"} : Goto(o, label)
    /\ net' = [net EXCEPT ![o] = 0]
    /\ UNCHANGED <<pending, kept, hold, lease, snapshotVars, reservationVars, brokerVars,
                   bookVars, worldVars, history>>

\* Mutant: an acknowledged exit whose row is not in the book is taken for finished.
MutObserved(o, readable) ==
    IF hold[o] \notin {"bound", "covered"} THEN "unseen"
    ELSE IF readable /\ row[o] = "open" THEN "covered" ELSE "none"

\* The observation of reconcile_reserved_exit: only the exact row of an acknowledged
\* exit covers its hold, and only a closed row ends it.
Observed(o, readable) ==
    IF hold[o] \notin {"bound", "covered"} THEN "unseen"
    ELSE IF readable /\ row[o] = "open" THEN "covered"
    ELSE IF readable /\ row[o] \in {"complete", "ended"} THEN "none"
    ELSE "bound"

\* ... then the orders, and reconcile_reserved_exit copies the bound exits.  An
\* unreadable order book leaves no capacity to qualify for.
ReadOrders(o) ==
    /\ pc[o] = "positions"
    /\ \E readable \in BOOLEAN :
        /\ kept' = [p \in Orders |-> IF p \in On(Contract[o]) THEN Observed(p, readable) ELSE kept[p]]
        /\ pending' = [pending EXCEPT
                        ![o] = IF readable THEN PendingExits(Contract[o], Buys(o)) ELSE Abs(net[o])]
    /\ Goto(o, "orders")
    /\ UNCHANGED <<net, hold, lease, snapshotVars, reservationVars, brokerVars, bookVars,
                   worldVars, history>>

\* It writes its copy back: an exit noted in between loses its binding, and its
\* quantity stays reserved as if no id had come back.
WrittenBack(c) ==
    [p \in Orders |-> IF p \notin On(c) THEN hold[p]
                      ELSE IF kept[p] # "unseen" THEN kept[p]
                      ELSE IF hold[p] = "bound" THEN "unknown" ELSE hold[p]]

\* classify_reduce_only, with the reserved quantity as extra_pending.
Qualifies(o, h) ==
    Opposes(o, net[o]) /\ Size(o) <= Abs(net[o]) - pending[o] - Total(Held(Contract[o], h))

\* own_exit_already_pending: refused with 409, or with 503 on an unreadable book.
ExitPending(o, h) == Opposes(o, net[o]) /\ Held(Contract[o], h) # {}

\* The rest of _prepare_live_reduce_only.  An order that does not qualify is for
\* Laya to refuse or to pass on without a hold.
Classify(o) ==
    /\ pc[o] = "orders"
    /\ LET h == WrittenBack(Contract[o])
       IN  \/ /\ ExitPending(o, h)
              /\ hold' = h /\ Goto(o, "done")
              /\ UNCHANGED <<exits, torn>>
           \/ /\ ~ExitPending(o, h) /\ Qualifies(o, h)
              /\ hold' = [h EXCEPT ![o] = "flight"] /\ Goto(o, "ready")
              /\ exits' = exits \cup {o}
              /\ torn' = IF Shown(Contract[o]) = net[o] THEN torn ELSE torn \cup {o}
           \/ /\ ~ExitPending(o, h) /\ ~Qualifies(o, h)
              /\ hold' = h /\ \E label \in {"ready", "done"} : Goto(o, label)
              /\ UNCHANGED <<exits, torn>>
    /\ net' = [net EXCEPT ![o] = 0] /\ pending' = [pending EXCEPT ![o] = 0]
    /\ kept' = [p \in Orders |-> IF p \in On(Contract[o]) THEN "unseen" ELSE kept[p]]
    /\ UNCHANGED <<lease, snapshotVars, reservationVars, brokerVars, bookVars, worldVars,
                   overlapped>>

-----------------------------------------------------------------------------
(* Admission.                                                               *)

\* _worst_case_positions for one contract: of the position, and of what it may
\* become when the buys or when the sells fill, the one furthest from flat.
Furthest(current, buys, sells) ==
    CHOOSE n \in {current, current + buys, current + sells} :
        \A m \in {current, current + buys, current + sells} :
            Abs(m) < Abs(n) \/ (Abs(m) = Abs(n) /\ m <= n)

\* _reservation_fill_is_represented
Represented(o) ==
    LET expected == starting[o] + Direction(o) * rowFilled[o]
    IN  IF Buys(o) THEN Shown(Contract[o]) >= expected ELSE Shown(Contract[o]) <= expected

\* The row of an acknowledged reservation.
RowOf(o) == IF o \in acknowledged THEN row[o] ELSE "absent"

\* _project_unresolved_reservations: what still has to be counted in full ...
Projected ==
    {o \in reserved : \/ RowOf(o) = "absent"
                      \/ rowFilled[o] > 0 /\ ~Represented(o)}

\* ... and what the books have settled.
Settled == {o \in reserved \ Projected : RowOf(o) \in {"complete", "ended"}}

\* What of an order may still execute, as _active_unfilled_orders and the projected
\* reservations tell it.
Uncertain(o) ==
    (IF row[o] = "open" THEN Size(o) - rowFilled[o] ELSE 0)
    + (IF o \in Projected THEN Size(o) ELSE 0)
UncertainOn(c, buys) ==
    SumFunctionOnSet([o \in Orders |-> Uncertain(o)], {o \in On(c) : Buys(o) = buys})
WorstCase(c) == Furthest(Shown(c), UncertainOn(c, TRUE), -UncertainOn(c, FALSE))

\* order_admission and gather_safety_state.
Snapshot(o) ==
    /\ pc[o] = IF o \in Operator THEN "ready" ELSE "idle"
    /\ lease = NoOrder
    /\ lease' = o /\ Goto(o, "snapshot")
    /\ worst' = [c \in Contracts |-> WorstCase(c)] /\ settled' = Settled
    /\ UNCHANGED <<readVars, hold, reservationVars, brokerVars, bookVars, worldVars, history>>

\* The snapshot goes with the lease.
FreeLease == lease' = NoOrder /\ worst' = Start /\ settled' = {}

\* The hold of a place that ends before anything can reach the broker is released.
Released(o) == [hold EXCEPT ![o] = "none"]

\* The lease is not had in time, or the snapshot cannot be taken.
NoSnapshot(o) ==
    /\ pc[o] = IF o \in Operator THEN "ready" ELSE "idle"
    /\ Goto(o, "done") /\ hold' = Released(o)
    /\ UNCHANGED <<readVars, lease, snapshotVars, reservationVars, brokerVars, bookVars,
                   worldVars, history>>

OpenPositions == {c \in Contracts : worst[c] # 0}

\* _is_strict_reduction on the projected positions.
StrictReduction(o) == Opposes(o, worst[Contract[o]]) /\ Size(o) <= Abs(worst[Contract[o]])

\* Mutant: the limit allows one position more.
MutLimit(o) == Cardinality(OpenPositions) <= MaxPositions \/ StrictReduction(o)

\* PositionLimits.validate
WithinLimits(o) == Cardinality(OpenPositions) < MaxPositions \/ StrictReduction(o)

\* _reserve_order_exposure, durable before the write is handed to the client loop.
Reserve(o) ==
    /\ reserved' = (reserved \ settled) \cup {o}
    /\ starting' = [starting EXCEPT ![o] = worst[Contract[o]]]

\* The order may still add to the position, or has in a way the position book does
\* not show yet.
Loose(o) == status[o] \in {"queued", "open"} \/ filled[o] # posFilled[o]

\* History: the orders of a contract whose moves of the position may be mistaken for
\* one another's, because one starts from a position the other may still change.
Overlap(o) ==
    LET others == {p \in On(Contract[o]) \ {o} : Loose(p)}
    IN  IF others = {} /\ worst[Contract[o]] = Shown(Contract[o]) THEN {} ELSE {o} \cup others

\* reconcile, check_order, gate_order, reserve, and the router task is queued.
Admit(o) ==
    /\ pc[o] = "snapshot" /\ WithinLimits(o)
    /\ Reserve(o) /\ Goto(o, "sent")
    /\ status' = [status EXCEPT ![o] = "queued"]
    /\ overlapped' = overlapped \cup Overlap(o)
    /\ UNCHANGED <<readVars, hold, lease, snapshotVars, acknowledged, filled, bookVars,
                   worldVars, exits, torn>>

\* Reconcile, and some layer, the gate or the reservation store refuses.
Refuse(o) ==
    /\ pc[o] = "snapshot"
    /\ reserved' = reserved \ settled
    /\ FreeLease /\ hold' = Released(o) /\ Goto(o, "done")
    /\ UNCHANGED <<readVars, acknowledged, starting, brokerVars, bookVars,
                   worldVars, history>>

-----------------------------------------------------------------------------
(* The router task, and how the request thread leaves it.                   *)

\* The adapter is invoked; the broker accepts the order, or refuses it.  The task of
\* a place route may get there after the route's wait has timed out; a strategy
\* awaits the router itself.
Invoke(o) ==
    /\ status[o] = "queued" /\ (o \in Operator \/ pc[o] = "sent")
    /\ \E s \in {"open", "refused"} : status' = [status EXCEPT ![o] = s]
    /\ UNCHANGED <<pc, readVars, hold, lease, snapshotVars, reservationVars, filled, bookVars,
                   worldVars, history>>

\* The task ends before it invokes the adapter while the request still waits: a place
\* route releases the reservation and the hold; a strategy leaves its reservation.
FailBeforeInvoke(o) ==
    /\ pc[o] = "sent" /\ status[o] = "queued" /\ o \in Operator
    /\ status' = [status EXCEPT ![o] = "none"]
    /\ reserved' = reserved \ {o} /\ hold' = Released(o)
    /\ FreeLease /\ Goto(o, "done")
    /\ UNCHANGED <<readVars, acknowledged, starting, filled, bookVars,
                   worldVars, history>>

\* The same after the request has stopped waiting: nobody learns of it.
Cancelled(o) ==
    /\ pc[o] = "done" /\ status[o] = "queued"
    /\ status' = [status EXCEPT ![o] = "none"]
    /\ UNCHANGED <<pc, readVars, hold, lease, snapshotVars, reservationVars, filled, bookVars,
                   worldVars, history>>

Bind(o, kind) == hold' = IF hold[o] = "flight" THEN [hold EXCEPT ![o] = kind] ELSE hold

\* One broker order id comes back: acknowledge, note_reserved_order.
Acknowledge(o) ==
    /\ pc[o] = "sent" /\ status[o] \in {"open", "complete", "ended"}
    /\ acknowledged' = acknowledged \cup {o} /\ Bind(o, "bound")
    /\ FreeLease /\ Goto(o, "done")
    /\ UNCHANGED <<readVars, reserved, starting, brokerVars, bookVars,
                   worldVars, history>>

\* Mutant: a wait that times out is taken for an order that was not placed.
MutOutcomeUnknown(o) ==
    /\ reserved' = IF status[o] = "queued" THEN reserved \ {o} ELSE reserved
    /\ Bind(o, "unknown")

\* The wait times out, the adapter raises, the answer has no id or several, or the
\* acknowledgement cannot be stored: reservation and hold stay, without an order id.
OutcomeUnknown(o) == Bind(o, "unknown") /\ UNCHANGED reserved

NoAnswer(o) ==
    /\ pc[o] = "sent" /\ OutcomeUnknown(o)
    /\ FreeLease /\ Goto(o, "done")
    /\ UNCHANGED <<readVars, acknowledged, starting, brokerVars, bookVars,
                   worldVars, history>>

-----------------------------------------------------------------------------
(* The broker and the process.                                              *)

Fill(o) ==
    /\ status[o] = "open"
    /\ \E n \in filled[o] + 1 .. Size(o) :
        /\ filled' = [filled EXCEPT ![o] = n]
        /\ status' = [status EXCEPT ![o] = IF n = Size(o) THEN "complete" ELSE "open"]
    /\ UNCHANGED <<pc, readVars, hold, lease, snapshotVars, reservationVars, bookVars,
                   worldVars, history>>

\* Cancelled or expired, perhaps partly filled.
End(o) ==
    /\ status[o] = "open"
    /\ status' = [status EXCEPT ![o] = "ended"]
    /\ UNCHANGED <<pc, readVars, hold, lease, snapshotVars, reservationVars, filled, bookVars,
                   worldVars, history>>

Listed(o) == IF status[o] \in {"open", "complete", "ended"} THEN status[o] ELSE "absent"

ShowRow(o) ==
    /\ ~inStep /\ <<row[o], rowFilled[o]>> # <<Listed(o), filled[o]>>
    /\ row' = [row EXCEPT ![o] = Listed(o)] /\ rowFilled' = [rowFilled EXCEPT ![o] = filled[o]]
    /\ UNCHANGED <<pc, readVars, hold, lease, snapshotVars, reservationVars, brokerVars,
                   posFilled, worldVars, history>>

ShowFills(o) ==
    /\ ~inStep /\ posFilled[o] # filled[o]
    /\ posFilled' = [posFilled EXCEPT ![o] = filled[o]]
    /\ UNCHANGED <<pc, readVars, hold, lease, snapshotVars, reservationVars, brokerVars,
                   row, rowFilled, worldVars, history>>

\* A broker that updates both books at once.
ShowAll ==
    /\ inStep
    /\ row' = [o \in Orders |-> Listed(o)] /\ rowFilled' = filled /\ posFilled' = filled
    /\ bookVars' # bookVars
    /\ UNCHANGED <<pc, readVars, hold, lease, snapshotVars, reservationVars, brokerVars,
                   worldVars, history>>

\* Requests, queued tasks and holds die with the process; reservations do not.
Crash ==
    /\ crashes < MaxCrashes /\ crashes' = crashes + 1
    /\ pc' = [o \in Orders |-> IF pc[o] = "idle" THEN "idle" ELSE "done"]
    /\ status' = [o \in Orders |-> IF status[o] = "queued" THEN "none" ELSE status[o]]
    /\ hold' = Everywhere("none") /\ FreeLease
    /\ net' = Zero /\ pending' = Zero /\ kept' = Everywhere("unseen")
    /\ UNCHANGED <<reservationVars, filled, bookVars, inStep, history>>

Next ==
    \/ \E o \in Orders :
        \/ ReadPositions(o) \/ PositionsUnreadable(o) \/ ReadOrders(o) \/ Classify(o)
        \/ Snapshot(o) \/ NoSnapshot(o) \/ Admit(o) \/ Refuse(o)
        \/ Invoke(o) \/ FailBeforeInvoke(o) \/ Cancelled(o) \/ Acknowledge(o) \/ NoAnswer(o)
        \/ Fill(o) \/ End(o) \/ ShowRow(o) \/ ShowFills(o)
    \/ ShowAll \/ Crash

Spec == Init /\ [][Next]_vars

-----------------------------------------------------------------------------
(* Properties.                                                              *)

\* The type invariant; the position book never runs ahead of the fills, and the exit
\* quantity pending_exit_quantity finds is never negative.
TypeOK ==
    /\ pc \in [Orders -> {"idle", "positions", "orders", "ready", "snapshot", "sent", "done"}]
    /\ net \in [Orders -> Int] /\ pending \in [Orders -> Nat]
    /\ kept \in [Orders -> {"unseen", "none", "bound", "covered"}]
    /\ hold \in [Orders -> {"none", "flight", "unknown", "bound", "covered"}]
    /\ lease \in Orders \cup {NoOrder} /\ worst \in [Contracts -> Int] /\ settled \subseteq Orders
    /\ reserved \subseteq Orders /\ acknowledged \subseteq Orders /\ starting \in [Orders -> Int]
    /\ status \in [Orders -> {"none", "queued", "open", "refused", "complete", "ended"}]
    /\ row \in [Orders -> {"absent", "open", "complete", "ended"}]
    /\ \A o \in Orders : /\ filled[o] \in 0 .. Size(o) /\ rowFilled[o] \in 0 .. filled[o]
                         /\ posFilled[o] \in 0 .. filled[o]
    /\ inStep \in BOOLEAN /\ crashes \in 0 .. MaxCrashes
    /\ exits \subseteq Orders /\ torn \subseteq exits /\ overlapped \subseteq Orders

\* No exposure goes uncounted: an order that may still execute, or whose fills the
\* position book does not show, is reserved or in the order book, whatever timed
\* out, was cancelled late, was answered without an id, or crashed.  Orders that
\* overlap with another on their contract are excepted: reconcile may take one's
\* move of the position for the other's.
LooseIsCounted ==
    \A o \in Orders : Loose(o) /\ o \notin overlapped => o \in reserved \/ row[o] = "open"

Exposed(c) == Net(c, filled) # 0 \/ \E o \in On(c) : status[o] \in {"queued", "open"}

\* "Default max five open positions": the contracts with a position or a working
\* order never exceed the limit, as long as no two orders of a contract overlap.
WithinPositionLimit ==
    overlapped = {} => Cardinality({c \in Contracts : Exposed(c)}) <= MaxPositions

\* While only exits that qualified as reduce-only are sent on a contract, they never
\* turn its position around.
NeverFlips(c) ==
    (\A o \in On(c) : status[o] # "none" => o \in exits) => Start[c] * Net(c, filled) >= 0

\* NeverFlips with a broker that updates its books together and no restart.
ExitsNeverFlip == inStep /\ crashes = 0 => \A c \in Contracts : NeverFlips(c)

\* The same when no fill showed between the two reads of a classification.
UntornExitsNeverFlip == torn = {} => ExitsNeverFlip

=============================================================================
