--------------------------- MODULE OrderLifecycle ---------------------------
(***************************************************************************)
(* The life of an order and what it does to the shelf of its warehouse:    *)
(* api/services/order-create.ts, order-status.ts, order-items.ts,          *)
(* order-shared.ts, order-reopen.ts, courier-delivery.ts, the courier      *)
(* assignments and the return documents of api/returns-router.ts.          *)
(*                                                                         *)
(* A handler that takes the order's row FOR UPDATE and then reads only     *)
(* what that lock protects is one action.  A handler is split where        *)
(* another transaction can commit between what it reads and what it        *)
(* writes:                                                                 *)
(*                                                                         *)
(*   - updateStatus and updateItems take the order's row, then make their  *)
(*     first plain SELECT.  Under REPEATABLE READ that SELECT fixes the    *)
(*     snapshot every later plain SELECT is served from.  tx[o] is the     *)
(*     transaction holding the row of o, with what its snapshot shows;     *)
(*   - the courier's handlers and assignCourier look at the order outside  *)
(*     any transaction and write later.  req[q] is such a call in flight;  *)
(*   - returns.create checks what may still be returned before its         *)
(*     transaction; completing a return reads the linked order unlocked.   *)
(*                                                                         *)
(* Every handler but the two assignments ends in recalcShopDebt, whose     *)
(* subqueries read all orders and all returns of the shop with shared      *)
(* locks; CanSettle is the wait this implies.  The balance it writes, the  *)
(* money, prices and messages are not modelled here.  All orders of the    *)
(* model are supplied from one warehouse, the default one, which is the    *)
(* only one resolveOrderWarehouse accepts.  Batches are left to            *)
(* StockLedger; sellable is available here.                                *)
(***************************************************************************)
EXTENDS StockDoor, FiniteSets, Functions

CONSTANTS
    Orders,         \* identifiers of orders
    Shops,
    ShopOf,         \* the shop of each order
    Couriers,
    NoCourier,      \* courier_id IS NULL
    Requests,       \* calls that may be between their check and their write
    Returns,        \* identifiers of return documents
    InitialStock,   \* current_stock of every product at the start
    MaxQty,         \* bound on the quantity of a line
    MaxChecked,     \* bound on the returns.create calls between check and insert
    Statuses,       \* statuses the office sets (all seven in the code)
    Ops             \* operations performed in the scenario

OpenStatuses   == {"new", "processing", "shipped", "pending"}
ClosedStatuses == {"delivered", "cancelled", "returned"}

ASSUME ConstantsOK ==
    /\ Orders # {} /\ IsFiniteSet(Orders) /\ IsFiniteSet(Returns)
    /\ ShopOf \in [Orders -> Shops]
    /\ NoCourier \notin Couriers
    /\ InitialStock \in Nat
    /\ MaxQty \in Nat
    /\ MaxChecked \in Nat
    /\ Statuses \subseteq OpenStatuses \cup ClosedStatuses

VARIABLES
    stock,      \* warehouse_stock, one row per product
    order,      \* orders with their order_items
    tx,         \* the office transaction holding the row of each order
    req,        \* courier and assignment calls after their check
    ret,        \* return documents
    back,       \* per order, quantity in completed returns
    writtenOff  \* quantity returned by shops and not put on the shelf

vars == <<stock, order, tx, req, ret, back, writtenOff>>

---------------------------------------------------------------------------
(* Types *)

Null == -1      \* deliveredQuantity IS NULL

Deliveries ==
    {"not_assigned", "assigned", "out_for_delivery", "delivered", "failed"}

OnTheWay == {"assigned", "out_for_delivery"}

\* status "none": the order does not exist yet.
Order == [status    : {"none"} \cup OpenStatuses \cup ClosedStatuses,
          delivery  : Deliveries,
          courier   : Couriers \cup {NoCourier},
          deleted   : BOOLEAN,
          qty       : Items,
          delivered : [Products -> Nat \cup {Null}]]

NoOrder == [status |-> "none", delivery |-> "not_assigned",
            courier |-> NoCourier, deleted |-> FALSE, qty |-> NoItems,
            delivered |-> [p \in Products |-> Null]]

\* seen: the stock rows in the snapshot; gone: the completed returns in it.
Tx == [kind : {"none", "status", "edit"},
       to   : {"none"} \cup OpenStatuses \cup ClosedStatuses,
       goal : Items, seen : Rows, gone : Items]

EmptyRows == [p \in Products |->
                 [current |-> 0, reserved |-> 0, available |-> 0]]

NoTx == [kind |-> "none", to |-> "none", goal |-> NoItems,
         seen |-> EmptyRows, gone |-> NoItems]

Request == [op : {"idle", "assign", "out", "deliver", "complete"},
            order : Orders, courier : Couriers \cup {NoCourier}]

\* "asked": checked against what may be returned, not inserted yet.
\* "completing": the row is locked and the linked order was seen delivered.
Return == [status : {"none", "asked", "pending", "approved", "rejected",
                     "completing", "completed"},
           order : Orders, qty : Items]

TypeOK ==
    /\ stock \in Rows
    /\ order \in [Orders -> Order]
    /\ tx \in [Orders -> Tx]
    /\ req \in [Requests -> Request]
    /\ ret \in [Returns -> Return]
    /\ back \in [Orders -> Items]
    /\ writtenOff \in Items

---------------------------------------------------------------------------
(* What an order holds *)

HoldsStock(status)    == status \in OpenStatuses
DeductsStock(status)  == status = "delivered"

\* stockEffect: the effect of one unit of an order in a status.
StockEffect(status) ==
    [current  |-> IF DeductsStock(status) THEN -1 ELSE 0,
     reserved |-> IF HoldsStock(status) THEN 1 ELSE 0]

Lines(o) == {p \in Products : order[o].qty[p] > 0}

\* What reached the shop: deliveredQuantity, or the ordered quantity of a
\* line delivered without counting (deliveredQty, returnableLines).
Shipped(ord) ==
    [p \in Products |-> IF ord.delivered[p] = Null THEN ord.qty[p]
                                                   ELSE ord.delivered[p]]

\* heldQuantity: what a line still has in play, less the completed returns.
HeldQuantity(ord, gone) ==
    [p \in Products |-> NonNeg(Shipped(ord)[p] - gone[p])]

PartlyDelivered(ord) ==
    \E p \in Products : /\ ord.delivered[p] # Null
                        /\ ord.delivered[p] < ord.qty[p]

Exists(o) == order[o].status # "none"
Live(o)   == Exists(o) /\ ~order[o].deleted

\* No transaction holds the row of o.
Free(o) == tx[o].kind = "none"

\* Mutant of CanSettle: the returns being completed are not waited for.
SettlePastReturns(o) ==
    \A other \in Orders \ {o} : ShopOf[other] = ShopOf[o] => Free(other)

\* recalcShopDebt reads every order and every return of the shop with shared
\* locks: it waits for the transactions that hold one of those rows.
CanSettle(o) ==
    /\ \A other \in Orders \ {o} : ShopOf[other] = ShopOf[o] => Free(other)
    /\ \A r \in Returns : ret[r].status = "completing"
                              => ShopOf[ret[r].order] # ShopOf[o]

\* What the return documents of o already ask for, rejected ones excepted.
Asked(o) ==
    [p \in Products |->
        SumFunctionOnSet([r \in Returns |-> ret[r].qty[p]],
            {r \in Returns : /\ ret[r].order = o
                             /\ ret[r].status \in {"pending", "approved",
                                                   "completing", "completed"}})]

\* Mutant of Enough: compares with the shelf, reserved goods included.
EnoughOnShelf(items) ==
    \A p \in Products : items[p] > 0 => stock[p].current >= items[p]

\* The stock check against the locked rows.
Enough(items) ==
    \A p \in Products : items[p] > 0 => stock[p].available >= items[p]

\* Non-empty contents of an order or of a return.
SomeItems == {f \in [Products -> 0..MaxQty] : \E p \in Products : f[p] > 0}

---------------------------------------------------------------------------
Init ==
    /\ stock = [p \in Products |-> [current |-> InitialStock, reserved |-> 0,
                                    available |-> InitialStock]]
    /\ order = [o \in Orders |-> NoOrder]
    /\ tx = [o \in Orders |-> NoTx]
    /\ req \in [Requests -> {[op |-> "idle", order |-> CHOOSE o \in Orders : TRUE,
                              courier |-> NoCourier]}]
    /\ ret \in [Returns -> {[status |-> "none",
                             order |-> CHOOSE o \in Orders : TRUE,
                             qty |-> NoItems]}]
    /\ back = [o \in Orders |-> NoItems]
    /\ writtenOff = NoItems

---------------------------------------------------------------------------
(* Office and agent: handlers under the lock of the order's row *)

\* create: the stock rows are read FOR UPDATE, so the check and the reserve
\* are one step.  An order with a reason to hold waits in "pending".
Create(o, items, status) ==
    /\ ~Exists(o)
    /\ CanSettle(o)
    /\ Enough(items)
    /\ stock' = ReserveStock(stock, items)
    /\ order' = [order EXCEPT ![o] = [NoOrder EXCEPT !.status = status,
                                                     !.qty = items]]
    /\ UNCHANGED <<tx, req, ret, back, writtenOff>>

\* cancel: only a live "new" order; what it holds is released.
Cancel(o) ==
    /\ Live(o) /\ Free(o) /\ CanSettle(o)
    /\ order[o].status = "new"
    /\ stock' = ReleaseStock(stock, HeldQuantity(order[o], back[o]))
    /\ order' = [order EXCEPT ![o].status = "cancelled"]
    /\ UNCHANGED <<tx, req, ret, back, writtenOff>>

\* Mutant of Reopenable: the partial delivery is forgotten.
ReopenableAnyCount(o) == back[o] = NoItems

\* updateStatus, up to its first plain read.  Reopening a closed order is
\* refused after a completed return or a partial delivery.
IsReopen(from, to) == ~HoldsStock(from) /\ HoldsStock(to)

Reopenable(o) == back[o] = NoItems /\ ~PartlyDelivered(order[o])

StatusBegin(o, to) ==
    /\ Live(o) /\ Free(o)
    /\ order[o].status # to
    /\ IsReopen(order[o].status, to) => Reopenable(o)
    /\ tx' = [tx EXCEPT ![o] = [NoTx EXCEPT !.kind = "status", !.to = to,
                                            !.gone = back[o]]]
    /\ UNCHANGED <<stock, order, req, ret, back, writtenOff>>

\* Mutant of Short: the free stock is not looked at.
ShortOfShelf(rows, ord, gone, shift) ==
    \E p \in Products :
        LET q == HeldQuantity(ord, gone)[p] IN
        \/ shift.onHand < 0 /\ rows[p].current + shift.onHand * q < 0
        \/ shift.held < 0 /\ rows[p].reserved + shift.held * q < 0

\* Mutant of StatusShift: what the old status took is not given back.
StatusShiftForward(from, to) ==
    [onHand |-> StockEffect(to).current,
     held   |-> StockEffect(to).reserved - StockEffect(from).reserved]

\* The shift of one unit between two statuses, and the check that no counter
\* of the locked row goes below zero.
StatusShift(from, to) ==
    [onHand |-> StockEffect(to).current - StockEffect(from).current,
     held   |-> StockEffect(to).reserved - StockEffect(from).reserved]

Short(rows, ord, gone, shift) ==
    \E p \in Products :
        LET q == HeldQuantity(ord, gone)[p] IN
        /\ ord.qty[p] > 0
        /\ \/ shift.onHand < 0 /\ rows[p].current + shift.onHand * q < 0
           \/ shift.held < 0 /\ rows[p].reserved + shift.held * q < 0
           \/ /\ shift.onHand < shift.held
              /\ rows[p].available + (shift.onHand - shift.held) * q < 0

\* Mutants of AfterStatus: the counts of the lines survive a reopening; the
\* status is copied into the delivery status.
AfterStatusKeepsCounts(ord, to) ==
    [ord EXCEPT !.status = to, !.delivery = IF to = "delivered" THEN "delivered"
                                                                ELSE ord.delivery]

AfterStatusCopied(ord, to) == [ord EXCEPT !.status = to, !.delivery = to]

\* clearDeliveryTrace: a reopened order starts its delivery afresh.
AfterStatus(ord, to) ==
    IF IsReopen(ord.status, to)
    THEN [ord EXCEPT !.status = to, !.delivery = "not_assigned",
                     !.courier = NoCourier,
                     !.delivered = [p \in Products |-> Null]]
    ELSE [ord EXCEPT !.status = to,
                     !.delivery = IF to = "delivered" THEN "delivered"
                                                      ELSE ord.delivery]

StatusCommit(o) ==
    LET ord   == order[o]
        shift == StatusShift(ord.status, tx[o].to)
    IN
    /\ tx[o].kind = "status"
    /\ CanSettle(o)
    /\ ~Short(stock, ord, tx[o].gone, shift)
    /\ stock' = ApplyStockEffect(stock, HeldQuantity(ord, tx[o].gone), shift)
    /\ order' = [order EXCEPT ![o] = AfterStatus(ord, tx[o].to)]
    /\ tx' = [tx EXCEPT ![o] = NoTx]
    /\ UNCHANGED <<req, ret, back, writtenOff>>

\* Mutant of DeleteOrder: a closed order gives back a reserve it has not.
DeleteReleases(o) ==
    /\ Live(o) /\ Free(o) /\ CanSettle(o)
    /\ stock' = ReleaseStock(stock, HeldQuantity(order[o], back[o]))
    /\ order' = [order EXCEPT ![o].deleted = TRUE]
    /\ UNCHANGED <<tx, req, ret, back, writtenOff>>

\* deleteOrder: a soft delete; an open order gives its reserve back.
DeleteOrder(o) ==
    /\ Live(o) /\ Free(o) /\ CanSettle(o)
    /\ stock' = IF HoldsStock(order[o].status)
                THEN ReleaseStock(stock, HeldQuantity(order[o], back[o]))
                ELSE stock
    /\ order' = [order EXCEPT ![o].deleted = TRUE]
    /\ UNCHANGED <<tx, req, ret, back, writtenOff>>

\* restore: an open order takes its reserve again, against the locked rows.
Restore(o) ==
    LET need == HeldQuantity(order[o], back[o]) IN
    /\ order[o].deleted /\ Free(o) /\ CanSettle(o)
    /\ HoldsStock(order[o].status) => Enough(need)
    /\ stock' = IF HoldsStock(order[o].status) THEN ReserveStock(stock, need)
                                               ELSE stock
    /\ order' = [order EXCEPT ![o].deleted = FALSE]
    /\ UNCHANGED <<tx, req, ret, back, writtenOff>>

\* updateItems, up to its first plain read: the snapshot now shows the rows
\* of stock as they are committed at this moment.
EditBegin(o, goal) ==
    /\ Live(o) /\ Free(o)
    /\ \A p \in Products : order[o].delivered[p] = Null
    /\ tx' = [tx EXCEPT ![o] = [NoTx EXCEPT !.kind = "edit", !.goal = goal,
                                            !.seen = stock]]
    /\ UNCHANGED <<stock, order, req, ret, back, writtenOff>>

\* applyStockDelta: the checks read the snapshot, the writes the live rows.
\* An open order moves its reserve, a delivered one the shelf itself, a
\* cancelled or returned one nothing.
EditAllowed(o) ==
    \A p \in Products :
        LET delta == tx[o].goal[p] - order[o].qty[p] IN
        delta > 0 =>
            /\ HoldsStock(order[o].status) => tx[o].seen[p].available >= delta
            /\ DeductsStock(order[o].status) => tx[o].seen[p].current >= delta

EditCommit(o) ==
    LET status == order[o].status
        delta  == [p \in Products |-> tx[o].goal[p] - order[o].qty[p]]
    IN
    /\ tx[o].kind = "edit"
    /\ CanSettle(o)
    /\ EditAllowed(o)
    /\ stock' = ShiftStock(stock, Times(StockEffect(status).current, delta),
                                  Times(StockEffect(status).reserved, delta))
    /\ order' = [order EXCEPT ![o].qty = tx[o].goal]
    /\ tx' = [tx EXCEPT ![o] = NoTx]
    /\ UNCHANGED <<req, ret, back, writtenOff>>

\* A refused check, a lock timeout, a deadlock victim or a crash: the
\* transaction rolls back and its lock is released.
AbortTx(o) ==
    /\ ~Free(o)
    /\ tx' = [tx EXCEPT ![o] = NoTx]
    /\ UNCHANGED <<stock, order, req, ret, back, writtenOff>>

\* applyPartialDelivery: every line is named, none was counted before.
PartialDelivery(o, delivered) ==
    /\ Live(o) /\ Free(o) /\ CanSettle(o)
    /\ order[o].status \notin ClosedStatuses
    /\ \A p \in Products : /\ delivered[p] <= order[o].qty[p]
                           /\ order[o].delivered[p] = Null
    /\ stock' = ShipStock(stock, order[o].qty, delivered)
    /\ order' = [order EXCEPT
          ![o].status = "delivered", ![o].delivery = "delivered",
          ![o].delivered = [p \in Products |-> IF p \in Lines(o) THEN delivered[p]
                                                                 ELSE Null]]
    /\ UNCHANGED <<tx, req, ret, back, writtenOff>>

---------------------------------------------------------------------------
(* Couriers *)

\* Mutant of BulkAssign: the UPDATE does not look at the status.
BulkAssignAny(o, c) ==
    /\ Live(o) /\ Free(o)
    /\ order' = [order EXCEPT ![o].courier = c, ![o].delivery = "assigned"]
    /\ UNCHANGED <<stock, tx, req, ret, back, writtenOff>>

\* bulkAssignCourier and assignCourierToList: the conditions are in the
\* UPDATE itself.
BulkAssign(o, c) ==
    /\ Live(o) /\ Free(o)
    /\ HoldsStock(order[o].status)
    /\ order' = [order EXCEPT ![o].courier = c, ![o].delivery = "assigned"]
    /\ UNCHANGED <<stock, tx, req, ret, back, writtenOff>>

\* The check a handler makes outside its transaction.
CheckPasses(op, o, c) ==
    LET ord == order[o] IN
    CASE op = "assign"   -> HoldsStock(ord.status)
      [] op = "out"      -> ord.courier = c /\ ord.delivery = "assigned"
      [] op \in {"deliver", "complete"} ->
             /\ ord.courier = c /\ ~ord.deleted
             /\ ord.delivery \in OnTheWay
             /\ ord.status \notin ClosedStatuses

Check(q, op, o, c) ==
    /\ req[q].op = "idle"
    /\ Exists(o)
    /\ CheckPasses(op, o, c)
    /\ req' = [req EXCEPT ![q] = [op |-> op, order |-> o, courier |-> c]]
    /\ UNCHANGED <<stock, order, tx, ret, back, writtenOff>>

Done(q) == req' = [req EXCEPT ![q].op = "idle"]

\* assignCourier: the UPDATE repeats none of the conditions of the check.
AssignCommit(q) ==
    LET o == req[q].order IN
    /\ req[q].op = "assign" /\ Free(o)
    /\ order' = [order EXCEPT ![o].courier = req[q].courier,
                              ![o].delivery = "assigned"]
    /\ Done(q)
    /\ UNCHANGED <<stock, tx, ret, back, writtenOff>>

\* markOutForDelivery: the same, by the order's id alone.
OutCommit(q) ==
    LET o == req[q].order IN
    /\ req[q].op = "out" /\ Free(o)
    /\ order' = [order EXCEPT ![o].delivery = "out_for_delivery"]
    /\ Done(q)
    /\ UNCHANGED <<stock, tx, ret, back, writtenOff>>

\* markDelivered: the UPDATE insists on the delivery status only.  The whole
\* order leaves the shelf.
DeliverCommit(q) ==
    LET o == req[q].order IN
    /\ req[q].op = "deliver" /\ Free(o) /\ CanSettle(o)
    /\ order[o].delivery \in OnTheWay
    /\ stock' = ShipStock(stock, order[o].qty, order[o].qty)
    /\ order' = [order EXCEPT ![o].status = "delivered",
                              ![o].delivery = "delivered"]
    /\ Done(q)
    /\ UNCHANGED <<tx, ret, back, writtenOff>>

\* Mutant of CompleteGuard: the delivery status is not read again.
CompleteGuardOnce(o, c) == order[o].courier = c /\ ~order[o].deleted

\* completeDelivery re-reads the courier, the deletion and the delivery
\* status under the lock, not the order's status.
CompleteGuard(o, c) ==
    /\ order[o].courier = c
    /\ ~order[o].deleted
    /\ order[o].delivery \in OnTheWay

CompleteWhole(q) ==
    LET o == req[q].order IN
    /\ req[q].op = "complete" /\ Free(o) /\ CanSettle(o)
    /\ CompleteGuard(o, req[q].courier)
    /\ stock' = ShipStock(stock, order[o].qty, order[o].qty)
    /\ order' = [order EXCEPT ![o].status = "delivered",
                              ![o].delivery = "delivered"]
    /\ Done(q)
    /\ UNCHANGED <<tx, ret, back, writtenOff>>

CompleteReturned(q) ==
    LET o == req[q].order IN
    /\ req[q].op = "complete" /\ Free(o) /\ CanSettle(o)
    /\ CompleteGuard(o, req[q].courier)
    /\ stock' = ReleaseStock(stock, order[o].qty)
    /\ order' = [order EXCEPT ![o].status = "returned",
                              ![o].delivery = "delivered"]
    /\ Done(q)
    /\ UNCHANGED <<tx, ret, back, writtenOff>>

CompletePartly(q, delivered) ==
    LET o == req[q].order IN
    /\ req[q].op = "complete" /\ Free(o) /\ CanSettle(o)
    /\ CompleteGuard(o, req[q].courier)
    /\ \A p \in Products : delivered[p] <= order[o].qty[p]
    /\ stock' = ShipStock(stock, order[o].qty, delivered)
    /\ order' = [order EXCEPT
          ![o].status = "delivered", ![o].delivery = "delivered",
          ![o].delivered = [p \in Products |-> IF p \in Lines(o) THEN delivered[p]
                                                                 ELSE Null]]
    /\ Done(q)
    /\ UNCHANGED <<tx, ret, back, writtenOff>>

\* A call whose transaction refuses, or that dies before it.
DropRequest(q) ==
    /\ req[q].op # "idle"
    /\ Done(q)
    /\ UNCHANGED <<stock, order, tx, ret, back, writtenOff>>

\* markFailed: its UPDATE repeats every condition of its check, and the order
\* keeps its reserve.
MarkFailed(o, c) ==
    /\ Exists(o) /\ Free(o)
    /\ order[o].courier = c
    /\ order[o].delivery \in OnTheWay
    /\ order[o].status \notin ClosedStatuses
    /\ order' = [order EXCEPT ![o].status = "new", ![o].delivery = "failed",
                              ![o].courier = NoCourier]
    /\ UNCHANGED <<stock, tx, req, ret, back, writtenOff>>

---------------------------------------------------------------------------
(* Return documents of an order *)

CreateRoom == Cardinality({r \in Returns : ret[r].status = "asked"}) < MaxChecked

\* Mutant of ReturnCheck: earlier documents are not subtracted.
ReturnCheckAlone(r, o, items) ==
    /\ ret[r].status = "none" /\ CreateRoom
    /\ Exists(o)
    /\ \A p \in Products : items[p] > 0 => /\ p \in Lines(o)
                                           /\ items[p] <= Shipped(order[o])[p]
    /\ ret' = [ret EXCEPT ![r] = [status |-> "asked", order |-> o, qty |-> items]]
    /\ UNCHANGED <<stock, order, tx, req, back, writtenOff>>

\* returns.create, before its transaction: not more than what was shipped
\* less what other returns, rejected ones excepted, already ask for.
ReturnCheck(r, o, items) ==
    /\ ret[r].status = "none" /\ CreateRoom
    /\ Exists(o)
    /\ \A p \in Products : items[p] > 0 =>
           /\ p \in Lines(o)
           /\ Asked(o)[p] + items[p] <= Shipped(order[o])[p]
    /\ ret' = [ret EXCEPT ![r] = [status |-> "asked", order |-> o, qty |-> items]]
    /\ UNCHANGED <<stock, order, tx, req, back, writtenOff>>

\* The INSERT; its foreign key takes a shared lock on the order's row.
ReturnInsert(r) ==
    LET o == ret[r].order IN
    /\ ret[r].status = "asked" /\ Free(o)
    /\ ret' = [ret EXCEPT ![r].status = "pending"]
    /\ UNCHANGED <<stock, order, tx, req, back, writtenOff>>

ReturnApprove(r) ==
    /\ ret[r].status = "pending"
    /\ ret' = [ret EXCEPT ![r].status = "approved"]
    /\ UNCHANGED <<stock, order, tx, req, back, writtenOff>>

ReturnReject(r) ==
    /\ ret[r].status = "pending"
    /\ ret' = [ret EXCEPT ![r].status = "rejected"]
    /\ UNCHANGED <<stock, order, tx, req, back, writtenOff>>

\* Completing: the return's row is locked, the linked order is read as last
\* committed and must be delivered.
ReturnCompleteBegin(r) ==
    /\ ret[r].status = "approved"
    /\ order[ret[r].order].status = "delivered"
    /\ ret' = [ret EXCEPT ![r].status = "completing"]
    /\ UNCHANGED <<stock, order, tx, req, back, writtenOff>>

\* The goods go on the shelf or are written off, then the debt is derived
\* again: recalcShopDebt waits for transactions that hold orders of the shop.
ReturnCompleteCommit(r, disposition) ==
    LET o == ret[r].order IN
    /\ ret[r].status = "completing"
    /\ \A other \in Orders : ShopOf[other] = ShopOf[o] => Free(other)
    /\ \A r2 \in Returns \ {r} : ret[r2].status = "completing"
                                     => ShopOf[ret[r2].order] # ShopOf[o]
    /\ ret' = [ret EXCEPT ![r].status = "completed"]
    /\ back' = [back EXCEPT ![o] = [p \in Products |-> @[p] + ret[r].qty[p]]]
    /\ \/ /\ disposition = "restock"
          /\ stock' = ReceiveStock(stock, ret[r].qty)
          /\ UNCHANGED writtenOff
       \/ /\ disposition = "write_off"
          /\ writtenOff' = [p \in Products |-> writtenOff[p] + ret[r].qty[p]]
          /\ UNCHANGED stock
    /\ UNCHANGED <<order, tx, req>>

\* Rollback of a completion: deadlock victim, lock timeout or crash.
ReturnAbort(r) ==
    /\ ret[r].status \in {"asked", "completing"}
    /\ ret' = [ret EXCEPT ![r].status = IF @ = "asked" THEN "none"
                                                       ELSE "approved"]
    /\ UNCHANGED <<stock, order, tx, req, back, writtenOff>>

---------------------------------------------------------------------------
OfficeNext(o) ==
    \/ /\ "create" \in Ops
       /\ \E items \in SomeItems, status \in {"new", "pending"} \cap Statuses :
             Create(o, items, status)
    \/ "cancel" \in Ops /\ Cancel(o)
    \/ "status" \in Ops /\ \E to \in Statuses : StatusBegin(o, to)
    \/ "status" \in Ops /\ StatusCommit(o)
    \/ "delete" \in Ops /\ DeleteOrder(o)
    \/ "delete" \in Ops /\ Restore(o)
    \/ "edit" \in Ops /\ \E goal \in SomeItems : EditBegin(o, goal)
    \/ "edit" \in Ops /\ EditCommit(o)
    \/ AbortTx(o)
    \/ "partial" \in Ops /\ \E d \in [Products -> 0..MaxQty] : PartialDelivery(o, d)

CourierNext ==
    \/ "bulk" \in Ops /\ \E o \in Orders, c \in Couriers : BulkAssign(o, c)
    \/ "failed" \in Ops /\ \E o \in Orders, c \in Couriers : MarkFailed(o, c)
    \/ \E q \in Requests, o \in Orders, c \in Couriers :
          \E op \in {"assign", "out", "deliver", "complete"} \cap Ops :
             Check(q, op, o, c)
    \/ \E q \in Requests :
          \/ AssignCommit(q)
          \/ OutCommit(q)
          \/ DeliverCommit(q)
          \/ CompleteWhole(q)
          \/ CompleteReturned(q)
          \/ \E d \in [Products -> 0..MaxQty] : CompletePartly(q, d)
          \/ DropRequest(q)

ReturnNext(r) ==
    \/ \E o \in Orders, items \in SomeItems : ReturnCheck(r, o, items)
    \/ ReturnInsert(r)
    \/ ReturnApprove(r)
    \/ ReturnReject(r)
    \/ ReturnCompleteBegin(r)
    \/ \E d \in {"restock", "write_off"} : ReturnCompleteCommit(r, d)
    \/ ReturnAbort(r)

Next ==
    \/ \E o \in Orders : OfficeNext(o)
    \/ CourierNext
    \/ \E r \in Returns : ReturnNext(r)

Spec == Init /\ [][Next]_vars

---------------------------------------------------------------------------
(* What must be true of the shelf *)

\* A live open order holds what heldQuantity says; a delivered one has taken
\* it off the shelf, deleted or not.
Held(o, p)  == IF Live(o) /\ HoldsStock(order[o].status)
               THEN HeldQuantity(order[o], back[o])[p] ELSE 0

Taken(o, p) == IF DeductsStock(order[o].status)
               THEN HeldQuantity(order[o], back[o])[p] ELSE 0

\* Every row satisfies available = current - reserved and reserved >= 0,
\* whatever sequence of handlers wrote it (the UPDATE of shiftStock).
RowsConsistent == \A p \in Products : RowConsistent(stock[p])

\* The reserve of a product is exactly what its live open orders hold: no
\* handler releases somebody else's reserve, releases twice or leaks one.
ReserveExplained ==
    \A p \in Products :
        stock[p].reserved = SumFunctionOnSet([o \in Orders |-> Held(o, p)], Orders)

\* Goods are neither made nor lost: what is on the shelf, what delivered
\* orders took and did not return, and what returns wrote off add up to the
\* initial stock, through every reopening, edit, return and repetition.
ShelfConserved ==
    \A p \in Products :
        stock[p].current + SumFunctionOnSet([o \in Orders |-> Taken(o, p)], Orders)
                         + writtenOff[p] = InitialStock

\* No handler promises goods that are not there: create, restore, reopening
\* and edits all check the free stock before they take it.
NoOversell == \A p \in Products : stock[p].available >= 0

\* The three together, where returns and couriers move the same rows: every
\* unit is promised once, is somewhere, and was there when it was promised.
StockSound == ReserveExplained /\ ShelfConserved /\ NoOversell

---------------------------------------------------------------------------
(* What must be true of an order *)

\* A line is counted only on an order that is closed: an order with counted
\* deliveries never comes back into work with its old counts
\* (assertReopenable, clearDeliveryTrace, the refusals of the partial delivery).
CountedStaysClosed ==
    \A o \in Orders :
        (\E p \in Products : order[o].delivered[p] # Null)
            => order[o].status \in ClosedStatuses

\* An order with a completed return is never open again: the check of
\* assertReopenable cannot be overtaken by a return completing meanwhile.
ReturnedStaysClosed ==
    \A o \in Orders :
        back[o] # NoItems => order[o].status \in ClosedStatuses

\* No more is returned on a delivered order than was delivered on it: the
\* check of returns.create still holds when the document is completed.
ReturnsWithinDelivery ==
    \A o \in Orders, p \in Products :
        order[o].status = "delivered" => back[o][p] <= Shipped(order[o])[p]

\* A closed order is never given to a courier.
ClosedNotAssigned ==
    [][\A o \in Orders :
          order'[o].delivery = "assigned" /\ order[o].delivery # "assigned"
              => order[o].status \in OpenStatuses]_vars

---------------------------------------------------------------------------
(* The inductive invariant behind the order's invariants.  It says what the *)
(* row lock and the shared locks of recalcShopDebt keep still.              *)

\* The order of a return being completed does not leave its closed state.
CompletingIsClosed ==
    \A r \in Returns : ret[r].status = "completing"
        => order[ret[r].order].status \in ClosedStatuses

\* What updateStatus read in its snapshot is still so: no return completes
\* between its reads and its commit.
SnapshotHolds ==
    \A o \in Orders : tx[o].kind = "status" =>
        /\ tx[o].to # "none" /\ tx[o].gone = back[o]
        /\ IsReopen(order[o].status, tx[o].to) => back[o] = NoItems

LifecycleInv ==
    /\ TypeOK
    /\ RowsConsistent
    /\ CountedStaysClosed
    /\ ReturnedStaysClosed
    /\ CompletingIsClosed
    /\ SnapshotHolds
=============================================================================
