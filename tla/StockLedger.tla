---------------------------- MODULE StockLedger ----------------------------
(***************************************************************************)
(* One product on the shelves of several warehouses: warehouse_stock, the  *)
(* batches with their dates, the journal of movements and the documents    *)
(* that move goods (services/stock-ledger.ts, arrival.ts, stock.ts,        *)
(* stock-transfer.ts, stock-count-router.ts, supplier-router.ts,           *)
(* webhooks/onec.ts; orders as order-create.ts and courier deliveries use  *)
(* the door).                                                              *)
(*                                                                         *)
(* A handler that reads the stock row under FOR UPDATE is one action.      *)
(* Three handlers read something else from the snapshot of their           *)
(* transaction, or before it, and are split there: an order counts expired *)
(* goods, a stock count totals the batches and a supplier return checks    *)
(* what is available, each as the snapshot shows it, while the row itself  *)
(* is the latest one.                                                      *)
(*                                                                         *)
(* A batch is named by the day it expires, so batches are consumed in the  *)
(* order of their names; a batch of MaxDay or later never expires here and *)
(* stands for one without a date.                                          *)
(***************************************************************************)
EXTENDS Integers, FiniteSets, Functions

CONSTANTS
    Warehouses, \* warehouses of the tenant
    Main,       \* the one with is_default
    Sites,      \* bound: where documents other than transfers are made
    Batches,    \* days on which batches expire
    NoBatch,    \* goods that come without a number and a date
    Orders, Arrivals, Counts,
    Keys,       \* idempotency keys of payments to the supplier
    None,       \* a handler is not under way
    Owed,       \* supplies.amount: what the supply costs
    MaxDay,     \* bound on the calendar
    MaxStock,   \* bound on what a warehouse and its batches take in
    MaxQty,     \* bound on the quantity of one document
    MaxGap,     \* bound on what the journal is ahead of the shelf
    MaxUnderway \* bound on the handlers that are between two steps

ASSUME StockConstants ==
    /\ IsFiniteSet(Warehouses) /\ Main \in Warehouses /\ Sites \subseteq Warehouses
    /\ Batches \subseteq Nat /\ IsFiniteSet(Batches) /\ NoBatch \notin Batches
    /\ IsFiniteSet(Orders) /\ IsFiniteSet(Keys)
    /\ {Owed, MaxDay, MaxStock, MaxQty, MaxGap, MaxUnderway} \subseteq Nat

VARIABLES
    stock,      \* rows of warehouse_stock
    batch,      \* stock_batches: what is left of each batch; no row is 0
    journal,    \* what the movements of a warehouse add up to
    today,      \* the day in Tashkent
    order,      \* orders, as far as they hold goods
    placing,    \* an order.create that has its snapshot, or None
    arrival,    \* rows of arrivals
    deleting,   \* arrivals whose deletion has passed its check
    count,      \* rows of stock_counts
    applying,   \* applying[c]: the batch totals applyCount will see, or None
    checked,    \* calls on a count that have passed their check
    giving,     \* a return to the supplier that has its snapshot, or None
    paid,       \* supplier_payments of the supply, by key
    given       \* history: goods that went back to the supplier

stockVars == <<stock, batch, journal>>
orderVars == <<order, placing>>
arrivalVars == <<arrival, deleting>>
countVars == <<count, applying, checked>>
supplyVars == <<giving, paid, given>>
vars == <<stockVars, today, orderVars, arrivalVars, countVars, supplyVars>>

Door == INSTANCE StockDoor WITH Products <- Warehouses

Quantity == 1 .. MaxQty

---------------------------------------------------------------------------
(* State *)

\* What stands in stock_batches for one warehouse.
Shelf == [Batches -> Nat]

\* qty: what an order in work holds, or what may still come back of one shipped.
OrderRow == [status: {"none", "open", "shipped"}, wh: Warehouses, qty: Nat]

ArrivalRow == [status: {"none", "draft", "posted"},
               batch: Batches \cup {NoBatch}, qty: Nat]

\* The lines' "expected" is printed and not used: applyCount looks at the row.
CountRow == [status: {"none", "draft", "applied", "cancelled"}, wh: Warehouses,
             counted: Nat \cup {None}]

PaidRow == [kind: {"none", "money", "goods"}, amount: Nat, qty: Nat]

StockTypeOK ==
    /\ stock \in Door!Rows
    /\ batch \in [Warehouses -> Shelf]
    /\ journal \in [Warehouses -> Int]
    /\ today \in Nat
    /\ order \in [Orders -> OrderRow]
    /\ placing = None \/ placing \in [wh: Warehouses, shelf: Shelf]
    /\ arrival \in [Arrivals -> ArrivalRow]
    /\ deleting \subseteq Arrivals
    /\ count \in [Counts -> CountRow]
    /\ applying \in [Counts -> {None} \cup [counted: Nat, total: Nat]]
    /\ checked \subseteq Counts \X {"write", "cancel"}
    /\ giving = None \/ giving \in [wh: Warehouses, free: Int]
    /\ paid \in [Keys -> PaidRow]
    /\ given \in Nat

NoOrder == [status |-> "none", wh |-> Main, qty |-> 0]
NoArrival == [status |-> "none", batch |-> NoBatch, qty |-> 0]
NoCount == [status |-> "none", wh |-> Main, counted |-> None]
NotPaid == [kind |-> "none", amount |-> 0, qty |-> 0]

Init ==
    /\ stock = [w \in Warehouses |-> [current |-> 0, reserved |-> 0, available |-> 0]]
    /\ batch = [w \in Warehouses |-> [b \in Batches |-> 0]]
    /\ journal = [w \in Warehouses |-> 0]
    /\ today = 0
    /\ order = [o \in Orders |-> NoOrder]
    /\ placing = None
    /\ arrival = [a \in Arrivals |-> NoArrival]
    /\ deleting = {}
    /\ count = [c \in Counts |-> NoCount]
    /\ applying = [c \in Counts |-> None]
    /\ checked = {}
    /\ giving = None
    /\ paid = [k \in Keys |-> NotPaid]
    /\ given = 0

---------------------------------------------------------------------------
(* The door: batches *)

Expired(b) == b < today

Total(shelf, some) == SumFunctionOnSet(shelf, some)

\* What expiredByProduct answers for these batches.
ExpiredOn(shelf) == Total(shelf, {b \in Batches : Expired(b)})

Earlier(b, from) == {e \in from : e < b}

\* Mutant of Taken: the newest batch first.
TakenLatestFirst(shelf, q, from, b) ==
    LET left == Door!NonNeg(q - Total(shelf, {e \in from : e > b}))
    IN  IF b \notin from THEN 0 ELSE IF left < shelf[b] THEN left ELSE shelf[b]

\* Mutant of Taken: the batch is not a limit.
TakenUnlimited(shelf, q, from, b) ==
    IF b \notin from THEN 0 ELSE Door!NonNeg(q - Total(shelf, Earlier(b, from)))

\* What a call that wants q takes from batch b: what the batches that expire
\* earlier have left of q, and no more than there is.
Taken(shelf, q, from, b) ==
    LET left == Door!NonNeg(q - Total(shelf, Earlier(b, from)))
    IN  IF b \notin from THEN 0 ELSE IF left < shelf[b] THEN left ELSE shelf[b]

\* consumeBatches.  What the batches lack is taken from goods without a batch.
ConsumeBatches(shelf, q, from) == [b \in Batches |-> shelf[b] - Taken(shelf, q, from, b)]

\* Goods that are shipped or moved are never expired ones; what is written off
\* or goes back to the supplier is taken from expired batches first.
Fresh == {b \in Batches : ~Expired(b)}

---------------------------------------------------------------------------
(* The door: rows *)

\* q goods leave w, and `released` of the reserve with them.
Leave(w, q, released, from) ==
    /\ stock' = [stock EXCEPT ![w] = Door!ShiftRow(@, -q, -released)]
    /\ batch' = [batch EXCEPT ![w] = ConsumeBatches(@, q, from)]
    /\ journal' = [journal EXCEPT ![w] = @ - q]

\* Goods of batch b, or without one, on a shelf: receiveBatch.
WithBatch(shelf, b, q) ==
    IF b \in Batches THEN [shelf EXCEPT ![b] = @ + q] ELSE shelf

\* receiveStock.
Enter(w, q, b) ==
    /\ stock[w].current + q <= MaxStock
    /\ Total(WithBatch(batch[w], b, q), Batches) <= MaxStock
    /\ stock' = [stock EXCEPT ![w] = Door!ShiftRow(@, q, 0)]
    /\ batch' = [batch EXCEPT ![w] = WithBatch(@, b, q)]
    /\ journal' = [journal EXCEPT ![w] = @ + q]

\* The reserve alone: nothing moves and nothing is recorded.
Hold(w, held) ==
    /\ stock' = [stock EXCEPT ![w] = Door!ShiftRow(@, 0, held)]
    /\ UNCHANGED <<batch, journal>>

\* Mutant of RowSetTo: the row is written as if it were new.
RowSetAnew(row, q) == [current |-> q, reserved |-> 0, available |-> q]

\* The row after setStock.
RowSetTo(row, q) ==
    [current |-> q, reserved |-> row.reserved, available |-> q - row.reserved]

\* Mutant of Trimmed: batches are left as they are.
Untrimmed(shelf, q, total) == shelf

\* Of batches that add up to `total`, as the caller sees it, the excess over q
\* is taken, expired ones too; a surplus belongs to no batch.
Trimmed(shelf, q, total) ==
    IF total > q THEN ConsumeBatches(shelf, total - q, Batches) ELSE shelf

\* StockBelowReserveError.
AboveReserve(w, q) == stock[w].reserved <= q

\* setStock: an outright number.  The journal is the caller's.
SetStock(w, q, total) ==
    /\ AboveReserve(w, q)
    /\ stock' = [stock EXCEPT ![w] = RowSetTo(@, q)]
    /\ batch' = [batch EXCEPT ![w] = Trimmed(@, q, total)]

OnShelf(w) == Total(batch[w], Batches)

Applying == {c \in Counts : applying[c] # None}

\* One more handler may be between two steps, besides `others`.  The calls on a
\* count and an applyCount are bounded apart, so that they meet.
MayBegin(others) ==
    (IF placing = None THEN 0 ELSE 1) + (IF giving = None THEN 0 ELSE 1)
    + Cardinality(deleting) + others < MaxUnderway

---------------------------------------------------------------------------
(* Orders, as they use the door *)

\* The transaction of order.create reads its prices: its snapshot is fixed.
PlaceBegin(w) ==
    /\ MayBegin(Cardinality(Applying) + Cardinality(checked))
    /\ placing = None
    /\ placing' = [wh |-> w, shelf |-> batch[w]]
    /\ UNCHANGED <<stockVars, today, order, arrivalVars, countVars, supplyVars>>

\* Mutant of Sellable: expired goods are for sale.
SellableAll(w, q) == q <= stock[w].available

\* The row is read under its lock, the expired goods in the snapshot.
Sellable(w, q) == q <= stock[w].available - ExpiredOn(placing.shelf)

PlaceCommit(o, q) ==
    LET w == placing.wh IN
    /\ placing # None
    /\ order[o].status = "none"
    /\ Sellable(w, q)
    /\ order' = [order EXCEPT ![o] = [status |-> "open", wh |-> w, qty |-> q]]
    /\ Hold(w, q)
    /\ placing' = None
    /\ UNCHANGED <<today, arrivalVars, countVars, supplyVars>>

\* There is too little, another check fails, or the connection breaks.
PlaceAbort ==
    /\ placing # None
    /\ placing' = None
    /\ UNCHANGED <<stockVars, today, order, arrivalVars, countVars, supplyVars>>

CancelOrder(o) ==
    /\ order[o].status = "open"
    /\ order' = [order EXCEPT ![o] = NoOrder]
    /\ Hold(order[o].wh, -order[o].qty)
    /\ UNCHANGED <<today, placing, arrivalVars, countVars, supplyVars>>

\* shipStock: d of the ordered goods are delivered; the order's whole reserve
\* is released.
Ship(o, d) ==
    LET w == order[o].wh IN
    /\ order[o].status = "open"
    /\ d <= order[o].qty
    /\ order' = [order EXCEPT ![o].status = "shipped", ![o].qty = d]
    /\ Leave(w, d, order[o].qty, Fresh)
    /\ UNCHANGED <<today, placing, arrivalVars, countVars, supplyVars>>

\* A completed return of q of the delivered goods goes to the default
\* warehouse, without a batch.
Restock(o, q) ==
    /\ order[o].status = "shipped"
    /\ q <= order[o].qty
    /\ order' = [order EXCEPT ![o].qty = @ - q]
    /\ Enter(Main, q, NoBatch)
    /\ UNCHANGED <<today, placing, arrivalVars, countVars, supplyVars>>

---------------------------------------------------------------------------
(* Arrivals *)

\* createArrival and setArrivalItems: the line is replaced while not posted.
DraftArrival(a, b, q) ==
    /\ arrival[a].status \in {"none", "draft"}
    /\ arrival' = [arrival EXCEPT ![a] = [status |-> "draft", batch |-> b, qty |-> q]]
    /\ UNCHANGED <<stockVars, today, orderVars, deleting, countVars, supplyVars>>

\* Under the arrival's lock: not posted yet, and something has been counted.
MayPost(a) == arrival[a].status = "draft" /\ arrival[a].qty > 0

\* updateArrival with status "completed".  The lines are not read again.
PostArrival(a, w) ==
    /\ MayPost(a)
    /\ Enter(w, arrival[a].qty, arrival[a].batch)
    /\ arrival' = [arrival EXCEPT ![a] = [NoArrival EXCEPT !.status = "posted"]]
    /\ UNCHANGED <<today, orderVars, deleting, countVars, supplyVars>>

\* deleteArrival looks at the status outside its transaction ...
DeleteCheck(a) ==
    /\ MayBegin(Cardinality(Applying) + Cardinality(checked))
    /\ arrival[a].status = "draft"
    /\ deleting' = deleting \cup {a}
    /\ UNCHANGED <<stockVars, today, orderVars, arrival, countVars, supplyVars>>

\* ... and deletes whatever is there by then.
DeleteWrite(a) ==
    /\ a \in deleting
    /\ deleting' = deleting \ {a}
    /\ arrival' = [arrival EXCEPT ![a] = NoArrival]
    /\ UNCHANGED <<stockVars, today, orderVars, countVars, supplyVars>>

---------------------------------------------------------------------------
(* Adjustments, the exchange with 1C and transfers *)

AdjustIn(w, q) ==
    /\ Enter(w, q, NoBatch)
    /\ UNCHANGED <<today, orderVars, arrivalVars, countVars, supplyVars>>

\* Mutant of MayWriteOff: what is on the shelf, promised or not.
MayWriteOffAll(w, q) == q <= stock[w].current

\* Only what no order holds can be written off.
MayWriteOff(w, q) == q <= stock[w].available

AdjustOut(w, q) ==
    /\ MayWriteOff(w, q)
    /\ Leave(w, q, 0, Batches)
    /\ UNCHANGED <<today, orderVars, arrivalVars, countVars, supplyVars>>

\* A recount by hand, all under the row's lock; the difference is recorded.
AdjustTo(w, q) ==
    /\ SetStock(w, q, OnShelf(w))
    /\ journal' = [journal EXCEPT ![w] = @ + (q - stock[w].current)]
    /\ UNCHANGED <<today, orderVars, arrivalVars, countVars, supplyVars>>

\* Mutant of Stated: the number is recorded as goods that came in.
StatedAsIncome(total, q) == total + q

\* The journal's entry for a number 1C names: "set outright".  A movement of
\* quantity zero is not recorded at all.
Stated(total, q) == IF q = 0 THEN total ELSE q

OneC(q) ==
    /\ Stated(journal[Main], q) <= q + MaxGap
    /\ SetStock(Main, q, OnShelf(Main))
    /\ journal' = [journal EXCEPT ![Main] = Stated(@, q)]
    /\ UNCHANGED <<today, orderVars, arrivalVars, countVars, supplyVars>>

\* transferStock and completeTransfer: out of fresh batches, in without a batch.
Transfer(v, w, q) ==
    /\ v # w
    /\ q <= stock[v].available
    /\ stock[w].current + q <= MaxStock
    /\ stock' = [stock EXCEPT ![v] = Door!ShiftRow(@, -q, 0),
                              ![w] = Door!ShiftRow(@, q, 0)]
    /\ batch' = [batch EXCEPT ![v] = ConsumeBatches(@, q, Fresh)]
    /\ journal' = [journal EXCEPT ![v] = @ - q, ![w] = @ + q]
    /\ UNCHANGED <<today, orderVars, arrivalVars, countVars, supplyVars>>

---------------------------------------------------------------------------
(* Stock counts *)

CreateCount(c, w) ==
    /\ count[c].status = "none"
    /\ count' = [count EXCEPT ![c] = [status |-> "draft", wh |-> w, counted |-> None]]
    /\ UNCHANGED <<stockVars, today, orderVars, arrivalVars, applying, checked, supplyVars>>

\* setCounted and cancel look at the status outside any transaction.
CheckDraft(c, what) ==
    /\ MayBegin(Cardinality(checked))
    /\ count[c].status = "draft"
    /\ checked' = checked \cup {<<c, what>>}
    /\ UNCHANGED <<stockVars, today, orderVars, arrivalVars, count, applying, supplyVars>>

\* The line is written, whatever has become of the document; the lines of one
\* that is finished are not read again and not followed here.
SetCounted(c, n) ==
    /\ <<c, "write">> \in checked
    /\ checked' = checked \ {<<c, "write">>}
    /\ count' = [count EXCEPT ![c].counted = IF count[c].status = "draft" THEN n ELSE None]
    /\ UNCHANGED <<stockVars, today, orderVars, arrivalVars, applying, supplyVars>>

\* The document's row is written; an applyCount that holds it is waited for.
CancelCount(c) ==
    /\ <<c, "cancel">> \in checked
    /\ applying[c] = None
    /\ checked' = checked \ {<<c, "cancel">>}
    /\ count' = [count EXCEPT ![c].status = "cancelled", ![c].counted = None]
    /\ UNCHANGED <<stockVars, today, orderVars, arrivalVars, applying, supplyVars>>

\* applyCount locks the document; its plain SELECT of the lines fixes the
\* snapshot, and with it the total of the batches setStock will read.
ApplyBegin(c) ==
    /\ MayBegin(Cardinality(Applying))
    /\ count[c].status = "draft"
    /\ applying[c] = None
    /\ count[c].counted # None
    /\ applying' = [applying EXCEPT ![c] = [counted |-> count[c].counted,
                                            total |-> OnShelf(count[c].wh)]]
    /\ UNCHANGED <<stockVars, today, orderVars, arrivalVars, count, checked, supplyVars>>

\* The movement is counted from the current row, not from the document.
Difference(c) == applying[c].counted - stock[count[c].wh].current

\* Under the stock row's lock.  A line that agrees touches nothing.
ApplyCommit(c) ==
    LET w == count[c].wh IN
    /\ applying[c] # None
    /\ IF Difference(c) = 0
       THEN UNCHANGED stockVars
       ELSE /\ SetStock(w, applying[c].counted, applying[c].total)
            /\ journal' = [journal EXCEPT ![w] = @ + Difference(c)]
    /\ count' = [count EXCEPT ![c].status = "applied", ![c].counted = None]
    /\ applying' = [applying EXCEPT ![c] = None]
    /\ UNCHANGED <<today, orderVars, arrivalVars, checked, supplyVars>>

\* More is reserved than was counted, or the connection breaks.
ApplyAbort(c) ==
    /\ applying[c] # None
    /\ applying' = [applying EXCEPT ![c] = None]
    /\ UNCHANGED <<stockVars, today, orderVars, arrivalVars, count, checked, supplyVars>>

---------------------------------------------------------------------------
(* The supplier.  The supply's row is locked from GiveBegin to the end. *)

PaidOff == SumFunctionOnSet([k \in Keys |-> paid[k].amount], Keys)

Remaining == Owed - PaidOff

\* Mutant of Unused: the index on the idempotency key is missing, so that the
\* second row replaces the first in this picture.
AnyKey(k) == TRUE

\* uq_supplier_payment_idem: a repeated call changes nothing.
Unused(k) == paid[k].kind = "none"

\* supplier.pay.
Pay(k, amount) ==
    /\ giving = None
    /\ Unused(k)
    /\ amount <= Remaining
    /\ paid' = [paid EXCEPT ![k] = [kind |-> "money", amount |-> amount, qty |-> 0]]
    /\ UNCHANGED <<stockVars, today, orderVars, arrivalVars, countVars, giving, given>>

\* returnGoods reads what is available with a plain SELECT; if that is nothing
\* it ends here.
GiveBegin(w) ==
    /\ MayBegin(Cardinality(Applying) + Cardinality(checked))
    /\ giving = None
    /\ stock[w].available > 0
    /\ giving' = [wh |-> w, free |-> stock[w].available]
    /\ UNCHANGED <<stockVars, today, orderVars, arrivalVars, countVars, paid, given>>

\* No more than the debt that remains.
Credited(worth) == IF worth < Remaining THEN worth ELSE Remaining

\* The row of the payment, then the goods, expired ones first.
GiveCommit(k, q, worth) ==
    /\ giving # None
    /\ q <= giving.free
    /\ Unused(k)
    /\ paid' = [paid EXCEPT ![k] = [kind |-> "goods", amount |-> Credited(worth), qty |-> q]]
    /\ Leave(giving.wh, q, 0, Batches)
    /\ given' = given + q
    /\ giving' = None
    /\ UNCHANGED <<today, orderVars, arrivalVars, countVars>>

\* Too little is available, the key is used, or the connection breaks.
GiveAbort ==
    /\ giving # None
    /\ giving' = None
    /\ UNCHANGED <<stockVars, today, orderVars, arrivalVars, countVars, paid, given>>

---------------------------------------------------------------------------

Midnight ==
    /\ today < MaxDay
    /\ today' = today + 1
    /\ UNCHANGED <<stockVars, orderVars, arrivalVars, countVars, supplyVars>>

OrderStep ==
    \/ \E w \in Sites : PlaceBegin(w)
    \/ \E o \in Orders, q \in Quantity : PlaceCommit(o, q) \/ Restock(o, q)
    \/ PlaceAbort
    \/ \E o \in Orders : CancelOrder(o)
    \/ \E o \in Orders, d \in 0 .. MaxQty : Ship(o, d)

ArrivalStep ==
    \/ \E a \in Arrivals, b \in Batches \cup {NoBatch}, q \in Quantity : DraftArrival(a, b, q)
    \/ \E a \in Arrivals : DraftArrival(a, NoBatch, 0)
    \/ \E a \in Arrivals, w \in Sites : PostArrival(a, w)
    \/ \E a \in Arrivals : DeleteCheck(a) \/ DeleteWrite(a)

OfficeStep ==
    \/ \E w \in Sites, q \in Quantity : AdjustIn(w, q) \/ AdjustOut(w, q) \/ AdjustTo(w, q)
    \/ \E q \in 0 .. MaxQty : OneC(q)
    \/ \E v, w \in Warehouses, q \in Quantity : Transfer(v, w, q)

CountStep ==
    \/ \E c \in Counts, w \in Sites : CreateCount(c, w)
    \/ \E c \in Counts, what \in {"write", "cancel"} : CheckDraft(c, what)
    \/ \E c \in Counts, n \in 0 .. MaxQty : SetCounted(c, n)
    \/ \E c \in Counts : CancelCount(c) \/ ApplyBegin(c) \/ ApplyCommit(c) \/ ApplyAbort(c)

SupplyStep ==
    \/ \E k \in Keys, amount \in 1 .. Owed : Pay(k, amount)
    \/ \E w \in Sites : GiveBegin(w)
    \/ \E k \in Keys, q \in Quantity, worth \in 1 .. (Owed + 1) : GiveCommit(k, q, worth)
    \/ GiveAbort

Next == Midnight \/ OrderStep \/ ArrivalStep \/ OfficeStep \/ CountStep \/ SupplyStep

Spec == Init /\ [][Next]_vars

---------------------------------------------------------------------------
(* Properties *)

\* What orders in work hold at w.
Held(w) == [o \in Orders |->
    IF order[o].status = "open" /\ order[o].wh = w THEN order[o].qty ELSE 0]

\* The reserve of a warehouse is what the orders in work hold there, whatever
\* counts, exchanges and deliveries do to the row, and available follows from it.
ReserveIsPromised ==
    \A w \in Warehouses :
        /\ stock[w].reserved = SumFunctionOnSet(Held(w), Orders)
        /\ stock[w].available = stock[w].current - stock[w].reserved

\* The movements explain the shelf: a step that leaves them in disagreement
\* found them so, or set the shelf to nothing, which is not recorded
\* (stock-ledger.ts:47-50, 63-66).
JournalExplains ==
    [][\A w \in Warehouses :
          \/ stock'[w].current - journal'[w] \in {0, stock[w].current - journal[w]}
          \/ w = Main /\ stock'[w].current = 0 /\ journal'[w] = journal[w]]_vars

\* A count under way at w has read a total of batches that has changed since.
StaleCount(w) == \E c \in Counts :
    applying[c] # None /\ count[c].wh = w /\ applying[c].total # OnShelf(w)

\* Batches come to exceed the shelf only where goods leave past expired
\* batches, or where a count trims by a total that is out of date
\* (stock-ledger.ts:301-302 excludes both).
BatchesFollowShelf ==
    [][\A w \in Warehouses :
          LET after == Total(batch'[w], Batches) - stock'[w].current
          IN  after > 0 /\ after > OnShelf(w) - stock[w].current
                => \/ Total(batch'[w], Batches) = 0
                   \/ ExpiredOn(batch[w]) > 0
                   \/ StaleCount(w)]_vars

\* More is promised than lies on the shelf only after goods went back to the
\* supplier which had been promised meanwhile.
OnlySupplierOversells ==
    [][\A w \in Warehouses :
          stock'[w].available < 0 /\ stock'[w].available < stock[w].available
            => given' > given /\ giving.free # stock[w].available]_vars

\* An order never takes more than the goods that will not have expired, unless
\* expired goods have come in since its snapshot.
FreshIsSold ==
    [][\A w \in Warehouses :
          stock'[w].reserved > stock[w].reserved
            => \/ stock'[w].available >= ExpiredOn(batch[w])
               \/ ExpiredOn(placing.shelf) < ExpiredOn(batch[w])]_vars

\* A batch is touched only when all that expire before it are used up; what
\* is shipped may pass over expired ones.
FirstExpiredFirst ==
    [][\A w \in Warehouses, b \in Batches :
          batch'[w][b] < batch[w][b]
            => \A e \in Earlier(b, Batches) :
                  batch'[w][e] = 0 \/ (Expired(e) /\ ~Expired(b))]_vars

\* Goods go back to the supplier once for each row that says so, and rows of
\* money and goods together never exceed what the supply cost.
SupplyBalances ==
    /\ given = SumFunctionOnSet([k \in Keys |-> paid[k].qty], Keys)
    /\ PaidOff <= Owed
=============================================================================
