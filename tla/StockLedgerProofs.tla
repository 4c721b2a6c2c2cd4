------------------------- MODULE StockLedgerProofs -------------------------
(***************************************************************************)
(* What holds of StockLedger for any warehouses, batches, orders, counts   *)
(* and bounds.  The inductive invariant is StockInv: the types, the        *)
(* reserve as the sum of what orders in work hold, and the balance of the  *)
(* supply.  The sums are those of SumProofs.                               *)
(***************************************************************************)
EXTENDS StockLedger, SumProofs

USE DEF Door!NonNeg

---------------------------------------------------------------------------
(* Batches *)

LEMMA TotalNat ==
    ASSUME NEW shelf \in Shelf, NEW some \in SUBSET Batches
    PROVE  Total(shelf, some) \in Nat
<1>1. IsFiniteSet(some)
  BY StockConstants, FS_Subset
<1> QED
  BY <1>1, SumTypes DEF Total, Shelf

LEMMA TakenBounds ==
    ASSUME NEW shelf \in Shelf, NEW q \in Nat, NEW from \in SUBSET Batches, NEW b \in Batches
    PROVE  Taken(shelf, q, from, b) \in Nat /\ Taken(shelf, q, from, b) <= shelf[b]
<1>1. Total(shelf, Earlier(b, from)) \in Nat
  BY TotalNat DEF Earlier
<1>2. shelf[b] \in Nat
  BY DEF Shelf
<1> QED
  BY <1>1, <1>2 DEF Taken

LEMMA ConsumeType ==
    ASSUME NEW shelf \in Shelf, NEW q \in Nat, NEW from \in SUBSET Batches
    PROVE  ConsumeBatches(shelf, q, from) \in Shelf
<1>1. \A b \in Batches : shelf[b] - Taken(shelf, q, from, b) \in Nat
  <2> TAKE b \in Batches
  <2>1. shelf[b] \in Nat
    BY DEF Shelf
  <2> QED
    BY <2>1, TakenBounds
<1> QED
  BY <1>1 DEF ConsumeBatches, Shelf

LEMMA WithBatchType ==
    ASSUME NEW shelf \in Shelf, NEW q \in Nat, NEW b \in Batches \cup {NoBatch}
    PROVE  WithBatch(shelf, b, q) \in Shelf
BY DEF WithBatch, Shelf

LEMMA TrimmedType ==
    ASSUME NEW shelf \in Shelf, NEW q \in Nat, NEW total \in Nat
    PROVE  Trimmed(shelf, q, total) \in Shelf
<1>1. CASE total > q
  <2>1. total - q \in Nat
    BY <1>1
  <2> QED
    BY <2>1, ConsumeType, <1>1 DEF Trimmed
<1>2. CASE ~(total > q)
  BY <1>2 DEF Trimmed
<1> QED
  BY <1>1, <1>2

---------------------------------------------------------------------------
(* The door *)

LEMMA RowShifted ==
    ASSUME NEW row \in Door!Row, NEW onHand \in Int, NEW held \in Int
    PROVE  LET r == Door!ShiftRow(row, onHand, held)
           IN  /\ r \in Door!Row
               /\ r.current = row.current + onHand
               /\ r.reserved = IF row.reserved + held < 0 THEN 0 ELSE row.reserved + held
               /\ r.available = r.current - r.reserved
BY DEF Door!Row, Door!ShiftRow

\* What the three tables of the door hold.
DoorTypeOK ==
    /\ stock \in Door!Rows
    /\ batch \in [Warehouses -> Shelf]
    /\ journal \in [Warehouses -> Int]

LEMMA FreshSubset == Fresh \in SUBSET Batches
BY DEF Fresh

\* Goods that leave one warehouse.
LEMMA LeaveEffect ==
    ASSUME DoorTypeOK, NEW w \in Warehouses, NEW q \in Nat, NEW released \in Nat,
           NEW from \in SUBSET Batches, Leave(w, q, released, from)
    PROVE  /\ DoorTypeOK'
           /\ \A v \in Warehouses \ {w} : stock'[v] = stock[v] /\ journal'[v] = journal[v]
           /\ stock'[w] = Door!ShiftRow(stock[w], -q, -released)
           /\ journal'[w] = journal[w] - q
<1>1. Door!ShiftRow(stock[w], -q, -released) \in Door!Row
  <2>1. stock[w] \in Door!Row
    BY DEF DoorTypeOK, Door!Rows
  <2> QED
    BY <2>1, RowShifted
<1>2. ConsumeBatches(batch[w], q, from) \in Shelf
  BY ConsumeType DEF DoorTypeOK
<1> QED
  BY <1>1, <1>2 DEF DoorTypeOK, Leave, Door!Rows

\* Goods that come in.
LEMMA EnterEffect ==
    ASSUME DoorTypeOK, NEW w \in Warehouses, NEW q \in Nat, NEW b \in Batches \cup {NoBatch},
           Enter(w, q, b)
    PROVE  /\ DoorTypeOK'
           /\ \A v \in Warehouses \ {w} : stock'[v] = stock[v] /\ journal'[v] = journal[v]
           /\ stock'[w] = Door!ShiftRow(stock[w], q, 0)
           /\ journal'[w] = journal[w] + q
<1>1. Door!ShiftRow(stock[w], q, 0) \in Door!Row
  <2>1. stock[w] \in Door!Row
    BY DEF DoorTypeOK, Door!Rows
  <2>2. q \in Int /\ 0 \in Int
    OBVIOUS
  <2> QED
    BY <2>1, <2>2, RowShifted
<1>2. WithBatch(batch[w], b, q) \in Shelf
  BY WithBatchType DEF DoorTypeOK
<1> QED
  BY <1>1, <1>2 DEF DoorTypeOK, Enter, Door!Rows

\* The reserve alone.
LEMMA HoldEffect ==
    ASSUME DoorTypeOK, NEW w \in Warehouses, NEW held \in Int, Hold(w, held)
    PROVE  /\ DoorTypeOK'
           /\ \A v \in Warehouses \ {w} : stock'[v] = stock[v]
           /\ stock'[w] = Door!ShiftRow(stock[w], 0, held)
           /\ journal' = journal
<1>1. Door!ShiftRow(stock[w], 0, held) \in Door!Row
  <2>1. stock[w] \in Door!Row
    BY DEF DoorTypeOK, Door!Rows
  <2> QED
    BY <2>1, RowShifted
<1> QED
  BY <1>1 DEF DoorTypeOK, Hold, Door!Rows

\* A number set outright.
LEMMA SetStockEffect ==
    ASSUME DoorTypeOK, NEW w \in Warehouses, NEW q \in Nat, NEW total \in Nat,
           SetStock(w, q, total)
    PROVE  /\ stock' \in Door!Rows
           /\ batch' \in [Warehouses -> Shelf]
           /\ \A v \in Warehouses \ {w} : stock'[v] = stock[v]
           /\ stock'[w] = RowSetTo(stock[w], q)
           /\ stock[w].reserved <= q
<1>1. RowSetTo(stock[w], q) \in Door!Row
  BY DEF DoorTypeOK, Door!Rows, Door!Row, RowSetTo
<1>2. Trimmed(batch[w], q, total) \in Shelf
  BY TrimmedType DEF DoorTypeOK
<1> QED
  BY <1>1, <1>2 DEF DoorTypeOK, SetStock, AboveReserve, Door!Rows

\* Goods that go from one warehouse to another.
LEMMA TransferEffect ==
    ASSUME DoorTypeOK, NEW v \in Warehouses, NEW w \in Warehouses, NEW q \in Nat,
           Transfer(v, w, q)
    PROVE  /\ DoorTypeOK'
           /\ v # w /\ q <= stock[v].available
           /\ \A u \in Warehouses \ {v, w} : stock'[u] = stock[u] /\ journal'[u] = journal[u]
           /\ stock'[v] = Door!ShiftRow(stock[v], -q, 0) /\ journal'[v] = journal[v] - q
           /\ stock'[w] = Door!ShiftRow(stock[w], q, 0) /\ journal'[w] = journal[w] + q
<1>1. /\ Door!ShiftRow(stock[v], -q, 0) \in Door!Row
      /\ Door!ShiftRow(stock[w], q, 0) \in Door!Row
  <2>1. stock[v] \in Door!Row /\ stock[w] \in Door!Row
    BY DEF DoorTypeOK, Door!Rows
  <2>2. q \in Int /\ -q \in Int /\ 0 \in Int
    OBVIOUS
  <2> QED
    BY <2>1, <2>2, RowShifted
<1>2. ConsumeBatches(batch[v], q, Fresh) \in Shelf
  BY ConsumeType, FreshSubset DEF DoorTypeOK
<1> QED
  BY <1>1, <1>2 DEF DoorTypeOK, Transfer, Door!Rows

LEMMA OnShelfNat ==
    ASSUME DoorTypeOK, NEW w \in Warehouses
    PROVE  OnShelf(w) \in Nat
<1>1. batch[w] \in Shelf /\ Batches \in SUBSET Batches
  BY DEF DoorTypeOK
<1> QED
  BY <1>1, TotalNat DEF OnShelf

---------------------------------------------------------------------------
(* Types *)

\* Documents and calls.
RestTypeOK ==
    /\ today \in Nat
    /\ order \in [Orders -> OrderRow]
    /\ placing = None \/ placing \in [wh: Warehouses, shelf: Shelf]
    /\ arrival \in [Arrivals -> ArrivalRow]
    /\ deleting \subseteq Arrivals
    /\ count \in [Counts -> CountRow]
    /\ applying \in [Counts -> {None} \cup [counted: Nat, total: Nat]]
    /\ checked \subseteq Counts \X {"write", "cancel"}
    /\ giving = None \/ giving \in [wh: Warehouses, free: Int]
    /\ paid \in [Keys -> PaidRow]
    /\ given \in Nat

LEMMA QuantityNat == Quantity \subseteq Nat /\ 0 .. MaxQty \subseteq Nat
BY StockConstants DEF Quantity

LEMMA OrderTypes == StockTypeOK /\ OrderStep => StockTypeOK'
<1> SUFFICES ASSUME DoorTypeOK, RestTypeOK, OrderStep PROVE DoorTypeOK' /\ RestTypeOK'
  BY DEF StockTypeOK, DoorTypeOK, RestTypeOK
<1> USE QuantityNat
<1>1. ASSUME NEW w \in Sites, PlaceBegin(w) PROVE DoorTypeOK' /\ RestTypeOK'
  <2>1. w \in Warehouses
    BY StockConstants
  <2> QED
    BY <1>1, <2>1 DEF PlaceBegin, DoorTypeOK, RestTypeOK, stockVars, arrivalVars, countVars, supplyVars
<1>2. ASSUME NEW o \in Orders, NEW q \in Quantity, PlaceCommit(o, q)
      PROVE  DoorTypeOK' /\ RestTypeOK'
  <2>1. placing.wh \in Warehouses
    BY <1>2 DEF RestTypeOK, PlaceCommit
  <2>2. Hold(placing.wh, q) /\ q \in Int
    BY <1>2 DEF PlaceCommit
  <2>3. DoorTypeOK'
    BY <2>1, <2>2, HoldEffect
  <2>4. RestTypeOK'
    BY <1>2, <2>1 DEF PlaceCommit, RestTypeOK, OrderRow, arrivalVars, countVars, supplyVars
  <2> QED
    BY <2>3, <2>4
<1>3. ASSUME NEW o \in Orders, NEW q \in Quantity, Restock(o, q)
      PROVE  DoorTypeOK' /\ RestTypeOK'
  <2>1. Enter(Main, q, NoBatch) /\ Main \in Warehouses
    BY <1>3, StockConstants DEF Restock
  <2>2. DoorTypeOK'
    BY <2>1, EnterEffect
  <2>3. order[o].qty - q \in Nat
    BY <1>3 DEF Restock, RestTypeOK, OrderRow
  <2>4. RestTypeOK'
    BY <1>3, <2>3 DEF Restock, RestTypeOK, OrderRow, arrivalVars, countVars, supplyVars
  <2> QED
    BY <2>2, <2>4
<1>4. ASSUME PlaceAbort PROVE DoorTypeOK' /\ RestTypeOK'
  BY <1>4 DEF PlaceAbort, DoorTypeOK, RestTypeOK, stockVars, arrivalVars, countVars, supplyVars
<1>5. ASSUME NEW o \in Orders, CancelOrder(o) PROVE DoorTypeOK' /\ RestTypeOK'
  <2>1. order[o].wh \in Warehouses /\ order[o].qty \in Nat
    BY DEF RestTypeOK, OrderRow
  <2>2. Hold(order[o].wh, -order[o].qty) /\ -order[o].qty \in Int
    BY <1>5, <2>1 DEF CancelOrder
  <2>3. DoorTypeOK'
    BY <2>1, <2>2, HoldEffect
  <2>4. RestTypeOK'
    BY <1>5, StockConstants DEF CancelOrder, NoOrder, RestTypeOK, OrderRow, arrivalVars, countVars, supplyVars
  <2> QED
    BY <2>3, <2>4
<1>6. ASSUME NEW o \in Orders, NEW d \in 0 .. MaxQty, Ship(o, d)
      PROVE  DoorTypeOK' /\ RestTypeOK'
  <2>1. order[o].wh \in Warehouses /\ order[o].qty \in Nat
    BY DEF RestTypeOK, OrderRow
  <2>2. Leave(order[o].wh, d, order[o].qty, Fresh) /\ d \in Nat
    BY <1>6 DEF Ship
  <2>3. DoorTypeOK'
    BY <2>1, <2>2, LeaveEffect, FreshSubset
  <2>4. RestTypeOK'
    BY <1>6, <2>2 DEF Ship, RestTypeOK, OrderRow, arrivalVars, countVars, supplyVars
  <2> QED
    BY <2>3, <2>4
<1> QED
  BY <1>1, <1>2, <1>3, <1>4, <1>5, <1>6 DEF OrderStep

LEMMA ArrivalTypes == StockTypeOK /\ ArrivalStep => StockTypeOK'
<1> SUFFICES ASSUME DoorTypeOK, RestTypeOK, ArrivalStep PROVE DoorTypeOK' /\ RestTypeOK'
  BY DEF StockTypeOK, DoorTypeOK, RestTypeOK
<1>1. ASSUME NEW a \in Arrivals, NEW b \in Batches \cup {NoBatch}, NEW q \in Nat,
             DraftArrival(a, b, q)
      PROVE  DoorTypeOK' /\ RestTypeOK'
  BY <1>1 DEF DraftArrival, DoorTypeOK, RestTypeOK, ArrivalRow, stockVars, orderVars,
              countVars, supplyVars
<1>2. ASSUME NEW a \in Arrivals, NEW w \in Sites, PostArrival(a, w)
      PROVE  DoorTypeOK' /\ RestTypeOK'
  <2>1. /\ Enter(w, arrival[a].qty, arrival[a].batch) /\ w \in Warehouses
        /\ arrival[a].qty \in Nat /\ arrival[a].batch \in Batches \cup {NoBatch}
    BY <1>2, StockConstants DEF PostArrival, RestTypeOK, ArrivalRow
  <2>2. DoorTypeOK'
    BY <2>1, EnterEffect
  <2>3. RestTypeOK'
    BY <1>2 DEF PostArrival, RestTypeOK, ArrivalRow, NoArrival, orderVars, countVars, supplyVars
  <2> QED
    BY <2>2, <2>3
<1>3. ASSUME NEW a \in Arrivals, DeleteCheck(a) \/ DeleteWrite(a)
      PROVE  DoorTypeOK' /\ RestTypeOK'
  BY <1>3 DEF DeleteCheck, DeleteWrite, DoorTypeOK, RestTypeOK, ArrivalRow, NoArrival,
              stockVars, orderVars, countVars, supplyVars
<1> QED
  BY <1>1, <1>2, <1>3, QuantityNat DEF ArrivalStep

LEMMA OfficeTypes == StockTypeOK /\ OfficeStep => StockTypeOK'
<1> SUFFICES ASSUME DoorTypeOK, RestTypeOK, OfficeStep PROVE DoorTypeOK' /\ RestTypeOK'
  BY DEF StockTypeOK, DoorTypeOK, RestTypeOK
<1> USE QuantityNat
<1>1. ASSUME NEW w \in Sites, NEW q \in Quantity, AdjustIn(w, q) PROVE DoorTypeOK' /\ RestTypeOK'
  <2>1. Enter(w, q, NoBatch) /\ w \in Warehouses
    BY <1>1, StockConstants DEF AdjustIn
  <2> QED
    BY <1>1, <2>1, EnterEffect DEF AdjustIn, RestTypeOK, orderVars, arrivalVars, countVars, supplyVars
<1>2. ASSUME NEW w \in Sites, NEW q \in Quantity, AdjustOut(w, q) PROVE DoorTypeOK' /\ RestTypeOK'
  <2>1. Leave(w, q, 0, Batches) /\ w \in Warehouses
    BY <1>2, StockConstants DEF AdjustOut
  <2> QED
    BY <1>2, <2>1, LeaveEffect DEF AdjustOut, RestTypeOK, orderVars, arrivalVars, countVars, supplyVars
<1>3. ASSUME NEW w \in Sites, NEW q \in Quantity, AdjustTo(w, q) PROVE DoorTypeOK' /\ RestTypeOK'
  <2>1. SetStock(w, q, OnShelf(w)) /\ w \in Warehouses /\ stock[w].current \in Int
    BY <1>3, StockConstants DEF AdjustTo, DoorTypeOK, Door!Rows, Door!Row
  <2>2. stock' \in Door!Rows /\ batch' \in [Warehouses -> Shelf]
    BY <2>1, OnShelfNat, SetStockEffect
  <2>3. journal' \in [Warehouses -> Int]
    BY <1>3, <2>1 DEF AdjustTo, DoorTypeOK
  <2> QED
    BY <1>3, <2>2, <2>3 DEF AdjustTo, DoorTypeOK, RestTypeOK, orderVars, arrivalVars, countVars, supplyVars
<1>4. ASSUME NEW q \in 0 .. MaxQty, OneC(q) PROVE DoorTypeOK' /\ RestTypeOK'
  <2>1. SetStock(Main, q, OnShelf(Main)) /\ Main \in Warehouses
    BY <1>4, StockConstants DEF OneC
  <2>2. stock' \in Door!Rows /\ batch' \in [Warehouses -> Shelf]
    BY <2>1, OnShelfNat, SetStockEffect
  <2>3. journal' \in [Warehouses -> Int]
    BY <1>4, <2>1 DEF OneC, Stated, DoorTypeOK
  <2> QED
    BY <1>4, <2>2, <2>3 DEF OneC, DoorTypeOK, RestTypeOK, orderVars, arrivalVars, countVars, supplyVars
<1>5. ASSUME NEW v \in Warehouses, NEW w \in Warehouses, NEW q \in Quantity, Transfer(v, w, q)
      PROVE  DoorTypeOK' /\ RestTypeOK'
  BY <1>5, TransferEffect DEF Transfer, RestTypeOK, orderVars, arrivalVars, countVars, supplyVars
<1> QED
  BY <1>1, <1>2, <1>3, <1>4, <1>5 DEF OfficeStep

LEMMA CountTypes == StockTypeOK /\ CountStep => StockTypeOK'
<1> SUFFICES ASSUME DoorTypeOK, RestTypeOK, CountStep PROVE DoorTypeOK' /\ RestTypeOK'
  BY DEF StockTypeOK, DoorTypeOK, RestTypeOK
<1>1. ASSUME NEW c \in Counts, NEW w \in Sites, CreateCount(c, w)
      PROVE  DoorTypeOK' /\ RestTypeOK'
  BY <1>1, StockConstants DEF CreateCount, CountRow, DoorTypeOK, RestTypeOK, stockVars,
              orderVars, arrivalVars, supplyVars
<1>2. ASSUME NEW c \in Counts, NEW what \in {"write", "cancel"}, CheckDraft(c, what)
      PROVE  DoorTypeOK' /\ RestTypeOK'
  BY <1>2 DEF CheckDraft, DoorTypeOK, RestTypeOK, stockVars, orderVars, arrivalVars, supplyVars
<1>3. ASSUME NEW c \in Counts, NEW n \in 0 .. MaxQty, SetCounted(c, n)
      PROVE  DoorTypeOK' /\ RestTypeOK'
  BY <1>3, QuantityNat DEF SetCounted, CountRow, DoorTypeOK, RestTypeOK, stockVars, orderVars,
              arrivalVars, supplyVars
<1>4. ASSUME NEW c \in Counts, CancelCount(c) \/ ApplyAbort(c) PROVE DoorTypeOK' /\ RestTypeOK'
  BY <1>4 DEF CancelCount, ApplyAbort, CountRow, DoorTypeOK, RestTypeOK, stockVars, orderVars,
              arrivalVars, supplyVars
<1>5. ASSUME NEW c \in Counts, ApplyBegin(c) PROVE DoorTypeOK' /\ RestTypeOK'
  <2>1. OnShelf(count[c].wh) \in Nat /\ count[c].counted \in Nat
    BY <1>5, OnShelfNat DEF ApplyBegin, RestTypeOK, CountRow
  <2> QED
    BY <1>5, <2>1 DEF ApplyBegin, DoorTypeOK, RestTypeOK, stockVars, orderVars, arrivalVars,
              supplyVars
<1>6. ASSUME NEW c \in Counts, ApplyCommit(c) PROVE DoorTypeOK' /\ RestTypeOK'
  <2> DEFINE w == count[c].wh
  <2>1. /\ w \in Warehouses /\ applying[c].counted \in Nat /\ applying[c].total \in Nat
        /\ stock[w].current \in Int
    BY <1>6 DEF ApplyCommit, RestTypeOK, CountRow, DoorTypeOK, Door!Rows, Door!Row
  <2>2. /\ count' \in [Counts -> CountRow]
        /\ applying' \in [Counts -> {None} \cup [counted: Nat, total: Nat]]
    <3>1. /\ count' = [count EXCEPT ![c].status = "applied", ![c].counted = None]
          /\ applying' = [applying EXCEPT ![c] = None]
      BY <1>6, Zenon DEF ApplyCommit
    <3>2. /\ count \in [Counts -> CountRow]
          /\ applying \in [Counts -> {None} \cup [counted: Nat, total: Nat]]
      BY DEF RestTypeOK
    <3>3. count' \in [Counts -> CountRow]
      BY <3>1, <3>2 DEF CountRow
    <3> QED
      BY <3>1, <3>2, <3>3
  <2>5. RestTypeOK'
    BY <1>6, <2>2 DEF ApplyCommit, RestTypeOK, orderVars, arrivalVars, supplyVars
  <2>6. CASE Difference(c) = 0
    BY <1>6, <2>6, <2>5 DEF ApplyCommit, DoorTypeOK, stockVars
  <2>7. CASE Difference(c) # 0
    <3>1. SetStock(w, applying[c].counted, applying[c].total)
      BY <1>6, <2>7 DEF ApplyCommit
    <3>2. stock' \in Door!Rows /\ batch' \in [Warehouses -> Shelf]
      BY <2>1, <3>1, SetStockEffect
    <3>3. journal' \in [Warehouses -> Int]
      BY <1>6, <2>1, <2>7 DEF ApplyCommit, Difference, DoorTypeOK
    <3> QED
      BY <2>5, <3>2, <3>3 DEF DoorTypeOK
  <2> QED
    BY <2>6, <2>7
<1> QED
  BY <1>1, <1>2, <1>3, <1>4, <1>5, <1>6 DEF CountStep

---------------------------------------------------------------------------
(* The supply *)

PaidAmount == [k \in Keys |-> paid[k].amount]
PaidQty == [k \in Keys |-> paid[k].qty]

LEMMA PaidOffNat ==
    ASSUME RestTypeOK
    PROVE  PaidOff \in Nat /\ SumFunctionOnSet(PaidQty, Keys) \in Nat
<1>1. \A k \in Keys : PaidAmount[k] \in Nat /\ PaidQty[k] \in Nat
  BY DEF RestTypeOK, PaidRow, PaidAmount, PaidQty
<1> QED
  BY <1>1, StockConstants, SumTypes DEF PaidOff, PaidAmount

\* A row for an unused key adds its amount and its goods to the sums.
LEMMA NewPayment ==
    ASSUME RestTypeOK, NEW k \in Keys, NEW r \in PaidRow, Unused(k),
           paid[k].amount = 0, paid[k].qty = 0, paid' = [paid EXCEPT ![k] = r]
    PROVE  /\ PaidOff' = PaidOff + r.amount
           /\ SumFunctionOnSet(PaidQty', Keys) = SumFunctionOnSet(PaidQty, Keys) + r.qty
<1>1. \A j \in Keys : /\ PaidAmount[j] \in Int /\ PaidAmount'[j] \in Int
                     /\ PaidQty[j] \in Int /\ PaidQty'[j] \in Int
  BY DEF RestTypeOK, PaidRow, PaidAmount, PaidQty
<1>2. \A j \in Keys \ {k} : PaidAmount[j] = PaidAmount'[j] /\ PaidQty[j] = PaidQty'[j]
  BY DEF RestTypeOK, PaidAmount, PaidQty
<1>3. PaidAmount[k] = 0 /\ PaidQty[k] = 0 /\ PaidAmount'[k] = r.amount /\ PaidQty'[k] = r.qty
  BY DEF RestTypeOK, PaidAmount, PaidQty
<1>4. SumFunctionOnSet(PaidAmount', Keys)
        = SumFunctionOnSet(PaidAmount, Keys) + (PaidAmount'[k] - PaidAmount[k])
  BY <1>1, <1>2, StockConstants, SumChange
<1>5. SumFunctionOnSet(PaidQty', Keys)
        = SumFunctionOnSet(PaidQty, Keys) + (PaidQty'[k] - PaidQty[k])
  BY <1>1, <1>2, StockConstants, SumChange
<1>6. r.amount \in Int /\ r.qty \in Int
  BY DEF PaidRow
<1>7. r.amount - 0 = r.amount /\ r.qty - 0 = r.qty
  BY <1>6
<1> QED
  BY <1>3, <1>4, <1>5, <1>7 DEF PaidOff, PaidAmount

\* An unused key has no row, so nothing is counted for it.
UnusedIsEmpty == \A k \in Keys : Unused(k) => paid[k] = NotPaid

SupplyInv == RestTypeOK /\ UnusedIsEmpty /\ SupplyBalances

LEMMA SupplySteps == DoorTypeOK /\ SupplyInv /\ SupplyStep => DoorTypeOK' /\ SupplyInv'
<1> SUFFICES ASSUME DoorTypeOK, SupplyInv, SupplyStep PROVE DoorTypeOK' /\ SupplyInv'
  OBVIOUS
<1> USE DEF SupplyInv
<1> DEFINE qty == SumFunctionOnSet(PaidQty, Keys)
<1>0. PaidOff \in Nat /\ Owed \in Nat /\ Remaining = Owed - PaidOff /\ PaidOff <= Owed
      /\ qty = given /\ qty \in Nat
  BY PaidOffNat, StockConstants DEF Remaining, SupplyBalances, PaidQty
<1>1. ASSUME NEW k \in Keys, NEW amount \in 1 .. Owed, Pay(k, amount)
      PROVE  DoorTypeOK' /\ SupplyInv'
  <2> DEFINE r == [kind |-> "money", amount |-> amount, qty |-> 0]
  <2>1. r \in PaidRow /\ Unused(k) /\ paid' = [paid EXCEPT ![k] = r] /\ amount <= Remaining
        /\ r.amount = amount /\ r.qty = 0 /\ amount \in Nat
    BY <1>1, <1>0 DEF Pay, PaidRow
  <2>2. paid[k].amount = 0 /\ paid[k].qty = 0
    BY <2>1 DEF UnusedIsEmpty, NotPaid
  <2> HIDE DEF r
  <2>3. PaidOff' = PaidOff + r.amount /\ SumFunctionOnSet(PaidQty', Keys) = qty + r.qty
    BY <2>1, <2>2, NewPayment
  <2>4. DoorTypeOK' /\ RestTypeOK'
    BY <1>1, <2>1 DEF Pay, DoorTypeOK, RestTypeOK, stockVars, orderVars, arrivalVars, countVars
  <2>5. UnusedIsEmpty'
    BY <1>1 DEF Pay, Unused, UnusedIsEmpty, NotPaid, RestTypeOK
  <2>6. given' = given
    BY <1>1 DEF Pay
  <2>7. PaidOff' <= Owed /\ given' = SumFunctionOnSet(PaidQty', Keys)
    BY <1>0, <2>1, <2>3, <2>6
  <2> QED
    BY <2>4, <2>5, <2>7 DEF SupplyBalances, PaidQty
<1>2. ASSUME NEW w \in Sites, GiveBegin(w) PROVE DoorTypeOK' /\ SupplyInv'
  <2>1. w \in Warehouses /\ stock[w].available \in Int
    BY StockConstants DEF DoorTypeOK, Door!Rows, Door!Row
  <2>2. DoorTypeOK' /\ RestTypeOK'
    BY <1>2, <2>1 DEF GiveBegin, DoorTypeOK, RestTypeOK, stockVars, orderVars, arrivalVars, countVars
  <2>3. paid' = paid /\ given' = given
    BY <1>2 DEF GiveBegin
  <2> QED
    BY <2>2, <2>3 DEF UnusedIsEmpty, Unused, SupplyBalances, PaidOff
<1>3. ASSUME NEW k \in Keys, NEW q \in Quantity, NEW worth \in 1 .. (Owed + 1),
             GiveCommit(k, q, worth)
      PROVE  DoorTypeOK' /\ SupplyInv'
  <2> DEFINE r == [kind |-> "goods", amount |-> Credited(worth), qty |-> q]
  <2>1. Credited(worth) \in Nat /\ Credited(worth) <= Remaining /\ q \in Nat
    BY <1>0, QuantityNat DEF Credited
  <2>2. r \in PaidRow /\ Unused(k) /\ paid' = [paid EXCEPT ![k] = r]
        /\ r.amount = Credited(worth) /\ r.qty = q
    BY <1>3, <2>1 DEF GiveCommit, PaidRow
  <2>3. paid[k].amount = 0 /\ paid[k].qty = 0
    BY <2>2 DEF UnusedIsEmpty, NotPaid
  <2> HIDE DEF r
  <2>4. PaidOff' = PaidOff + r.amount /\ SumFunctionOnSet(PaidQty', Keys) = qty + r.qty
    BY <2>2, <2>3, NewPayment
  <2>5. giving.wh \in Warehouses /\ Leave(giving.wh, q, 0, Batches)
    BY <1>3 DEF GiveCommit, RestTypeOK
  <2>6. DoorTypeOK'
    BY <2>1, <2>5, LeaveEffect
  <2>7. given' = given + q
    BY <1>3 DEF GiveCommit
  <2>8. RestTypeOK'
    BY <1>3, <2>1, <2>2, <2>7 DEF GiveCommit, RestTypeOK, orderVars, arrivalVars, countVars
  <2>9. UnusedIsEmpty'
    BY <1>3 DEF GiveCommit, Unused, UnusedIsEmpty, NotPaid, RestTypeOK
  <2>10. PaidOff' <= Owed /\ given' = SumFunctionOnSet(PaidQty', Keys)
    BY <1>0, <2>1, <2>2, <2>4, <2>7
  <2> QED
    BY <2>6, <2>8, <2>9, <2>10 DEF SupplyBalances, PaidQty
<1>4. ASSUME GiveAbort PROVE DoorTypeOK' /\ SupplyInv'
  <2>1. DoorTypeOK' /\ RestTypeOK'
    BY <1>4 DEF GiveAbort, DoorTypeOK, RestTypeOK, stockVars, orderVars, arrivalVars, countVars
  <2>2. paid' = paid /\ given' = given
    BY <1>4 DEF GiveAbort
  <2> QED
    BY <2>1, <2>2 DEF UnusedIsEmpty, Unused, SupplyBalances, PaidOff
<1> QED
  BY <1>1, <1>2, <1>3, <1>4 DEF SupplyStep

---------------------------------------------------------------------------
(* What a step does to one row *)

\* What is left free covers what had expired in the snapshot of the order.
NoneExpired(left) ==
    ExpiredOn(placing.shelf) \in Nat /\ left >= ExpiredOn(placing.shelf)

\* The row moves by two numbers from which all else follows: the reserve by
\* what orders in work hold more or less, the journal by what moved or to the
\* number 1C states; available falls below zero only by a return to the
\* supplier that has seen something else, and a hold leaves the expired alone.
RowMove(w) == \E onHand, held \in Int :
    /\ stock'[w].current = stock[w].current + onHand
    /\ stock'[w].reserved = stock[w].reserved + held
    /\ stock'[w].available = stock[w].available + onHand - held
    /\ SumFunctionOnSet(Held(w)', Orders) = SumFunctionOnSet(Held(w), Orders) + held
    /\ \/ journal'[w] = journal[w] + onHand
       \/ w = Main /\ journal'[w] = Stated(journal[w], stock'[w].current)
    /\ onHand - held < 0 =>
         \/ stock'[w].available >= 0
         \/ given' > given /\ giving.free # stock[w].available
    /\ held > 0 => NoneExpired(stock'[w].available)

StockInv == StockTypeOK /\ ReserveIsPromised /\ UnusedIsEmpty /\ SupplyBalances

\* What is known of a row in a good state.
LEMMA RowFacts ==
    ASSUME StockInv, NEW w \in Warehouses
    PROVE  /\ DoorTypeOK /\ RestTypeOK
           /\ stock[w] \in Door!Row
           /\ stock[w].current \in Int /\ stock[w].reserved \in Nat
           /\ stock[w].available = stock[w].current - stock[w].reserved
           /\ journal[w] \in Int
           /\ SumFunctionOnSet(Held(w), Orders) = stock[w].reserved
           /\ \A o \in Orders : Held(w)[o] \in Nat /\ Held(w)[o] <= stock[w].reserved
<1>1. DoorTypeOK /\ RestTypeOK
  BY DEF StockInv, StockTypeOK, DoorTypeOK, RestTypeOK
<1>2. \A o \in Orders : Held(w)[o] \in Nat /\ Held(w)[o] \in Int
  BY <1>1 DEF Held, RestTypeOK, OrderRow
<1>3. SumFunctionOnSet(Held(w), Orders) \in Nat
  BY <1>2, StockConstants, SumTypes
<1>4. \A o \in Orders : Held(w)[o] <= SumFunctionOnSet(Held(w), Orders)
  <2> TAKE o \in Orders
  <2>1. SumFunctionOnSet(Held(w), Orders)
          = Held(w)[o] + SumFunctionOnSet(Held(w), Orders \ {o})
    BY <1>2, StockConstants, SumRemove
  <2>2. SumFunctionOnSet(Held(w), Orders \ {o}) \in Nat
    <3>1. IsFiniteSet(Orders \ {o})
      BY StockConstants, FS_Subset
    <3> QED
      BY <1>2, <3>1, SumTypes
  <2> QED
    BY <1>2, <2>1, <2>2
<1>5. stock[w] \in Door!Row /\ journal[w] \in Int
  BY <1>1 DEF DoorTypeOK, Door!Rows
<1>6. stock[w].current \in Int
  BY <1>5 DEF Door!Row
<1>7. /\ stock[w].reserved = SumFunctionOnSet(Held(w), Orders)
      /\ stock[w].available = stock[w].current - stock[w].reserved
  BY DEF StockInv, ReserveIsPromised
<1> QED
  BY <1>1, <1>2, <1>3, <1>4, <1>5, <1>6, <1>7

\* Orders that stay as they are hold what they held.
LEMMA HeldSame ==
    ASSUME StockInv, NEW w \in Warehouses, order' = order
    PROVE  SumFunctionOnSet(Held(w)', Orders) = SumFunctionOnSet(Held(w), Orders) + 0
<1>1. Held(w)' = Held(w)
  BY DEF Held
<1>2. SumFunctionOnSet(Held(w), Orders) \in Int
  BY RowFacts
<1> QED
  BY <1>1, <1>2

\* Nothing happens to the row.
LEMMA RowStays ==
    ASSUME StockInv, NEW w \in Warehouses, stock'[w] = stock[w], journal'[w] = journal[w],
           SumFunctionOnSet(Held(w)', Orders) = SumFunctionOnSet(Held(w), Orders) + 0
    PROVE  RowMove(w)
<1>1. /\ stock[w].current + 0 = stock[w].current /\ stock[w].reserved + 0 = stock[w].reserved
      /\ stock[w].available + 0 - 0 = stock[w].available
      /\ journal[w] + 0 = journal[w] /\ ~(0 - 0 < 0) /\ 0 \in Int
  BY RowFacts
<1> QED
  BY <1>1 DEF RowMove

\* The door shifts the row without cutting the reserve.
LEMMA RowShifts ==
    ASSUME StockInv, NEW w \in Warehouses, NEW onHand \in Int, NEW held \in Int,
           stock'[w] = Door!ShiftRow(stock[w], onHand, held),
           stock[w].reserved + held >= 0,
           journal'[w] = journal[w] + onHand,
           SumFunctionOnSet(Held(w)', Orders) = SumFunctionOnSet(Held(w), Orders) + held,
           \/ stock[w].available + onHand - held >= 0
           \/ onHand - held >= 0
           \/ given' > given /\ giving.free # stock[w].available,
           held > 0 => NoneExpired(stock[w].available + onHand - held)
    PROVE  RowMove(w)
<1>1. /\ stock[w] \in Door!Row /\ stock[w].current \in Int /\ stock[w].reserved \in Nat
      /\ stock[w].available = stock[w].current - stock[w].reserved
  BY RowFacts
<1>2. /\ stock'[w].current = stock[w].current + onHand
      /\ stock'[w].reserved = stock[w].reserved + held
      /\ stock'[w].available = stock'[w].current - stock'[w].reserved
  BY <1>1, RowShifted
<1>3. stock'[w].available = stock[w].available + onHand - held
  BY <1>1, <1>2
<1> QED
  BY <1>1, <1>2, <1>3 DEF RowMove

\* The row is set outright, to no less than is reserved.
LEMMA RowSet ==
    ASSUME StockInv, NEW w \in Warehouses, NEW q \in Nat,
           stock'[w] = RowSetTo(stock[w], q), stock[w].reserved <= q, order' = order,
           \/ journal'[w] = journal[w] + (q - stock[w].current)
           \/ w = Main /\ journal'[w] = Stated(journal[w], q)
    PROVE  RowMove(w)
<1> DEFINE n == q - stock[w].current
<1>1. /\ stock[w] \in Door!Row /\ stock[w].current \in Int /\ stock[w].reserved \in Nat
      /\ stock[w].available = stock[w].current - stock[w].reserved
  BY RowFacts
<1>2. /\ stock'[w].current = q /\ stock'[w].reserved = stock[w].reserved
      /\ stock'[w].available = q - stock[w].reserved
  BY DEF RowSetTo
<1>3. /\ n \in Int /\ 0 \in Int /\ q = stock[w].current + n
      /\ stock[w].reserved = stock[w].reserved + 0
      /\ q - stock[w].reserved = stock[w].available + n - 0
      /\ q - stock[w].reserved >= 0
  BY <1>1
<1>4. SumFunctionOnSet(Held(w)', Orders) = SumFunctionOnSet(Held(w), Orders) + 0
  BY HeldSame
<1>5. journal'[w] = journal[w] + n \/ (w = Main /\ journal'[w] = Stated(journal[w], q))
  OBVIOUS
<1> HIDE DEF n
<1> QED
  BY <1>2, <1>3, <1>4, <1>5 DEF RowMove

\* One order changes what is held by its own difference.
LEMMA HeldChange ==
    ASSUME StockInv, NEW w \in Warehouses, NEW o \in Orders,
           order' \in [Orders -> OrderRow], \A p \in Orders \ {o} : order'[p] = order[p]
    PROVE  SumFunctionOnSet(Held(w)', Orders)
             = SumFunctionOnSet(Held(w), Orders) + (Held(w)'[o] - Held(w)[o])
<1>1. order \in [Orders -> OrderRow]
  BY RowFacts DEF RestTypeOK
<1>2. \A p \in Orders : Held(w)[p] \in Int /\ Held(w)'[p] \in Int
  BY <1>1 DEF Held, OrderRow
<1>3. \A p \in Orders \ {o} : Held(w)[p] = Held(w)'[p]
  BY DEF Held
<1> QED
  BY <1>2, <1>3, StockConstants, SumChange

\* The same, for the warehouse of the order and for the others.
LEMMA OrderMoves ==
    ASSUME StockInv, StockTypeOK', NEW w \in Warehouses, NEW o \in Orders,
           NEW v \in Warehouses, NEW onHand \in Int, NEW held \in Int,
           \A p \in Orders \ {o} : order'[p] = order[p],
           \A u \in Warehouses : Held(u)'[o] = Held(u)[o] + (IF u = v THEN held ELSE 0),
           \A u \in Warehouses \ {v} : stock'[u] = stock[u] /\ journal'[u] = journal[u],
           stock'[v] = Door!ShiftRow(stock[v], onHand, held),
           journal'[v] = journal[v] + onHand,
           stock[v].reserved + held >= 0,
           \/ stock[v].available + onHand - held >= 0
           \/ onHand - held >= 0,
           held > 0 => NoneExpired(stock[v].available + onHand - held)
    PROVE  RowMove(w)
<1>1. order' \in [Orders -> OrderRow]
  BY DEF StockTypeOK
<1>2. Held(w)[o] \in Int
  BY RowFacts
<1>3. SumFunctionOnSet(Held(w)', Orders)
        = SumFunctionOnSet(Held(w), Orders) + (Held(w)'[o] - Held(w)[o])
  BY <1>1, HeldChange
<1>4. CASE w = v
  <2>1. Held(w)'[o] - Held(w)[o] = held
    BY <1>2, <1>4
  <2> QED
    BY <1>3, <1>4, <2>1, RowShifts
<1>5. CASE w # v
  <2>1. Held(w)'[o] - Held(w)[o] = 0
    BY <1>2, <1>5
  <2> QED
    BY <1>3, <1>5, <2>1, RowStays
<1> QED
  BY <1>4, <1>5

LEMMA OrderMovesRows ==
    ASSUME StockInv, StockTypeOK', OrderStep, NEW w \in Warehouses
    PROVE  RowMove(w)
<1>0. DoorTypeOK /\ RestTypeOK
  BY RowFacts
<1> DEFINE Quiet == order' = order /\ stock'[w] = stock[w] /\ journal'[w] = journal[w]
<1>a. ASSUME Quiet PROVE RowMove(w)
  BY <1>a, HeldSame, RowStays
<1>1. ASSUME NEW v \in Sites, PlaceBegin(v) PROVE RowMove(w)
  BY <1>1, <1>a DEF PlaceBegin, stockVars
<1>2. ASSUME PlaceAbort PROVE RowMove(w)
  BY <1>2, <1>a DEF PlaceAbort, stockVars
<1>3. ASSUME NEW o \in Orders, NEW q \in Quantity, PlaceCommit(o, q) PROVE RowMove(w)
  <2>1. PICK v \in Warehouses : v = placing.wh
    BY <1>0, <1>3 DEF PlaceCommit, RestTypeOK
  <2>2. placing.shelf \in Shelf /\ q \in Nat /\ q \in Int /\ 0 \in Int /\ Hold(v, q)
    BY <1>0, <1>3, <2>1, QuantityNat DEF PlaceCommit, RestTypeOK
  <2>3. /\ \A u \in Warehouses \ {v} : stock'[u] = stock[u]
        /\ stock'[v] = Door!ShiftRow(stock[v], 0, q) /\ journal' = journal
    BY <1>0, <2>2, HoldEffect
  <2>4. order' = [order EXCEPT ![o] = [status |-> "open", wh |-> v, qty |-> q]]
        /\ order[o].status = "none" /\ q <= stock[v].available - ExpiredOn(placing.shelf)
    BY <1>3, <2>1 DEF PlaceCommit, Sellable
  <2>5. ExpiredOn(placing.shelf) \in Nat
    <3>1. {b \in Batches : Expired(b)} \in SUBSET Batches
      OBVIOUS
    <3> QED
      BY <2>2, <3>1, TotalNat DEF ExpiredOn
  <2>6. \A u \in Warehouses : Held(u)[o] = 0 /\ Held(u)'[o] = IF u = v THEN q ELSE 0
    BY <1>0, <2>4 DEF Held, RestTypeOK
  <2>7. \A u \in Warehouses : Held(u)'[o] = Held(u)[o] + (IF u = v THEN q ELSE 0)
    BY <2>2, <2>6
  <2>8. \A p \in Orders \ {o} : order'[p] = order[p]
    BY <1>0, <2>4 DEF RestTypeOK
  <2>9. stock[v].reserved \in Nat /\ stock[v].available \in Int /\ journal[v] \in Int
    BY RowFacts
  <2>10. /\ stock[v].reserved + q >= 0 /\ stock[v].available + 0 - q >= 0
         /\ NoneExpired(stock[v].available + 0 - q)
    BY <2>2, <2>4, <2>5, <2>9 DEF NoneExpired
  <2>11. journal'[v] = journal[v] + 0
    BY <2>3, <2>9
  <2>12. \A u \in Warehouses \ {v} : stock'[u] = stock[u] /\ journal'[u] = journal[u]
    BY <2>3
  <2> QED
    BY <2>2, <2>3, <2>7, <2>8, <2>10, <2>11, <2>12, OrderMoves
<1>4. ASSUME NEW o \in Orders, NEW q \in Quantity, Restock(o, q) PROVE RowMove(w)
  <2>1. /\ Enter(Main, q, NoBatch) /\ Main \in Warehouses /\ q \in Nat
        /\ order[o].status = "shipped" /\ order' = [order EXCEPT ![o].qty = @ - q]
    BY <1>4, StockConstants, QuantityNat DEF Restock
  <2>2. /\ \A v \in Warehouses \ {Main} : stock'[v] = stock[v] /\ journal'[v] = journal[v]
        /\ stock'[Main] = Door!ShiftRow(stock[Main], q, 0)
        /\ journal'[Main] = journal[Main] + q
    BY <1>0, <2>1, EnterEffect
  <2>3. Held(w)' = Held(w)
    BY <1>0, <2>1 DEF Held, RestTypeOK, OrderRow
  <2>4. SumFunctionOnSet(Held(w)', Orders) = SumFunctionOnSet(Held(w), Orders) + 0
    BY <2>3, RowFacts
  <2>5. CASE w = Main
    <3>1. stock[w].reserved + 0 >= 0 /\ q - 0 >= 0 /\ q \in Int /\ 0 \in Int
      BY <2>1, RowFacts
    <3> QED
      BY <2>2, <2>4, <2>5, <3>1, RowShifts
  <2>6. CASE w # Main
    BY <2>2, <2>4, <2>6, RowStays
  <2> QED
    BY <2>5, <2>6
<1>5. ASSUME NEW o \in Orders, CancelOrder(o) PROVE RowMove(w)
  <2>1. PICK v \in Warehouses : v = order[o].wh
    BY <1>0 DEF RestTypeOK, OrderRow
  <2>2. PICK n \in Nat : n = order[o].qty
    BY <1>0 DEF RestTypeOK, OrderRow
  <2>3. PICK m \in Int : m = -n
    OBVIOUS
  <2>4. order[o].status = "open" /\ order' = [order EXCEPT ![o] = NoOrder] /\ Hold(v, m)
    BY <1>5, <2>1, <2>2, <2>3 DEF CancelOrder
  <2>5. /\ \A u \in Warehouses \ {v} : stock'[u] = stock[u]
        /\ stock'[v] = Door!ShiftRow(stock[v], 0, m) /\ journal' = journal
    BY <1>0, <2>4, HoldEffect
  <2>6. \A u \in Warehouses : Held(u)'[o] = 0 /\ Held(u)[o] = IF u = v THEN n ELSE 0
    BY <1>0, <2>1, <2>2, <2>4 DEF Held, RestTypeOK, NoOrder
  <2>7. \A u \in Warehouses : Held(u)'[o] = Held(u)[o] + (IF u = v THEN m ELSE 0)
    BY <2>3, <2>6
  <2>8. n <= stock[v].reserved
    BY <2>6, RowFacts
  <2>9. \A p \in Orders \ {o} : order'[p] = order[p]
    BY <1>0, <2>4 DEF RestTypeOK
  <2>10. stock[v].reserved \in Nat /\ journal[v] \in Int
    BY RowFacts
  <2>11. stock[v].reserved + m >= 0 /\ 0 - m >= 0 /\ 0 \in Int
    BY <2>3, <2>8, <2>10
  <2>12. journal'[v] = journal[v] + 0
    BY <2>5, <2>10
  <2>13. \A u \in Warehouses \ {v} : stock'[u] = stock[u] /\ journal'[u] = journal[u]
    BY <2>5
  <2>14. ~(m > 0)
    BY <2>3
  <2> QED
    BY <2>5, <2>7, <2>9, <2>11, <2>12, <2>13, <2>14, OrderMoves
<1>6. ASSUME NEW o \in Orders, NEW d \in 0 .. MaxQty, Ship(o, d) PROVE RowMove(w)
  <2>1. PICK v \in Warehouses : v = order[o].wh
    BY <1>0 DEF RestTypeOK, OrderRow
  <2>2. PICK n \in Nat : n = order[o].qty
    BY <1>0 DEF RestTypeOK, OrderRow
  <2>3. d \in Nat
    BY QuantityNat
  <2>4. /\ order[o].status = "open" /\ d <= n /\ Leave(v, d, n, Fresh)
        /\ order' = [order EXCEPT ![o].status = "shipped", ![o].qty = d]
    BY <1>6, <2>1, <2>2 DEF Ship
  <2>5. /\ \A u \in Warehouses \ {v} : stock'[u] = stock[u] /\ journal'[u] = journal[u]
        /\ stock'[v] = Door!ShiftRow(stock[v], -d, -n) /\ journal'[v] = journal[v] - d
    BY <1>0, <2>3, <2>4, LeaveEffect, FreshSubset
  <2>6. \A u \in Warehouses : Held(u)'[o] = 0 /\ Held(u)[o] = IF u = v THEN n ELSE 0
    BY <1>0, <2>1, <2>2, <2>4 DEF Held, RestTypeOK, OrderRow
  <2>7. PICK m \in Int, t \in Int : m = -n /\ t = -d
    BY <2>3
  <2>8. \A u \in Warehouses : Held(u)'[o] = Held(u)[o] + (IF u = v THEN m ELSE 0)
    BY <2>6, <2>7
  <2>9. n <= stock[v].reserved
    BY <2>6, RowFacts
  <2>10. \A p \in Orders \ {o} : order'[p] = order[p]
    BY <1>0, <2>4 DEF RestTypeOK
  <2>11. stock[v].reserved \in Nat /\ journal[v] \in Int
    BY RowFacts
  <2>12. stock[v].reserved + m >= 0 /\ t - m >= 0
    BY <2>3, <2>4, <2>7, <2>9, <2>11
  <2>13. journal'[v] = journal[v] + t /\ stock'[v] = Door!ShiftRow(stock[v], t, m)
    BY <2>3, <2>5, <2>7, <2>11
  <2>14. ~(m > 0)
    BY <2>7
  <2> QED
    BY <2>5, <2>8, <2>10, <2>12, <2>13, <2>14, OrderMoves
<1> QED
  BY <1>1, <1>2, <1>3, <1>4, <1>5, <1>6 DEF OrderStep

LEMMA ArrivalMovesRows ==
    ASSUME StockInv, ArrivalStep, NEW w \in Warehouses
    PROVE  RowMove(w)
<1>0. DoorTypeOK /\ RestTypeOK
  BY RowFacts
<1>1. order' = order
  BY DEF ArrivalStep, DraftArrival, PostArrival, DeleteCheck, DeleteWrite, orderVars
<1>2. SumFunctionOnSet(Held(w)', Orders) = SumFunctionOnSet(Held(w), Orders) + 0
  BY <1>1, HeldSame
<1>3. ASSUME stock'[w] = stock[w], journal'[w] = journal[w] PROVE RowMove(w)
  BY <1>2, <1>3, RowStays
<1>4. ASSUME NEW a \in Arrivals, NEW v \in Sites, PostArrival(a, v) PROVE RowMove(w)
  <2>1. PICK q \in Nat : q = arrival[a].qty
    BY <1>0 DEF RestTypeOK, ArrivalRow
  <2>2. /\ Enter(v, q, arrival[a].batch) /\ v \in Warehouses
        /\ arrival[a].batch \in Batches \cup {NoBatch}
    BY <1>0, <1>4, <2>1, StockConstants DEF PostArrival, RestTypeOK, ArrivalRow
  <2>3. /\ \A u \in Warehouses \ {v} : stock'[u] = stock[u] /\ journal'[u] = journal[u]
        /\ stock'[v] = Door!ShiftRow(stock[v], q, 0) /\ journal'[v] = journal[v] + q
    BY <1>0, <2>2, EnterEffect
  <2>4. stock[w].reserved + 0 >= 0 /\ q - 0 >= 0 /\ q \in Int /\ 0 \in Int
    BY <2>1, RowFacts
  <2>5. CASE w = v
    BY <1>2, <2>3, <2>4, <2>5, RowShifts
  <2>6. CASE w # v
    BY <1>3, <2>3, <2>6
  <2> QED
    BY <2>5, <2>6
<1>5. ASSUME stockVars' = stockVars PROVE RowMove(w)
  BY <1>3, <1>5 DEF stockVars
<1> QED
  BY <1>4, <1>5 DEF ArrivalStep, DraftArrival, DeleteCheck, DeleteWrite, stockVars

\* Arithmetic the solver does not simplify by itself.
LEMMA MinusZero == -0 = 0
<1>1. -0 >= 0 /\ -0 <= 0 /\ -0 \in Int
  OBVIOUS
<1>2. \A i \in Int : i >= 0 /\ i <= 0 => i = 0
  OBVIOUS
<1> QED
  BY <1>1, <1>2, Zenon

LEMMA OfficeMovesRows ==
    ASSUME StockInv, OfficeStep, NEW w \in Warehouses
    PROVE  RowMove(w)
<1>0. DoorTypeOK /\ RestTypeOK
  BY RowFacts
<1>1. order' = order
  BY DEF OfficeStep, AdjustIn, AdjustOut, AdjustTo, OneC, Transfer, orderVars
<1>2. SumFunctionOnSet(Held(w)', Orders) = SumFunctionOnSet(Held(w), Orders) + 0
  BY <1>1, HeldSame
<1>3. ASSUME stock'[w] = stock[w], journal'[w] = journal[w] PROVE RowMove(w)
  BY <1>2, <1>3, RowStays
<1>4. stock[w].reserved + 0 >= 0 /\ stock[w].available \in Int /\ journal[w] \in Int /\ 0 \in Int
  BY RowFacts
<1>5. ASSUME NEW v \in Sites, NEW q \in Quantity, AdjustIn(v, q) PROVE RowMove(w)
  <2>1. Enter(v, q, NoBatch) /\ v \in Warehouses /\ q \in Nat
    BY <1>5, StockConstants, QuantityNat DEF AdjustIn
  <2>2. /\ \A u \in Warehouses \ {v} : stock'[u] = stock[u] /\ journal'[u] = journal[u]
        /\ stock'[v] = Door!ShiftRow(stock[v], q, 0) /\ journal'[v] = journal[v] + q
    BY <1>0, <2>1, EnterEffect
  <2>3. q - 0 >= 0 /\ q \in Int
    BY <2>1
  <2>4. CASE w = v
    BY <1>2, <1>4, <2>2, <2>3, <2>4, RowShifts
  <2>5. CASE w # v
    BY <1>3, <2>2, <2>5
  <2> QED
    BY <2>4, <2>5
<1>6. ASSUME NEW v \in Sites, NEW q \in Quantity, AdjustOut(v, q) PROVE RowMove(w)
  <2>1. Leave(v, q, 0, Batches) /\ v \in Warehouses /\ q \in Nat /\ q <= stock[v].available
    BY <1>6, StockConstants, QuantityNat DEF AdjustOut, MayWriteOff
  <2>2. /\ \A u \in Warehouses \ {v} : stock'[u] = stock[u] /\ journal'[u] = journal[u]
        /\ stock'[v] = Door!ShiftRow(stock[v], -q, -0) /\ journal'[v] = journal[v] - q
    BY <1>0, <2>1, LeaveEffect
  <2>3. PICK t \in Int : t = -q
    BY <2>1
  <2>4. CASE w = v
    <3>1. -0 = 0
      BY MinusZero
    <3>2. stock[w].available + t - 0 >= 0 /\ journal'[w] = journal[w] + t
      BY <1>4, <2>1, <2>2, <2>3, <2>4
    <3>3. stock'[w] = Door!ShiftRow(stock[w], t, 0)
      BY <2>2, <2>3, <2>4, <3>1
    <3> QED
      BY <1>2, <1>4, <3>2, <3>3, RowShifts
  <2>5. CASE w # v
    BY <1>3, <2>2, <2>5
  <2> QED
    BY <2>4, <2>5
<1>7. ASSUME NEW v \in Sites, NEW q \in Quantity, AdjustTo(v, q) PROVE RowMove(w)
  <2>1. SetStock(v, q, OnShelf(v)) /\ v \in Warehouses /\ q \in Nat
        /\ journal' = [journal EXCEPT ![v] = @ + (q - stock[v].current)]
    BY <1>7, StockConstants, QuantityNat DEF AdjustTo
  <2>2. /\ \A u \in Warehouses \ {v} : stock'[u] = stock[u]
        /\ stock'[v] = RowSetTo(stock[v], q) /\ stock[v].reserved <= q
    BY <1>0, <2>1, OnShelfNat, SetStockEffect
  <2>3. /\ \A u \in Warehouses \ {v} : journal'[u] = journal[u]
        /\ journal'[v] = journal[v] + (q - stock[v].current)
    BY <1>0, <2>1 DEF DoorTypeOK
  <2>4. CASE w = v
    BY <1>1, <2>1, <2>2, <2>3, <2>4, RowSet
  <2>5. CASE w # v
    BY <1>3, <2>2, <2>3, <2>5
  <2> QED
    BY <2>4, <2>5
<1>8. ASSUME NEW q \in 0 .. MaxQty, OneC(q) PROVE RowMove(w)
  <2>1. SetStock(Main, q, OnShelf(Main)) /\ Main \in Warehouses /\ q \in Nat
        /\ journal' = [journal EXCEPT ![Main] = Stated(@, q)]
    BY <1>8, StockConstants, QuantityNat DEF OneC
  <2>2. /\ \A u \in Warehouses \ {Main} : stock'[u] = stock[u]
        /\ stock'[Main] = RowSetTo(stock[Main], q) /\ stock[Main].reserved <= q
    BY <1>0, <2>1, OnShelfNat, SetStockEffect
  <2>3. /\ \A u \in Warehouses \ {Main} : journal'[u] = journal[u]
        /\ journal'[Main] = Stated(journal[Main], q)
    BY <1>0, <2>1 DEF DoorTypeOK
  <2>4. CASE w = Main
    BY <1>1, <2>1, <2>2, <2>3, <2>4, RowSet
  <2>5. CASE w # Main
    BY <1>3, <2>2, <2>3, <2>5
  <2> QED
    BY <2>4, <2>5
<1>9. ASSUME NEW v \in Warehouses, NEW u \in Warehouses, NEW q \in Quantity, Transfer(v, u, q)
      PROVE  RowMove(w)
  <2>1. /\ v # u /\ q <= stock[v].available /\ q \in Nat
        /\ \A x \in Warehouses \ {v, u} : stock'[x] = stock[x] /\ journal'[x] = journal[x]
        /\ stock'[v] = Door!ShiftRow(stock[v], -q, 0) /\ journal'[v] = journal[v] - q
        /\ stock'[u] = Door!ShiftRow(stock[u], q, 0) /\ journal'[u] = journal[u] + q
    BY <1>0, <1>9, QuantityNat, TransferEffect
  <2>2. PICK t \in Int : t = -q
    BY <2>1
  <2>3. CASE w = v
    <3>1. stock[w].available + t - 0 >= 0 /\ journal'[w] = journal[w] + t
      BY <1>4, <2>1, <2>2, <2>3
    <3> QED
      BY <1>2, <1>4, <2>1, <2>2, <2>3, <3>1, RowShifts
  <2>4. CASE w = u
    <3>1. q - 0 >= 0 /\ q \in Int
      BY <2>1
    <3> QED
      BY <1>2, <1>4, <2>1, <2>4, <3>1, RowShifts
  <2>5. CASE w \notin {v, u}
    BY <1>3, <2>1, <2>5
  <2> QED
    BY <2>3, <2>4, <2>5
<1> QED
  BY <1>5, <1>6, <1>7, <1>8, <1>9 DEF OfficeStep

LEMMA CountMovesRows ==
    ASSUME StockInv, CountStep, NEW w \in Warehouses
    PROVE  RowMove(w)
<1>0. DoorTypeOK /\ RestTypeOK
  BY RowFacts
<1>1. order' = order
  BY DEF CountStep, CreateCount, CheckDraft, SetCounted, CancelCount, ApplyBegin, ApplyCommit,
         ApplyAbort, orderVars
<1>2. SumFunctionOnSet(Held(w)', Orders) = SumFunctionOnSet(Held(w), Orders) + 0
  BY <1>1, HeldSame
<1>3. ASSUME stock'[w] = stock[w], journal'[w] = journal[w] PROVE RowMove(w)
  BY <1>2, <1>3, RowStays
<1>4. ASSUME stockVars' = stockVars PROVE RowMove(w)
  BY <1>3, <1>4 DEF stockVars
<1>5. ASSUME NEW c \in Counts, ApplyCommit(c) PROVE RowMove(w)
  <2>1. PICK v \in Warehouses : v = count[c].wh
    BY <1>0 DEF RestTypeOK, CountRow
  <2>2. PICK q \in Nat, total \in Nat : q = applying[c].counted /\ total = applying[c].total
    BY <1>0, <1>5 DEF ApplyCommit, RestTypeOK
  <2>3. CASE Difference(c) = 0
    BY <1>4, <1>5, <2>3 DEF ApplyCommit, stockVars
  <2>4. CASE Difference(c) # 0
    <3>1. /\ SetStock(v, q, total)
          /\ journal' = [journal EXCEPT ![v] = @ + (q - stock[v].current)]
      BY <1>5, <2>1, <2>2, <2>4 DEF ApplyCommit, Difference
    <3>2. /\ \A u \in Warehouses \ {v} : stock'[u] = stock[u]
          /\ stock'[v] = RowSetTo(stock[v], q) /\ stock[v].reserved <= q
      BY <1>0, <3>1, SetStockEffect
    <3>3. /\ \A u \in Warehouses \ {v} : journal'[u] = journal[u]
          /\ journal'[v] = journal[v] + (q - stock[v].current)
      BY <1>0, <3>1 DEF DoorTypeOK
    <3>4. CASE w = v
      BY <1>1, <3>2, <3>3, <3>4, RowSet
    <3>5. CASE w # v
      BY <1>3, <3>2, <3>3, <3>5
    <3> QED
      BY <3>4, <3>5
  <2> QED
    BY <2>3, <2>4
<1> QED
  BY <1>4, <1>5 DEF CountStep, CreateCount, CheckDraft, SetCounted, CancelCount, ApplyBegin,
                    ApplyAbort, stockVars

LEMMA SupplyMovesRows ==
    ASSUME StockInv, SupplyStep, NEW w \in Warehouses
    PROVE  RowMove(w)
<1>0. DoorTypeOK /\ RestTypeOK
  BY RowFacts
<1>1. order' = order
  BY DEF SupplyStep, Pay, GiveBegin, GiveCommit, GiveAbort, orderVars
<1>2. SumFunctionOnSet(Held(w)', Orders) = SumFunctionOnSet(Held(w), Orders) + 0
  BY <1>1, HeldSame
<1>3. ASSUME stock'[w] = stock[w], journal'[w] = journal[w] PROVE RowMove(w)
  BY <1>2, <1>3, RowStays
<1>4. ASSUME stockVars' = stockVars PROVE RowMove(w)
  BY <1>3, <1>4 DEF stockVars
<1>5. ASSUME NEW k \in Keys, NEW q \in Quantity, NEW worth \in 1 .. (Owed + 1),
             GiveCommit(k, q, worth)
      PROVE  RowMove(w)
  <2>1. PICK v \in Warehouses : v = giving.wh
    BY <1>0, <1>5 DEF GiveCommit, RestTypeOK
  <2>2. PICK free \in Int : free = giving.free
    BY <1>0, <1>5 DEF GiveCommit, RestTypeOK
  <2>3. Leave(v, q, 0, Batches) /\ q \in Nat /\ q <= free /\ given' = given + q /\ q > 0
    BY <1>5, <2>1, <2>2, QuantityNat DEF GiveCommit, Quantity
  <2>4. /\ \A u \in Warehouses \ {v} : stock'[u] = stock[u] /\ journal'[u] = journal[u]
        /\ stock'[v] = Door!ShiftRow(stock[v], -q, -0) /\ journal'[v] = journal[v] - q
    BY <1>0, <2>3, LeaveEffect
  <2>5. PICK t \in Int : t = -q
    BY <2>3
  <2>6. CASE w = v
    <3>1. /\ stock[w].reserved + 0 >= 0 /\ stock[w].available \in Int /\ journal[w] \in Int
          /\ given \in Nat /\ 0 \in Int
      BY <1>0, RowFacts DEF RestTypeOK
    <3>2. -0 = 0
      BY MinusZero
    <3>3. journal'[w] = journal[w] + t /\ given' > given
      BY <2>3, <2>4, <2>5, <2>6, <3>1
    <3>4. stock'[w] = Door!ShiftRow(stock[w], t, 0)
      BY <2>4, <2>5, <2>6, <3>2
    <3>5. stock[w].available + t - 0 >= 0 \/ free # stock[w].available
      BY <2>3, <2>5, <3>1
    <3> QED
      BY <1>2, <2>2, <3>1, <3>3, <3>4, <3>5, RowShifts
  <2>7. CASE w # v
    BY <1>3, <2>4, <2>7
  <2> QED
    BY <2>6, <2>7
<1> QED
  BY <1>4, <1>5 DEF SupplyStep, Pay, GiveBegin, GiveAbort, stockVars

---------------------------------------------------------------------------
(* The invariant *)

LEMMA NextMovesRows ==
    ASSUME StockInv, StockTypeOK', [Next]_vars, NEW w \in Warehouses
    PROVE  RowMove(w)
<1>1. ASSUME order' = order, stockVars' = stockVars PROVE RowMove(w)
  <2>1. stock'[w] = stock[w] /\ journal'[w] = journal[w]
    BY <1>1 DEF stockVars
  <2> QED
    BY <1>1, <2>1, HeldSame, RowStays
<1>2. CASE Midnight
  BY <1>1, <1>2 DEF Midnight, orderVars
<1>3. CASE UNCHANGED vars
  BY <1>1, <1>3 DEF vars, orderVars
<1> QED
  BY <1>2, <1>3, OrderMovesRows, ArrivalMovesRows, OfficeMovesRows, CountMovesRows,
     SupplyMovesRows DEF Next

LEMMA InitStockInv == Init => StockInv
<1> SUFFICES ASSUME Init PROVE StockInv
  OBVIOUS
<1>1. StockTypeOK
  BY StockConstants DEF Init, StockTypeOK, Door!Rows, Door!Row, Shelf, OrderRow, NoOrder,
     ArrivalRow, NoArrival, CountRow, NoCount, PaidRow, NotPaid
<1>2. ReserveIsPromised
  <2> SUFFICES ASSUME NEW w \in Warehouses
               PROVE  /\ stock[w].reserved = SumFunctionOnSet(Held(w), Orders)
                      /\ stock[w].available = stock[w].current - stock[w].reserved
    BY DEF ReserveIsPromised
  <2>1. \A o \in Orders : Held(w)[o] = 0
    BY DEF Init, NoOrder, Held
  <2>2. SumFunctionOnSet(Held(w), Orders) = 0
    BY <2>1, StockConstants, SumTypes
  <2> QED
    BY <2>2 DEF Init
<1>3. UnusedIsEmpty
  BY DEF Init, UnusedIsEmpty, Unused
<1>4. SupplyBalances
  <2>1. /\ SumFunctionOnSet([k \in Keys |-> paid[k].qty], Keys) = 0
        /\ SumFunctionOnSet([k \in Keys |-> paid[k].amount], Keys) = 0
    BY StockConstants, SumTypes DEF Init, NotPaid
  <2> QED
    BY <2>1, StockConstants DEF Init, SupplyBalances, PaidOff
<1> QED
  BY <1>1, <1>2, <1>3, <1>4 DEF StockInv

LEMMA NextStockInv == StockInv /\ [Next]_vars => StockInv'
<1> SUFFICES ASSUME StockInv, [Next]_vars PROVE StockInv'
  OBVIOUS
<1>1. DoorTypeOK /\ RestTypeOK /\ StockTypeOK /\ SupplyInv
  BY DEF StockInv, StockTypeOK, DoorTypeOK, RestTypeOK, SupplyInv
<1>2. StockTypeOK' /\ UnusedIsEmpty' /\ SupplyBalances'
  <2>1. CASE SupplyStep
    <3>1. DoorTypeOK' /\ SupplyInv'
      BY <1>1, <2>1, SupplySteps
    <3> QED
      BY <3>1 DEF StockTypeOK, DoorTypeOK, RestTypeOK, SupplyInv
  <2>2. ASSUME paid' = paid, given' = given PROVE UnusedIsEmpty' /\ SupplyBalances'
    BY <2>2 DEF StockInv, UnusedIsEmpty, Unused, SupplyBalances, PaidOff
  <2>3. CASE OrderStep
    <3>1. paid' = paid /\ given' = given
      BY <2>3 DEF OrderStep, PlaceBegin, PlaceCommit, PlaceAbort, CancelOrder, Ship, Restock,
                  supplyVars
    <3> QED
      BY <1>1, <2>2, <2>3, <3>1, OrderTypes
  <2>4. CASE ArrivalStep
    <3>1. paid' = paid /\ given' = given
      BY <2>4 DEF ArrivalStep, DraftArrival, PostArrival, DeleteCheck, DeleteWrite, supplyVars
    <3> QED
      BY <1>1, <2>2, <2>4, <3>1, ArrivalTypes
  <2>5. CASE OfficeStep
    <3>1. paid' = paid /\ given' = given
      BY <2>5 DEF OfficeStep, AdjustIn, AdjustOut, AdjustTo, OneC, Transfer, supplyVars
    <3> QED
      BY <1>1, <2>2, <2>5, <3>1, OfficeTypes
  <2>6. CASE CountStep
    <3>1. paid' = paid /\ given' = given
      BY <2>6 DEF CountStep, CreateCount, CheckDraft, SetCounted, CancelCount, ApplyBegin,
                  ApplyCommit, ApplyAbort, supplyVars
    <3> QED
      BY <1>1, <2>2, <2>6, <3>1, CountTypes
  <2>7. CASE Midnight \/ UNCHANGED vars
    <3>1. paid' = paid /\ given' = given
      BY <2>7 DEF Midnight, vars, supplyVars
    <3>2. StockTypeOK'
      BY <1>1, <2>7 DEF Midnight, vars, stockVars, orderVars, arrivalVars, countVars, supplyVars,
                        StockTypeOK
    <3> QED
      BY <2>2, <3>1, <3>2
  <2> QED
    BY <2>1, <2>3, <2>4, <2>5, <2>6, <2>7 DEF Next
<1>3. ReserveIsPromised'
  <2> SUFFICES ASSUME NEW w \in Warehouses
               PROVE  /\ stock'[w].reserved = SumFunctionOnSet(Held(w)', Orders)
                      /\ stock'[w].available = stock'[w].current - stock'[w].reserved
    BY DEF ReserveIsPromised
  <2>1. PICK onHand \in Int, held \in Int :
            /\ stock'[w].current = stock[w].current + onHand
            /\ stock'[w].reserved = stock[w].reserved + held
            /\ stock'[w].available = stock[w].available + onHand - held
            /\ SumFunctionOnSet(Held(w)', Orders) = SumFunctionOnSet(Held(w), Orders) + held
    BY <1>2, NextMovesRows DEF RowMove
  <2> QED
    BY <2>1, RowFacts
<1> QED
  BY <1>2, <1>3 DEF StockInv

\* The rows, batches, movements, documents and calls keep their types, however
\* the handlers that are between two steps interleave: no batch goes below
\* zero, nor the reserve of a row.
THEOREM StockTypes == Spec => []StockTypeOK
<1>1. Spec => []StockInv
  BY InitStockInv, NextStockInv, PTL DEF Spec
<1>2. StockInv => StockTypeOK
  BY DEF StockInv
<1> QED
  BY <1>1, <1>2, PTL

\* The reserve of every warehouse is the sum of what its orders in work hold,
\* and available is the rest, for any number of orders, counts and bounds.
THEOREM ReserveAlwaysPromised == Spec => []ReserveIsPromised
<1>1. Spec => []StockInv
  BY InitStockInv, NextStockInv, PTL DEF Spec
<1>2. StockInv => ReserveIsPromised
  BY DEF StockInv
<1> QED
  BY <1>1, <1>2, PTL

\* What went back to the supplier is what the rows of the supply say, and all
\* rows together never exceed what the supply cost.
THEOREM SupplyAlwaysBalances == Spec => []SupplyBalances
<1>1. Spec => []StockInv
  BY InitStockInv, NextStockInv, PTL DEF Spec
<1>2. StockInv => SupplyBalances
  BY DEF StockInv
<1> QED
  BY <1>1, <1>2, PTL

\* No step makes the movements of a warehouse disagree with its shelf, but the
\* exchange with 1C: it ends a disagreement, or states a zero that is not
\* recorded.
THEOREM JournalAlwaysExplains == Spec => JournalExplains
<1>1. Spec => []StockInv
  BY InitStockInv, NextStockInv, PTL DEF Spec
<1>2. ASSUME StockInv, [Next]_vars, NEW w \in Warehouses
      PROVE  \/ stock'[w].current - journal'[w] \in {0, stock[w].current - journal[w]}
             \/ w = Main /\ stock'[w].current = 0 /\ journal'[w] = journal[w]
  <2>1. StockInv'
    BY <1>2, NextStockInv
  <2>2. PICK onHand \in Int :
            /\ stock'[w].current = stock[w].current + onHand
            /\ \/ journal'[w] = journal[w] + onHand
               \/ w = Main /\ journal'[w] = Stated(journal[w], stock'[w].current)
    BY <1>2, <2>1, NextMovesRows DEF RowMove, StockInv
  <2>3. stock[w].current \in Int /\ journal[w] \in Int
    BY <1>2, RowFacts
  <2> QED
    BY <2>2, <2>3 DEF Stated
<1>3. StockInv /\ [Next]_vars =>
        [\A w \in Warehouses :
            \/ stock'[w].current - journal'[w] \in {0, stock[w].current - journal[w]}
            \/ w = Main /\ stock'[w].current = 0 /\ journal'[w] = journal[w]]_vars
  BY <1>2
<1> QED
  BY <1>1, <1>3, PTL DEF Spec, JournalExplains

\* No handler but the return to a supplier promises more than lies on a shelf,
\* and that one only when its check saw another number.
THEOREM OnlySupplierAlwaysOversells == Spec => OnlySupplierOversells
<1>1. Spec => []StockInv
  BY InitStockInv, NextStockInv, PTL DEF Spec
<1>2. ASSUME StockInv, [Next]_vars, NEW w \in Warehouses,
             stock'[w].available < 0, stock'[w].available < stock[w].available
      PROVE  given' > given /\ giving.free # stock[w].available
  <2>1. StockInv'
    BY <1>2, NextStockInv
  <2>2. PICK onHand \in Int, held \in Int :
            /\ stock'[w].available = stock[w].available + onHand - held
            /\ onHand - held < 0 =>
                 \/ stock'[w].available >= 0
                 \/ given' > given /\ giving.free # stock[w].available
    BY <1>2, <2>1, NextMovesRows DEF RowMove, StockInv
  <2>3. stock[w].available \in Int
    BY <1>2, RowFacts
  <2> QED
    BY <1>2, <2>2, <2>3
<1>3. StockInv /\ [Next]_vars =>
        [\A w \in Warehouses :
            stock'[w].available < 0 /\ stock'[w].available < stock[w].available
              => given' > given /\ giving.free # stock[w].available]_vars
  BY <1>2
<1> QED
  BY <1>1, <1>3, PTL DEF Spec, OnlySupplierOversells

\* An order takes no more than what has not expired, counted in its snapshot.
THEOREM FreshIsAlwaysSold == Spec => FreshIsSold
<1>1. Spec => []StockInv
  BY InitStockInv, NextStockInv, PTL DEF Spec
<1>2. ASSUME StockInv, [Next]_vars, NEW w \in Warehouses, stock'[w].reserved > stock[w].reserved
      PROVE  \/ stock'[w].available >= ExpiredOn(batch[w])
             \/ ExpiredOn(placing.shelf) < ExpiredOn(batch[w])
  <2>1. StockInv'
    BY <1>2, NextStockInv
  <2>2. PICK onHand \in Int, held \in Int :
            /\ stock'[w].reserved = stock[w].reserved + held
            /\ stock'[w].available = stock[w].available + onHand - held
            /\ held > 0 => NoneExpired(stock'[w].available)
    BY <1>2, <2>1, NextMovesRows DEF RowMove, StockInv
  <2>3. stock[w].available \in Int /\ stock[w].reserved \in Int
    BY <1>2, RowFacts
  <2>4. ExpiredOn(batch[w]) \in Nat
    <3>1. /\ batch[w] \in Shelf
          /\ {b \in Batches : Expired(b)} \in SUBSET Batches
      BY <1>2, RowFacts DEF DoorTypeOK
    <3> QED
      BY <3>1, TotalNat DEF ExpiredOn
  <2> QED
    BY <1>2, <2>2, <2>3, <2>4 DEF NoneExpired
<1>3. StockInv /\ [Next]_vars =>
        [\A w \in Warehouses :
            stock'[w].reserved > stock[w].reserved
              => \/ stock'[w].available >= ExpiredOn(batch[w])
                 \/ ExpiredOn(placing.shelf) < ExpiredOn(batch[w])]_vars
  BY <1>2
<1> QED
  BY <1>1, <1>3, PTL DEF Spec, FreshIsSold
---------------------------------------------------------------------------
(* What a call takes from the batches *)

Least(m, n) == IF m <= n THEN m ELSE n

LEMMA TotalSplit ==
    ASSUME NEW shelf \in Shelf, NEW some \in SUBSET Batches
    PROVE  Total(shelf, Batches) = Total(shelf, some) + Total(shelf, Batches \ some)
<1>1. \A b \in Batches : shelf[b] \in Int
  BY DEF Shelf
<1>2. IsFiniteSet(Batches)
  BY StockConstants
<1>3. SumFunctionOnSet(shelf, Batches)
        = SumFunctionOnSet(shelf, some) + SumFunctionOnSet(shelf, Batches \ some)
  BY <1>1, <1>2, SumSplit
<1> QED
  BY <1>3 DEF Total

\* A batch gives something only when those before it have given all they have.
LEMMA EarliestFirst ==
    ASSUME NEW shelf \in Shelf, NEW q \in Nat, NEW from \in SUBSET Batches,
           NEW b \in Batches, NEW e \in Batches, e < b,
           ConsumeBatches(shelf, q, from)[b] < shelf[b]
    PROVE  b \in from /\ (e \in from => ConsumeBatches(shelf, q, from)[e] = 0)
<1> DEFINE before == Total(shelf, Earlier(b, from))
           first == Total(shelf, Earlier(e, from))
<1>1. /\ shelf[b] \in Nat /\ shelf[e] \in Nat
      /\ before \in Nat /\ first \in Nat
  <2>1. Earlier(b, from) \in SUBSET Batches /\ Earlier(e, from) \in SUBSET Batches
    BY DEF Earlier
  <2> QED
    BY <2>1, TotalNat DEF Shelf
<1>2. Taken(shelf, q, from, b) \in Nat /\ Taken(shelf, q, from, b) > 0
  <2>1. Taken(shelf, q, from, b) \in Nat
    BY TakenBounds
  <2>2. ConsumeBatches(shelf, q, from)[b] = shelf[b] - Taken(shelf, q, from, b)
    BY DEF ConsumeBatches
  <2> QED
    BY <1>1, <2>1, <2>2
<1>3. b \in from
  BY <1>2 DEF Taken
<1>4. q > before
  <2> HIDE DEF before
  <2> QED
    BY <1>1, <1>2, <1>3 DEF Taken, Door!NonNeg, before
<1>5. ASSUME e \in from PROVE ConsumeBatches(shelf, q, from)[e] = 0
  <2> DEFINE S == Earlier(b, from)
             R == Earlier(e, from) \cup {e}
  <2>1. /\ IsFiniteSet(S) /\ \A x \in S : shelf[x] \in Int
        /\ IsFiniteSet(R) /\ \A y \in R : shelf[y] \in Int
    <3>1. S \in SUBSET Batches /\ R \in SUBSET Batches
      BY DEF Earlier
    <3>2. IsFiniteSet(S) /\ IsFiniteSet(R)
      <4> HIDE DEF S, R
      <4> QED
        BY <3>1, StockConstants, FS_Subset
    <3>3. \A x \in Batches : shelf[x] \in Int
      BY DEF Shelf
    <3> HIDE DEF S, R
    <3> QED
      BY <3>1, <3>2, <3>3
  <2>2. S \cap R = R /\ S \ R \in SUBSET Batches /\ R \ {e} = Earlier(e, from) /\ e \in R
    <3>1. \A x \in Earlier(e, from) : x \in Nat /\ x \in from /\ x < e
      BY StockConstants DEF Earlier
    <3>2. e \in Nat /\ b \in Nat
      BY StockConstants
    <3>3. Earlier(e, from) \subseteq S /\ e \in S /\ e \notin Earlier(e, from)
      <4>1. \A x \in Earlier(e, from) : x < b
        BY <3>1, <3>2
      <4>2. Earlier(e, from) \subseteq S
        BY <3>1, <4>1 DEF Earlier
      <4>3. e \in S
        BY <1>5 DEF Earlier
      <4>4. ~(e < e)
        BY <3>2
      <4>5. e \notin Earlier(e, from)
        BY <4>4 DEF Earlier
      <4> QED
        BY <4>2, <4>3, <4>5
    <3> QED
      BY <3>3 DEF Earlier
  <2>3. before = Total(shelf, R) + Total(shelf, S \ R)
    <3> HIDE DEF R
    <3> QED
      BY <2>1, <2>2, SumSplit DEF Total
  <2>4. Total(shelf, R) = shelf[e] + first
    <3> HIDE DEF S
    <3> QED
      BY <2>1, <2>2, SumRemove DEF Total
  <2>5. Total(shelf, S \ R) \in Nat
    BY <2>2, TotalNat
  <2>6. q - first >= shelf[e]
    <3> HIDE DEF before, first, S, R
    <3> QED
      BY <1>1, <1>4, <2>3, <2>4, <2>5
  <2>7. Taken(shelf, q, from, e) = shelf[e]
    <3> HIDE DEF first
    <3> QED
      BY <1>1, <1>5, <2>6 DEF Taken, Door!NonNeg, first
  <2> QED
    BY <1>1, <2>7 DEF ConsumeBatches
<1> QED
  BY <1>3, <1>5

\* What a set of batches gives together: what is asked, or all they have.
LEMMA TakenTotal ==
    ASSUME NEW shelf \in Shelf, NEW q \in Nat, NEW from \in SUBSET Batches
    PROVE  SumFunctionOnSet([b \in Batches |-> Taken(shelf, q, from, b)], from)
             = Least(q, Total(shelf, from))
<1> DEFINE take(T) == [b \in Batches |-> Taken(shelf, q, T, b)]
           sum(T) == SumFunctionOnSet(take(T), T)
           Good == {T \in SUBSET from : sum(T) = Least(q, Total(shelf, T))}
<1>1. \A T \in SUBSET from : IsFiniteSet(T) /\ T \in SUBSET Int /\ T \in SUBSET Batches
  <2> TAKE T \in SUBSET from
  <2>1. T \in SUBSET Batches
    OBVIOUS
  <2>2. IsFiniteSet(T)
    BY <2>1, StockConstants, FS_Subset
  <2>3. \A x \in T : x \in Int
    BY <2>1, StockConstants
  <2> QED
    BY <2>1, <2>2, <2>3
<1>2. ASSUME NEW T \in SUBSET from, \A U \in SUBSET T : U # T => U \in Good
      PROVE  T \in Good
  <2>1. CASE T = {}
    <3>1. sum(T) = 0 /\ Total(shelf, T) = 0
      BY <1>1, <2>1, SumTypes DEF Total
    <3> QED
      BY <2>1, <3>1 DEF Least
  <2>2. CASE T # {}
    <3>1. PICK m \in T : \A x \in T : x <= m
      BY <1>1, <2>2, GreatestExists
    <3> DEFINE U == T \ {m}
    <3>2. U \in SUBSET T /\ U # T /\ U \in SUBSET from /\ m \in Batches
      OBVIOUS
    <3>3. sum(U) = Least(q, Total(shelf, U))
      BY <1>2, <3>2
    <3>4. \A b \in U : Earlier(b, T) = Earlier(b, U)
      <4>1. \A b \in U : b <= m /\ b \in Int /\ m \in Int
        BY <1>1, <3>1
      <4>2. \A b \in U : ~(m < b)
        BY <4>1
      <4> QED
        BY <4>2 DEF Earlier
    <3>5. Earlier(m, T) = U
      <4>1. \A x \in T : x <= m /\ x \in Int /\ m \in Int
        BY <1>1, <3>1
      <4>2. \A x \in T : (x < m) <=> (x # m)
        BY <4>1
      <4> QED
        BY <4>2 DEF Earlier
    <3>6. \A b \in U : take(T)[b] = take(U)[b]
      BY <1>1, <3>2, <3>4 DEF Taken
    <3>7. SumFunctionOnSet(take(T), U) = sum(U)
      <4>1. IsFiniteSet(U)
        BY <1>1, <3>2
      <4> HIDE DEF take, U
      <4> QED
        BY <3>6, <4>1, SumSame
    <3>8. sum(T) = take(T)[m] + SumFunctionOnSet(take(T), U)
      <4>1. \A x \in T : take(T)[x] \in Int
        BY <1>1, TakenBounds
      <4>2. IsFiniteSet(T)
        BY <1>1
      <4> HIDE DEF take
      <4> QED
        BY <4>1, <4>2, SumRemove
    <3>9. Total(shelf, T) = shelf[m] + Total(shelf, U)
      <4>1. \A x \in T : shelf[x] \in Int
        BY <1>1 DEF Shelf
      <4> QED
        BY <1>1, <4>1, SumRemove DEF Total
    <3>10. shelf[m] \in Nat /\ Total(shelf, U) \in Nat
      BY <1>1, <3>2, TotalNat DEF Shelf
    <3>11. take(T)[m] = LET left == Door!NonNeg(q - Total(shelf, U))
                        IN  IF left < shelf[m] THEN left ELSE shelf[m]
      BY <3>2, <3>5 DEF Taken
    <3>12. sum(T) = Least(q, Total(shelf, T))
      <4> HIDE DEF take, sum, U
      <4> QED
        BY <3>3, <3>7, <3>8, <3>9, <3>10, <3>11 DEF Least, Door!NonNeg
    <3> QED
      BY <3>12
  <2> QED
    BY <2>1, <2>2
<1>3. SUBSET from \subseteq Good
  <2>1. IsFiniteSet(from)
    BY <1>1
  <2> HIDE DEF Good
  <2> QED
    BY <1>2, <2>1, SubsetsInSet
<1>4. from \in Good
  BY <1>3
<1> QED
  BY <1>4

\* What is left of all batches.
LEMMA ConsumeTotal ==
    ASSUME NEW shelf \in Shelf, NEW q \in Nat, NEW from \in SUBSET Batches
    PROVE  Total(ConsumeBatches(shelf, q, from), Batches)
             = Total(shelf, Batches) - Least(q, Total(shelf, from))
<1> DEFINE take == [b \in Batches |-> Taken(shelf, q, from, b)]
           rest == ConsumeBatches(shelf, q, from)
<1>1. IsFiniteSet(Batches) /\ IsFiniteSet(Batches \ from)
  BY StockConstants, FS_Subset
<1>2. \A b \in Batches : /\ take[b] \in Nat /\ rest[b] \in Nat /\ shelf[b] \in Nat
                         /\ shelf[b] = rest[b] + take[b]
  <2> TAKE b \in Batches
  <2>1. take[b] \in Nat /\ take[b] <= shelf[b]
    BY TakenBounds
  <2>2. shelf[b] \in Nat
    BY DEF Shelf
  <2>3. rest[b] = shelf[b] - take[b]
    BY DEF ConsumeBatches
  <2> HIDE DEF take, rest
  <2> QED
    BY <2>1, <2>2, <2>3
<1>3. \A b \in Batches \ from : take[b] = 0
  BY DEF Taken
<1> HIDE DEF take, rest
<1>4. SumFunctionOnSet(shelf, Batches)
        = SumFunctionOnSet(rest, Batches) + SumFunctionOnSet(take, Batches)
  BY <1>1, <1>2, SumPlus
<1>5. SumFunctionOnSet(take, Batches)
        = SumFunctionOnSet(take, from) + SumFunctionOnSet(take, Batches \ from)
  <2>1. \A b \in Batches : take[b] \in Int
    BY <1>2
  <2> QED
    BY <1>1, <2>1, SumSplit
<1>6. SumFunctionOnSet(take, Batches \ from) = 0
  BY <1>1, <1>3, SumTypes
<1>7. SumFunctionOnSet(take, from) = Least(q, Total(shelf, from))
  BY TakenTotal DEF take
<1>8. /\ SumFunctionOnSet(rest, Batches) \in Nat
      /\ SumFunctionOnSet(shelf, Batches) \in Nat
      /\ Total(shelf, from) \in Nat
  BY <1>1, <1>2, SumTypes, TotalNat
<1>9. Least(q, Total(shelf, from)) \in Nat
  BY <1>8 DEF Least
<1>10. SumFunctionOnSet(rest, Batches)
         = SumFunctionOnSet(shelf, Batches) - Least(q, Total(shelf, from))
  BY <1>4, <1>5, <1>6, <1>7, <1>8, <1>9
<1> QED
  BY <1>10 DEF Total, rest

---------------------------------------------------------------------------
(* What a step does to the batches of one warehouse *)

\* Goods come in, with a batch or without one; nothing at all is a quantity of 0.
ShelfGets(w) == \E q \in Nat, b \in Batches \cup {NoBatch} :
    /\ batch'[w] = WithBatch(batch[w], b, q)
    /\ stock'[w].current = stock[w].current + q

\* Goods go out of fresh batches, or of all.
ShelfGives(w) == \E q \in Nat, from \in {Batches, Fresh} :
    /\ batch'[w] = ConsumeBatches(batch[w], q, from)
    /\ stock'[w].current = stock[w].current - q

\* The shelf is set, and the batches are trimmed by a total that is out of date
\* only for a count.
ShelfIsSet(w) == \E q \in Nat, total \in Nat :
    /\ batch'[w] = Trimmed(batch[w], q, total)
    /\ stock'[w].current = q
    /\ total = OnShelf(w) \/ StaleCount(w)

ShelfMove(w) == ShelfGets(w) \/ ShelfGives(w) \/ ShelfIsSet(w)

LEMMA ShelfStays ==
    ASSUME DoorTypeOK, NEW w \in Warehouses, batch'[w] = batch[w],
           stock'[w].current = stock[w].current
    PROVE  ShelfMove(w)
<1>1. stock[w].current \in Int
  BY DEF DoorTypeOK, Door!Rows, Door!Row
<1>2. stock'[w].current = stock[w].current + 0 /\ 0 \in Nat
  BY <1>1
<1>3. batch'[w] = WithBatch(batch[w], NoBatch, 0)
  BY StockConstants DEF WithBatch
<1> QED
  BY <1>2, <1>3 DEF ShelfMove, ShelfGets

LEMMA HoldShelves ==
    ASSUME DoorTypeOK, NEW v \in Warehouses, NEW held \in Int, Hold(v, held)
    PROVE  \A w \in Warehouses : ShelfMove(w)
<1> TAKE w \in Warehouses
<1>1. stock[v] \in Door!Row /\ stock[v].current \in Int
  BY DEF DoorTypeOK, Door!Rows, Door!Row
<1>2. Door!ShiftRow(stock[v], 0, held).current = stock[v].current + 0
  <2>1. 0 \in Int
    OBVIOUS
  <2> QED
    BY <1>1, <2>1, RowShifted
<1>3. stock'[w].current = stock[w].current
  BY <1>1, <1>2, HoldEffect
<1>4. batch'[w] = batch[w]
  BY DEF Hold
<1> QED
  BY <1>3, <1>4, ShelfStays

LEMMA LeaveShelves ==
    ASSUME DoorTypeOK, NEW v \in Warehouses, NEW q \in Nat, NEW released \in Nat,
           NEW from \in {Batches, Fresh}, Leave(v, q, released, from)
    PROVE  \A w \in Warehouses : ShelfMove(w)
<1> TAKE w \in Warehouses
<1>1. from \in SUBSET Batches
  BY FreshSubset
<1>2. CASE w = v
  <2>1. stock[v] \in Door!Row /\ stock[v].current \in Int
    BY DEF DoorTypeOK, Door!Rows, Door!Row
  <2>2. PICK m \in Int, n \in Int : m = -q /\ n = -released
    OBVIOUS
  <2>3. Door!ShiftRow(stock[v], m, n).current = stock[v].current + m
    BY <2>1, RowShifted
  <2>4. stock'[w].current = stock[w].current - q
    BY <1>1, <1>2, <2>1, <2>2, <2>3, LeaveEffect
  <2>5. batch'[w] = ConsumeBatches(batch[w], q, from)
    BY <1>2 DEF Leave, DoorTypeOK
  <2> QED
    BY <2>4, <2>5 DEF ShelfMove, ShelfGives
<1>3. CASE w # v
  BY <1>3, ShelfStays DEF Leave, DoorTypeOK, Door!Rows
<1> QED
  BY <1>2, <1>3

LEMMA EnterShelves ==
    ASSUME DoorTypeOK, NEW v \in Warehouses, NEW q \in Nat, NEW b \in Batches \cup {NoBatch},
           Enter(v, q, b)
    PROVE  \A w \in Warehouses : ShelfMove(w)
<1> TAKE w \in Warehouses
<1>1. CASE w = v
  <2>1. stock[v] \in Door!Row /\ 0 \in Int /\ q \in Int
    BY DEF DoorTypeOK, Door!Rows
  <2>2. Door!ShiftRow(stock[v], q, 0).current = stock[v].current + q
    BY <2>1, RowShifted
  <2>3. stock'[w].current = stock[w].current + q
    BY <1>1, <2>2, EnterEffect
  <2>4. batch'[w] = WithBatch(batch[w], b, q)
    BY <1>1 DEF Enter, DoorTypeOK
  <2> QED
    BY <2>3, <2>4 DEF ShelfMove, ShelfGets
<1>2. CASE w # v
  BY <1>2, ShelfStays DEF Enter, DoorTypeOK, Door!Rows
<1> QED
  BY <1>1, <1>2

LEMMA SetStockShelves ==
    ASSUME DoorTypeOK, NEW v \in Warehouses, NEW q \in Nat, NEW total \in Nat,
           SetStock(v, q, total), total = OnShelf(v) \/ StaleCount(v)
    PROVE  \A w \in Warehouses : ShelfMove(w)
<1> TAKE w \in Warehouses
<1>1. CASE w = v
  <2>1. stock'[w].current = q
    <3>1. stock'[w] = RowSetTo(stock[w], q)
      BY <1>1, SetStockEffect
    <3> QED
      BY <3>1 DEF RowSetTo
  <2>2. batch'[w] = Trimmed(batch[w], q, total)
    BY <1>1 DEF SetStock, DoorTypeOK
  <2> QED
    BY <1>1, <2>1, <2>2 DEF ShelfMove, ShelfIsSet
<1>2. CASE w # v
  BY <1>2, ShelfStays DEF SetStock, DoorTypeOK, Door!Rows
<1> QED
  BY <1>1, <1>2

LEMMA TransferShelves ==
    ASSUME DoorTypeOK, NEW v \in Warehouses, NEW u \in Warehouses, NEW q \in Nat,
           Transfer(v, u, q)
    PROVE  \A w \in Warehouses : ShelfMove(w)
<1> TAKE w \in Warehouses
<1>1. /\ v # u
      /\ \A x \in Warehouses \ {v, u} : stock'[x] = stock[x]
      /\ stock'[v] = Door!ShiftRow(stock[v], -q, 0)
      /\ stock'[u] = Door!ShiftRow(stock[u], q, 0)
  BY TransferEffect
<1>2. /\ batch'[v] = ConsumeBatches(batch[v], q, Fresh)
      /\ \A x \in Warehouses \ {v} : batch'[x] = batch[x]
  BY DEF Transfer, DoorTypeOK
<1>3. /\ stock[v] \in Door!Row /\ stock[v].current \in Int
      /\ stock[u] \in Door!Row /\ 0 \in Int /\ q \in Int
  BY DEF DoorTypeOK, Door!Rows, Door!Row
<1>4. PICK m \in Int : m = -q
  OBVIOUS
<1>5. CASE w = v
  <2>1. Door!ShiftRow(stock[v], m, 0).current = stock[v].current + m
    BY <1>3, RowShifted
  <2>2. stock'[w].current = stock[w].current - q
    BY <1>1, <1>3, <1>4, <1>5, <2>1
  <2> QED
    BY <1>2, <1>5, <2>2 DEF ShelfMove, ShelfGives
<1>6. CASE w = u
  <2>1. stock'[w].current = stock[w].current + q
    BY <1>1, <1>3, <1>6, RowShifted
  <2>2. batch'[w] = WithBatch(batch[w], NoBatch, q)
    BY <1>1, <1>2, <1>6, StockConstants DEF WithBatch
  <2> QED
    BY <2>1, <2>2 DEF ShelfMove, ShelfGets
<1>7. CASE w \notin {v, u}
  BY <1>1, <1>2, <1>7, ShelfStays
<1> QED
  BY <1>5, <1>6, <1>7

LEMMA OrderShelves ==
    ASSUME DoorTypeOK, RestTypeOK, OrderStep
    PROVE  \A w \in Warehouses : ShelfMove(w)
<1>1. ASSUME stockVars' = stockVars PROVE \A w \in Warehouses : ShelfMove(w)
  BY <1>1, ShelfStays DEF stockVars
<1>2. CASE \/ \E v \in Sites : PlaceBegin(v)
           \/ PlaceAbort
  BY <1>1, <1>2 DEF PlaceBegin, PlaceAbort, stockVars
<1>3. ASSUME NEW o \in Orders, NEW q \in Quantity, PlaceCommit(o, q)
      PROVE  \A w \in Warehouses : ShelfMove(w)
  <2>1. placing.wh \in Warehouses /\ q \in Int /\ Hold(placing.wh, q)
    BY <1>3, QuantityNat DEF PlaceCommit, RestTypeOK
  <2> QED
    BY <2>1, HoldShelves
<1>4. ASSUME NEW o \in Orders, NEW q \in Quantity, Restock(o, q)
      PROVE  \A w \in Warehouses : ShelfMove(w)
  <2>1. Main \in Warehouses /\ q \in Nat /\ Enter(Main, q, NoBatch)
    BY <1>4, QuantityNat, StockConstants DEF Restock
  <2> QED
    BY <2>1, EnterShelves
<1>5. ASSUME NEW o \in Orders, CancelOrder(o)
      PROVE  \A w \in Warehouses : ShelfMove(w)
  <2>1. order[o].wh \in Warehouses /\ order[o].qty \in Nat
    BY DEF RestTypeOK, OrderRow
  <2>2. PICK m \in Int : m = -order[o].qty
    BY <2>1
  <2>3. Hold(order[o].wh, m)
    BY <1>5, <2>2 DEF CancelOrder
  <2> QED
    BY <2>1, <2>3, HoldShelves
<1>6. ASSUME NEW o \in Orders, NEW d \in 0 .. MaxQty, Ship(o, d)
      PROVE  \A w \in Warehouses : ShelfMove(w)
  <2>1. /\ order[o].wh \in Warehouses /\ order[o].qty \in Nat /\ d \in Nat
        /\ Leave(order[o].wh, d, order[o].qty, Fresh)
    BY <1>6, QuantityNat DEF Ship, RestTypeOK, OrderRow
  <2> QED
    BY <2>1, LeaveShelves
<1> QED
  BY <1>2, <1>3, <1>4, <1>5, <1>6 DEF OrderStep

LEMMA ArrivalShelves ==
    ASSUME DoorTypeOK, RestTypeOK, ArrivalStep
    PROVE  \A w \in Warehouses : ShelfMove(w)
<1>1. ASSUME stockVars' = stockVars PROVE \A w \in Warehouses : ShelfMove(w)
  BY <1>1, ShelfStays DEF stockVars
<1>2. ASSUME NEW a \in Arrivals, NEW v \in Sites, PostArrival(a, v)
      PROVE  \A w \in Warehouses : ShelfMove(w)
  <2>1. /\ v \in Warehouses /\ arrival[a].qty \in Nat
        /\ arrival[a].batch \in Batches \cup {NoBatch}
        /\ Enter(v, arrival[a].qty, arrival[a].batch)
    BY <1>2, StockConstants DEF PostArrival, RestTypeOK, ArrivalRow
  <2> QED
    BY <2>1, EnterShelves
<1> QED
  BY <1>1, <1>2 DEF ArrivalStep, DraftArrival, DeleteCheck, DeleteWrite, stockVars

LEMMA OfficeShelves ==
    ASSUME DoorTypeOK, OfficeStep
    PROVE  \A w \in Warehouses : ShelfMove(w)
<1>1. ASSUME NEW v \in Sites, NEW q \in Quantity, AdjustIn(v, q)
      PROVE  \A w \in Warehouses : ShelfMove(w)
  <2>1. v \in Warehouses /\ q \in Nat /\ Enter(v, q, NoBatch)
    BY <1>1, StockConstants, QuantityNat DEF AdjustIn
  <2> QED
    BY <2>1, EnterShelves
<1>2. ASSUME NEW v \in Sites, NEW q \in Quantity, AdjustOut(v, q)
      PROVE  \A w \in Warehouses : ShelfMove(w)
  <2>1. v \in Warehouses /\ q \in Nat /\ Leave(v, q, 0, Batches)
    BY <1>2, StockConstants, QuantityNat DEF AdjustOut
  <2> QED
    BY <2>1, LeaveShelves
<1>3. ASSUME NEW v \in Sites, NEW q \in Quantity, AdjustTo(v, q)
      PROVE  \A w \in Warehouses : ShelfMove(w)
  <2>1. v \in Warehouses /\ q \in Nat /\ SetStock(v, q, OnShelf(v))
    BY <1>3, StockConstants, QuantityNat DEF AdjustTo
  <2> QED
    BY <2>1, OnShelfNat, SetStockShelves
<1>4. ASSUME NEW q \in 0 .. MaxQty, OneC(q)
      PROVE  \A w \in Warehouses : ShelfMove(w)
  <2>1. Main \in Warehouses /\ q \in Nat /\ SetStock(Main, q, OnShelf(Main))
    BY <1>4, StockConstants, QuantityNat DEF OneC
  <2> QED
    BY <2>1, OnShelfNat, SetStockShelves
<1>5. ASSUME NEW v \in Warehouses, NEW u \in Warehouses, NEW q \in Quantity, Transfer(v, u, q)
      PROVE  \A w \in Warehouses : ShelfMove(w)
  BY <1>5, QuantityNat, TransferShelves
<1> QED
  BY <1>1, <1>2, <1>3, <1>4, <1>5 DEF OfficeStep

LEMMA CountShelves ==
    ASSUME DoorTypeOK, RestTypeOK, CountStep
    PROVE  \A w \in Warehouses : ShelfMove(w)
<1>1. ASSUME stockVars' = stockVars PROVE \A w \in Warehouses : ShelfMove(w)
  BY <1>1, ShelfStays DEF stockVars
<1>2. ASSUME NEW c \in Counts, ApplyCommit(c)
      PROVE  \A w \in Warehouses : ShelfMove(w)
  <2>1. CASE Difference(c) = 0
    BY <1>1, <1>2, <2>1 DEF ApplyCommit
  <2>2. CASE Difference(c) # 0
    <3>1. /\ count[c].wh \in Warehouses /\ applying[c] # None
          /\ applying[c].counted \in Nat /\ applying[c].total \in Nat
      BY <1>2 DEF ApplyCommit, RestTypeOK, CountRow
    <3>2. SetStock(count[c].wh, applying[c].counted, applying[c].total)
      BY <1>2, <2>2 DEF ApplyCommit
    <3>3. applying[c].total = OnShelf(count[c].wh) \/ StaleCount(count[c].wh)
      BY <3>1 DEF StaleCount
    <3> QED
      BY <3>1, <3>2, <3>3, SetStockShelves
  <2> QED
    BY <2>1, <2>2
<1> QED
  BY <1>1, <1>2 DEF CountStep, CreateCount, CheckDraft, SetCounted, CancelCount, ApplyBegin,
                    ApplyAbort, stockVars

LEMMA SupplyShelves ==
    ASSUME DoorTypeOK, RestTypeOK, SupplyStep
    PROVE  \A w \in Warehouses : ShelfMove(w)
<1>1. ASSUME stockVars' = stockVars PROVE \A w \in Warehouses : ShelfMove(w)
  BY <1>1, ShelfStays DEF stockVars
<1>2. ASSUME NEW k \in Keys, NEW q \in Quantity, NEW worth \in 1 .. (Owed + 1),
             GiveCommit(k, q, worth)
      PROVE  \A w \in Warehouses : ShelfMove(w)
  <2>1. giving.wh \in Warehouses /\ q \in Nat /\ Leave(giving.wh, q, 0, Batches)
    BY <1>2, QuantityNat DEF GiveCommit, RestTypeOK
  <2> QED
    BY <2>1, LeaveShelves
<1> QED
  BY <1>1, <1>2 DEF SupplyStep, Pay, GiveBegin, GiveAbort, stockVars

LEMMA NextShelves ==
    ASSUME StockInv, [Next]_vars
    PROVE  \A w \in Warehouses : ShelfMove(w)
<1>0. DoorTypeOK /\ RestTypeOK
  BY DEF StockInv, StockTypeOK, DoorTypeOK, RestTypeOK
<1>1. CASE Midnight \/ UNCHANGED vars
  BY <1>0, <1>1, ShelfStays DEF Midnight, vars, stockVars
<1> QED
  BY <1>0, <1>1, OrderShelves, ArrivalShelves, OfficeShelves, CountShelves, SupplyShelves
     DEF Next

---------------------------------------------------------------------------
(* Batches *)

LEMMA WithBatchTotal ==
    ASSUME NEW shelf \in Shelf, NEW q \in Nat, NEW b \in Batches \cup {NoBatch}
    PROVE  /\ Total(WithBatch(shelf, b, q), Batches) <= Total(shelf, Batches) + q
           /\ \A e \in Batches : ~(WithBatch(shelf, b, q)[e] < shelf[e])
<1>1. \A e \in Batches : shelf[e] \in Nat
  BY DEF Shelf
<1>2. Total(shelf, Batches) \in Nat
  BY TotalNat
<1>3. CASE b \notin Batches
  BY <1>1, <1>2, <1>3 DEF WithBatch
<1>4. CASE b \in Batches
  <2> DEFINE rest == WithBatch(shelf, b, q)
  <2>1. /\ rest[b] = shelf[b] + q
        /\ \A e \in Batches \ {b} : rest[e] = shelf[e]
        /\ \A e \in Batches : rest[e] \in Int /\ shelf[e] \in Int
    BY <1>1, <1>4 DEF WithBatch, Shelf
  <2>2. SumFunctionOnSet(rest, Batches)
          = SumFunctionOnSet(shelf, Batches) + (rest[b] - shelf[b])
    <3> HIDE DEF rest
    <3> QED
      BY <1>4, <2>1, StockConstants, SumChange
  <2>3. \A e \in Batches : ~(rest[e] < shelf[e])
    <3> HIDE DEF rest
    <3> QED
      BY <1>1, <2>1
  <2>4. SumFunctionOnSet(rest, Batches) = SumFunctionOnSet(shelf, Batches) + q
    <3> HIDE DEF rest
    <3> QED
      BY <1>1, <1>4, <2>1, <2>2
  <2> QED
    BY <1>2, <2>3, <2>4 DEF Total
<1> QED
  BY <1>3, <1>4

\* Of what has not expired nothing is passed over, and expired goods are passed
\* over only for goods that have not.
THEOREM FirstExpiredAlwaysFirst == Spec => FirstExpiredFirst
<1>1. Spec => []StockInv
  BY InitStockInv, NextStockInv, PTL DEF Spec
<1>2. ASSUME StockInv, [Next]_vars, NEW w \in Warehouses, NEW b \in Batches,
             batch'[w][b] < batch[w][b], NEW e \in Earlier(b, Batches)
      PROVE  batch'[w][e] = 0 \/ (Expired(e) /\ ~Expired(b))
  <2>1. batch[w] \in Shelf /\ e \in Batches /\ e < b
    BY <1>2 DEF StockInv, StockTypeOK, Earlier
  <2>2. ASSUME NEW q \in Nat, NEW from \in {Batches, Fresh},
               batch'[w] = ConsumeBatches(batch[w], q, from)
        PROVE  batch'[w][e] = 0 \/ (Expired(e) /\ ~Expired(b))
    <3>1. from \in SUBSET Batches
      BY FreshSubset
    <3>2. b \in from /\ (e \in from => batch'[w][e] = 0)
      BY <1>2, <2>1, <2>2, <3>1, EarliestFirst
    <3>3. CASE e \in from
      BY <3>2, <3>3
    <3>4. CASE e \notin from
      <4>1. from = Fresh
        BY <2>1, <3>4
      <4> QED
        BY <2>1, <3>2, <3>4, <4>1 DEF Fresh
    <3> QED
      BY <3>3, <3>4
  <2>3. CASE ShelfGets(w)
    BY <1>2, <2>1, <2>3, WithBatchTotal DEF ShelfGets
  <2>4. CASE ShelfGives(w)
    BY <2>2, <2>4 DEF ShelfGives
  <2>5. CASE ShelfIsSet(w)
    <3>1. PICK q \in Nat, total \in Nat : batch'[w] = Trimmed(batch[w], q, total)
      BY <2>5 DEF ShelfIsSet
    <3>2. CASE total > q
      <4>1. total - q \in Nat /\ batch'[w] = ConsumeBatches(batch[w], total - q, Batches)
        BY <3>1, <3>2 DEF Trimmed
      <4> QED
        BY <2>2, <4>1
    <3>3. CASE ~(total > q)
      <4>1. batch'[w] = batch[w] /\ batch[w][b] \in Nat
        BY <2>1, <3>1, <3>3 DEF Trimmed, Shelf
      <4> QED
        BY <1>2, <4>1
    <3> QED
      BY <3>2, <3>3
  <2> QED
    BY <1>2, <2>3, <2>4, <2>5, NextShelves DEF ShelfMove
<1>3. StockInv /\ [Next]_vars =>
        [\A w \in Warehouses, b \in Batches :
            batch'[w][b] < batch[w][b]
              => \A e \in Earlier(b, Batches) :
                    batch'[w][e] = 0 \/ (Expired(e) /\ ~Expired(b))]_vars
  BY <1>2
<1> QED
  BY <1>1, <1>3, PTL DEF Spec, FirstExpiredFirst

\* Batches come to exceed the shelf only past expired ones, or by a count that
\* has read a total that has changed.
THEOREM BatchesAlwaysFollow == Spec => BatchesFollowShelf
<1>1. Spec => []StockInv
  BY InitStockInv, NextStockInv, PTL DEF Spec
<1>2. ASSUME StockInv, [Next]_vars, NEW w \in Warehouses
      PROVE  LET after == Total(batch'[w], Batches) - stock'[w].current
             IN  after > 0 /\ after > OnShelf(w) - stock[w].current
                   => \/ Total(batch'[w], Batches) = 0
                      \/ ExpiredOn(batch[w]) > 0
                      \/ StaleCount(w)
  <2> DEFINE before == Total(batch[w], Batches)
             left == Total(batch'[w], Batches)
  <2>1. batch[w] \in Shelf
    BY <1>2 DEF StockInv, StockTypeOK
  <2>2. before \in Nat /\ stock[w].current \in Int /\ before = OnShelf(w)
    BY <1>2, <2>1, TotalNat, RowFacts DEF OnShelf
  <2>3. CASE ShelfGets(w)
    <3>1. PICK q \in Nat, b \in Batches \cup {NoBatch} :
              /\ batch'[w] = WithBatch(batch[w], b, q)
              /\ stock'[w].current = stock[w].current + q
      BY <2>3 DEF ShelfGets
    <3>2. left <= before + q
      BY <2>1, <3>1, WithBatchTotal
    <3>3. left \in Nat
      BY <2>1, <3>1, WithBatchType, TotalNat
    <3> HIDE DEF left, before
    <3>4. ~(left - stock'[w].current > before - stock[w].current)
      BY <2>2, <3>1, <3>2, <3>3
    <3> QED
      BY <2>2, <3>4 DEF left
  <2>4. CASE ShelfGives(w)
    <3>1. PICK q \in Nat, from \in {Batches, Fresh} :
              /\ batch'[w] = ConsumeBatches(batch[w], q, from)
              /\ stock'[w].current = stock[w].current - q
      BY <2>4 DEF ShelfGives
    <3>2. from \in SUBSET Batches
      BY FreshSubset
    <3>3. left = before - Least(q, Total(batch[w], from))
      BY <2>1, <3>1, <3>2, ConsumeTotal
    <3>4. ExpiredOn(batch[w]) > 0 \/ Total(batch[w], from) = before
      <4>1. CASE from = Batches
        BY <4>1
      <4>2. CASE from = Fresh
        <5> DEFINE old == {b \in Batches : Expired(b)}
        <5>1. Batches \ Fresh = old
          BY DEF Fresh
        <5>2. old \in SUBSET Batches /\ Fresh \in SUBSET Batches
          BY DEF Fresh
        <5>3. Total(batch[w], old) \in Nat /\ Total(batch[w], Fresh) \in Nat
          BY <2>1, <5>2, TotalNat
        <5>4. before = Total(batch[w], Fresh) + Total(batch[w], Batches \ Fresh)
          BY <2>1, <5>2, TotalSplit
        <5>5. ExpiredOn(batch[w]) = Total(batch[w], old)
          BY DEF ExpiredOn
        <5> HIDE DEF old, before
        <5> QED
          BY <4>2, <5>1, <5>3, <5>4, <5>5
      <4> QED
        BY <4>1, <4>2
    <3> HIDE DEF left, before
    <3>5. Total(batch[w], from) = before =>
             left = 0 \/ left - stock'[w].current = before - stock[w].current
      BY <2>2, <3>1, <3>3 DEF Least
    <3>6. left = 0 \/ ExpiredOn(batch[w]) > 0
            \/ ~(left - stock'[w].current > before - stock[w].current)
      BY <2>2, <3>4, <3>5
    <3> QED
      BY <2>2, <3>6 DEF left
  <2>5. CASE ShelfIsSet(w)
    <3>1. PICK q \in Nat, total \in Nat :
              /\ batch'[w] = Trimmed(batch[w], q, total)
              /\ stock'[w].current = q
              /\ total = before \/ StaleCount(w)
      BY <2>2, <2>5 DEF ShelfIsSet
    <3>2. CASE StaleCount(w)
      BY <3>2
    <3>3. CASE total = before /\ total > q
      <4>1. total - q \in Nat /\ batch'[w] = ConsumeBatches(batch[w], total - q, Batches)
        BY <3>1, <3>3 DEF Trimmed
      <4>2. left = before - Least(total - q, before)
        BY <2>1, <4>1, ConsumeTotal
      <4> HIDE DEF left, before
      <4>3. left = q
        BY <2>2, <3>3, <4>2 DEF Least
      <4>4. ~(left - stock'[w].current > 0)
        BY <3>1, <4>3
      <4> QED
        BY <4>4 DEF left
    <3>4. CASE total = before /\ ~(total > q)
      <4>1. left = before
        BY <3>1, <3>4 DEF Trimmed
      <4> HIDE DEF left, before
      <4>2. ~(left - stock'[w].current > 0)
        BY <2>2, <3>1, <3>4, <4>1
      <4> QED
        BY <4>2 DEF left
    <3> QED
      BY <3>1, <3>2, <3>3, <3>4
  <2> QED
    BY <1>2, <2>3, <2>4, <2>5, NextShelves DEF ShelfMove
<1>3. StockInv /\ [Next]_vars =>
        [\A w \in Warehouses :
            LET after == Total(batch'[w], Batches) - stock'[w].current
            IN  after > 0 /\ after > OnShelf(w) - stock[w].current
                  => \/ Total(batch'[w], Batches) = 0
                     \/ ExpiredOn(batch[w]) > 0
                     \/ StaleCount(w)]_vars
  BY <1>2
<1> QED
  BY <1>1, <1>3, PTL DEF Spec, BatchesFollowShelf
=============================================================================
