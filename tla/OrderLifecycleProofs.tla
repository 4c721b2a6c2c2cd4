------------------------ MODULE OrderLifecycleProofs ------------------------
(***************************************************************************)
(* Proofs about OrderLifecycle, for every set of orders, shops, products,  *)
(* calls and returns.  LifecycleInv is inductive, and the invariants of an *)
(* order follow from it.  The goods add up (reserve, shelf, free stock,    *)
(* returns) in the scenarios that CourierSafe and ReturnsSafe describe: in *)
(* the others the code lets two handlers move the same goods twice.        *)
(***************************************************************************)
EXTENDS OrderLifecycle, SumProofs, TLAPS

---------------------------------------------------------------------------
(* The door to the stock *)

StockOK(rows) == rows \in Rows /\ \A p \in Products : RowConsistent(rows[p])

\* shiftStock writes well-formed rows, whatever it adds to them.
LEMMA ShiftStockOK ==
    ASSUME NEW rows \in Rows,
           NEW onHand \in [Products -> Int], NEW held \in [Products -> Int]
    PROVE  StockOK(ShiftStock(rows, onHand, held))
<1>1. ASSUME NEW p \in Products
      PROVE  /\ ShiftRow(rows[p], onHand[p], held[p]) \in Row
             /\ RowConsistent(ShiftRow(rows[p], onHand[p], held[p]))
  BY DEF Rows, Row, ShiftRow, RowConsistent, NonNeg
<1> QED
  BY <1>1 DEF StockOK, ShiftStock, Rows

LEMMA TimesType ==
    ASSUME NEW d \in Int, NEW items \in [Products -> Int]
    PROVE  Times(d, items) \in [Products -> Int]
BY DEF Times

\* So do the named operations of the door.
LEMMA DoorOK ==
    ASSUME NEW rows \in Rows, NEW a \in Items, NEW b \in Items
    PROVE  /\ StockOK(ReserveStock(rows, a))
           /\ StockOK(ReleaseStock(rows, a))
           /\ StockOK(ShipStock(rows, a, b))
           /\ StockOK(ReceiveStock(rows, a))
<1>1. /\ a \in [Products -> Int] /\ b \in [Products -> Int]
      /\ NoItems \in [Products -> Int]
  BY DEF Items, NoItems
<1>2. /\ Times(-1, a) \in [Products -> Int]
      /\ Times(-1, b) \in [Products -> Int]
  BY <1>1, TimesType
<1> QED
  BY <1>1, <1>2, ShiftStockOK
     DEF ReserveStock, ReleaseStock, ShipStock, ReceiveStock

LEMMA EffectOK ==
    ASSUME NEW rows \in Rows, NEW a \in Items, NEW from, NEW to
    PROVE  StockOK(ApplyStockEffect(rows, a, StatusShift(from, to)))
<1> DEFINE shift == StatusShift(from, to)
<1>1. shift.onHand \in Int /\ shift.held \in Int
  BY DEF StatusShift, StockEffect
<1>2. a \in [Products -> Int]
  BY DEF Items
<1> QED
  BY <1>1, <1>2, TimesType, ShiftStockOK DEF ApplyStockEffect

LEMMA HeldQuantityType ==
    ASSUME NEW ord \in Order, NEW gone \in Items
    PROVE  HeldQuantity(ord, gone) \in Items
BY DEF Order, Items, HeldQuantity, Shipped, NonNeg, Null

---------------------------------------------------------------------------
(* Types and rows *)

TypeInv == TypeOK /\ RowsConsistent

LEMMA InitTypeInv == Init => TypeInv
<1> SUFFICES ASSUME Init PROVE TypeInv
  OBVIOUS
<1> USE ConstantsOK
<1>1. NoItems \in Items
  BY DEF NoItems, Items
<1>2. NoOrder \in Order
  BY <1>1 DEF NoOrder, Order, OpenStatuses, ClosedStatuses, Deliveries
<1>3. EmptyRows \in Rows
  BY DEF EmptyRows, Rows, Row
<1>4. NoTx \in Tx
  BY <1>1, <1>3 DEF NoTx, Tx
<1>5. (CHOOSE o \in Orders : TRUE) \in Orders
  OBVIOUS
<1>6. StockOK(stock)
  BY DEF Init, StockOK, Rows, Row, RowConsistent
<1> QED
  BY <1>1, <1>2, <1>4, <1>5, <1>6
     DEF Init, TypeInv, TypeOK, RowsConsistent, StockOK, Request, Return

\* One lemma per group of actions: the rows are written through the door, the
\* rest is a well-typed update of one record.
LEMMA OfficeTypeInv ==
    ASSUME TypeInv, NEW o \in Orders, OfficeNext(o)
    PROVE  TypeInv'
<1> USE ConstantsOK DEF TypeInv, TypeOK, RowsConsistent, StockOK
<1>a. order[o] \in Order /\ tx[o] \in Tx /\ back[o] \in Items
  OBVIOUS
<1>b. NoTx \in Tx /\ NoOrder \in Order
  BY DEF NoTx, Tx, NoOrder, Order, NoItems, Items, EmptyRows, Rows, Row,
         OpenStatuses, ClosedStatuses, Deliveries
<1>c. HeldQuantity(order[o], back[o]) \in Items
  BY <1>a, HeldQuantityType
<1>1. ASSUME NEW items \in SomeItems, NEW status \in {"new", "pending"},
             Create(o, items, status)
      PROVE  TypeInv'
  <2>1. items \in Items
    BY DEF SomeItems, Items
  <2>2. StockOK(stock')
    BY <1>1, <2>1, DoorOK DEF Create
  <2>3. [NoOrder EXCEPT !.status = status, !.qty = items] \in Order
    BY <1>b, <2>1 DEF Order, OpenStatuses
  <2> QED
    BY <1>1, <2>2, <2>3 DEF Create
<1>2. ASSUME Cancel(o) PROVE TypeInv'
  <2>1. StockOK(stock')
    BY <1>2, <1>c, DoorOK DEF Cancel
  <2>2. [order[o] EXCEPT !.status = "cancelled"] \in Order
    BY <1>a DEF Order, ClosedStatuses
  <2> QED
    BY <1>2, <2>1, <2>2 DEF Cancel
<1>3. ASSUME NEW to \in Statuses, StatusBegin(o, to) PROVE TypeInv'
  <2>1. [NoTx EXCEPT !.kind = "status", !.to = to, !.gone = back[o]] \in Tx
    BY <1>a, <1>b DEF Tx
  <2> QED
    BY <1>3, <2>1 DEF StatusBegin
<1>4. ASSUME StatusCommit(o) PROVE TypeInv'
  <2>1. HeldQuantity(order[o], tx[o].gone) \in Items
    BY <1>a, HeldQuantityType DEF Tx
  <2>2. StockOK(stock')
    BY <1>4, <2>1, EffectOK DEF StatusCommit
  <2>3. AfterStatus(order[o], tx[o].to) \in Order
    <3>1. tx[o].to \in {"none"} \cup OpenStatuses \cup ClosedStatuses
      BY <1>a DEF Tx
    <3>2. [p \in Products |-> Null] \in [Products -> Nat \cup {Null}]
      OBVIOUS
    <3> QED
      BY <1>a, <3>1, <3>2 DEF AfterStatus, Order, Deliveries
  <2> QED
    BY <1>4, <1>b, <2>2, <2>3 DEF StatusCommit
<1>5. ASSUME DeleteOrder(o) PROVE TypeInv'
  <2>1. StockOK(stock')
    BY <1>5, <1>c, DoorOK DEF DeleteOrder
  <2>2. [order[o] EXCEPT !.deleted = TRUE] \in Order
    BY <1>a DEF Order
  <2> QED
    BY <1>5, <2>1, <2>2 DEF DeleteOrder
<1>6. ASSUME Restore(o) PROVE TypeInv'
  <2>1. StockOK(stock')
    BY <1>6, <1>c, DoorOK DEF Restore
  <2>2. [order[o] EXCEPT !.deleted = FALSE] \in Order
    BY <1>a DEF Order
  <2> QED
    BY <1>6, <2>1, <2>2 DEF Restore
<1>7. ASSUME NEW goal \in SomeItems, EditBegin(o, goal) PROVE TypeInv'
  <2>1. goal \in Items
    BY DEF SomeItems, Items
  <2>2. [NoTx EXCEPT !.kind = "edit", !.goal = goal, !.seen = stock] \in Tx
    BY <1>b, <2>1 DEF Tx
  <2> QED
    BY <1>7, <2>2 DEF EditBegin
<1>8. ASSUME EditCommit(o) PROVE TypeInv'
  <2> DEFINE delta == [p \in Products |-> tx[o].goal[p] - order[o].qty[p]]
             effect == StockEffect(order[o].status)
  <2>1. delta \in [Products -> Int]
    BY <1>a DEF Tx, Order, Items
  <2>2. effect.current \in Int /\ effect.reserved \in Int
    BY DEF StockEffect
  <2>3. /\ Times(effect.current, delta) \in [Products -> Int]
        /\ Times(effect.reserved, delta) \in [Products -> Int]
    BY <2>1, <2>2, TimesType
  <2>4. StockOK(stock')
    BY <1>8, <2>3, ShiftStockOK DEF EditCommit
  <2>5. [order[o] EXCEPT !.qty = tx[o].goal] \in Order
    BY <1>a DEF Order, Tx
  <2> QED
    BY <1>8, <1>b, <2>4, <2>5 DEF EditCommit
<1>9. ASSUME AbortTx(o) PROVE TypeInv'
  BY <1>9, <1>b DEF AbortTx
<1>10. ASSUME NEW d \in [Products -> 0..MaxQty], PartialDelivery(o, d)
       PROVE  TypeInv'
  <2>1. d \in Items /\ order[o].qty \in Items
    BY <1>a DEF Items, Order
  <2>2. StockOK(stock')
    BY <1>10, <2>1, DoorOK DEF PartialDelivery
  <2>3. [order[o] EXCEPT !.status = "delivered", !.delivery = "delivered",
           !.delivered = [p \in Products |-> IF p \in Lines(o) THEN d[p] ELSE Null]]
             \in Order
    BY <1>a, <2>1 DEF Order, Items, ClosedStatuses, Deliveries
  <2> QED
    BY <1>10, <2>2, <2>3 DEF PartialDelivery
<1> QED
  BY <1>1, <1>2, <1>3, <1>4, <1>5, <1>6, <1>7, <1>8, <1>9, <1>10 DEF OfficeNext

\* The updates the courier's handlers make of an order keep its type.
LEMMA OrderUpdates ==
    ASSUME NEW ord \in Order, NEW status \in {"new"} \cup ClosedStatuses,
           NEW delivery \in Deliveries, NEW c \in Couriers \cup {NoCourier},
           NEW lines \in [Products -> Nat \cup {Null}]
    PROVE  /\ [ord EXCEPT !.delivery = delivery] \in Order
           /\ [ord EXCEPT !.courier = c, !.delivery = delivery] \in Order
           /\ [ord EXCEPT !.status = status, !.delivery = delivery] \in Order
           /\ [ord EXCEPT !.status = status, !.delivery = delivery,
                          !.courier = c] \in Order
           /\ [ord EXCEPT !.status = status, !.delivery = delivery,
                          !.delivered = lines] \in Order
BY DEF Order, OpenStatuses

LEMMA CourierTypeInv ==
    ASSUME TypeInv, CourierNext
    PROVE  TypeInv'
<1> USE ConstantsOK DEF TypeInv, TypeOK, RowsConsistent, StockOK
<1>a. ASSUME NEW o \in Orders
      PROVE  order[o] \in Order /\ order[o].qty \in Items
  BY DEF Order
<1>b. ASSUME NEW q \in Requests
      PROVE  /\ req[q] \in Request /\ req[q].order \in Orders
             /\ req[q].courier \in Couriers \cup {NoCourier}
             /\ [req[q] EXCEPT !.op = "idle"] \in Request
  BY DEF Request
<1>c. ASSUME NEW o \in Orders, NEW items \in Items
      PROVE  /\ StockOK(ShipStock(stock, order[o].qty, items))
             /\ StockOK(ReleaseStock(stock, order[o].qty))
  BY <1>a, DoorOK
<1>d. /\ {"assigned", "out_for_delivery", "delivered", "failed"} \subseteq Deliveries
      /\ {"delivered", "returned"} \subseteq ClosedStatuses
      /\ [p \in Products |-> Null] \in [Products -> Nat \cup {Null}]
  BY DEF Deliveries, ClosedStatuses
<1>1. ASSUME NEW o \in Orders, NEW c \in Couriers, BulkAssign(o, c)
      PROVE  TypeInv'
  <2>1. [order[o] EXCEPT !.courier = c, !.delivery = "assigned"] \in Order
    BY <1>a, <1>d, OrderUpdates
  <2> QED
    BY <1>1, <2>1 DEF BulkAssign
<1>2. ASSUME NEW o \in Orders, NEW c \in Couriers, MarkFailed(o, c)
      PROVE  TypeInv'
  <2>1. [order[o] EXCEPT !.status = "new", !.delivery = "failed",
                         !.courier = NoCourier] \in Order
    BY <1>a, <1>d, OrderUpdates
  <2> QED
    BY <1>2, <2>1 DEF MarkFailed
<1>3. ASSUME NEW q \in Requests, NEW o \in Orders, NEW c \in Couriers,
             NEW op \in {"assign", "out", "deliver", "complete"},
             Check(q, op, o, c)
      PROVE  TypeInv'
  BY <1>3 DEF Check, Request
<1>4. ASSUME NEW q \in Requests, AssignCommit(q) PROVE TypeInv'
  <2>1. [order[req[q].order] EXCEPT !.courier = req[q].courier,
                                    !.delivery = "assigned"] \in Order
    BY <1>a, <1>b, <1>d, OrderUpdates
  <2> QED
    BY <1>4, <1>b, <2>1 DEF AssignCommit, Done
<1>5. ASSUME NEW q \in Requests, OutCommit(q) PROVE TypeInv'
  <2>1. [order[req[q].order] EXCEPT !.delivery = "out_for_delivery"] \in Order
    BY <1>a, <1>b, <1>d, OrderUpdates
  <2> QED
    BY <1>5, <1>b, <2>1 DEF OutCommit, Done
<1>6. ASSUME NEW q \in Requests, DeliverCommit(q) PROVE TypeInv'
  <2>1. [order[req[q].order] EXCEPT !.status = "delivered",
                                    !.delivery = "delivered"] \in Order
    BY <1>a, <1>b, <1>d, OrderUpdates
  <2> QED
    BY <1>6, <1>a, <1>b, <1>c, <2>1 DEF DeliverCommit, Done
<1>7. ASSUME NEW q \in Requests, CompleteWhole(q) PROVE TypeInv'
  <2>1. [order[req[q].order] EXCEPT !.status = "delivered",
                                    !.delivery = "delivered"] \in Order
    BY <1>a, <1>b, <1>d, OrderUpdates
  <2> QED
    BY <1>7, <1>a, <1>b, <1>c, <2>1 DEF CompleteWhole, Done
<1>8. ASSUME NEW q \in Requests, CompleteReturned(q) PROVE TypeInv'
  <2>1. NoItems \in Items
    BY DEF NoItems, Items
  <2>2. [order[req[q].order] EXCEPT !.status = "returned",
                                    !.delivery = "delivered"] \in Order
    BY <1>a, <1>b, <1>d, OrderUpdates
  <2> QED
    BY <1>8, <1>b, <1>c, <2>1, <2>2 DEF CompleteReturned, Done
<1>9. ASSUME NEW q \in Requests, NEW d \in [Products -> 0..MaxQty],
             CompletePartly(q, d)
      PROVE  TypeInv'
  <2> DEFINE o == req[q].order
             line(p) == IF p \in Lines(o) THEN d[p] ELSE Null
  <2>1. d \in Items
    BY DEF Items
  <2>2. StockOK(ShipStock(stock, order[o].qty, d))
    BY <1>b, <1>c, <2>1
  <2>3. [p \in Products |-> line(p)] \in [Products -> Nat \cup {Null}]
    BY <2>1 DEF Items
  <2>4. [order[o] EXCEPT !.status = "delivered", !.delivery = "delivered",
                         !.delivered = [p \in Products |-> line(p)]] \in Order
    BY <1>a, <1>b, <1>d, <2>3, OrderUpdates
  <2> QED
    BY <1>9, <1>b, <2>2, <2>4 DEF CompletePartly, Done
<1>10. ASSUME NEW q \in Requests, DropRequest(q) PROVE TypeInv'
  BY <1>10, <1>b DEF DropRequest, Done
<1> QED
  BY <1>1, <1>2, <1>3, <1>4, <1>5, <1>6, <1>7, <1>8, <1>9, <1>10 DEF CourierNext

LEMMA ReturnTypeInv ==
    ASSUME TypeInv, NEW r \in Returns, ReturnNext(r)
    PROVE  TypeInv'
<1> USE ConstantsOK DEF TypeInv, TypeOK, RowsConsistent, StockOK
<1>a. ret[r] \in Return /\ ret[r].order \in Orders /\ ret[r].qty \in Items
  BY DEF Return
<1>b. ASSUME NEW status \in {"none", "pending", "approved", "rejected",
                             "completing", "completed"}
      PROVE  [ret EXCEPT ![r].status = status] \in [Returns -> Return]
  BY <1>a DEF Return
<1>1. ASSUME NEW o \in Orders, NEW items \in SomeItems, ReturnCheck(r, o, items)
      PROVE  TypeInv'
  <2>1. items \in Items
    BY DEF SomeItems, Items
  <2>2. [status |-> "asked", order |-> o, qty |-> items] \in Return
    BY <2>1 DEF Return
  <2> QED
    BY <1>1, <2>2 DEF ReturnCheck
<1>2. ASSUME ReturnInsert(r) PROVE TypeInv'
  BY <1>2, <1>b DEF ReturnInsert
<1>3. ASSUME ReturnApprove(r) PROVE TypeInv'
  BY <1>3, <1>b DEF ReturnApprove
<1>4. ASSUME ReturnReject(r) PROVE TypeInv'
  BY <1>4, <1>b DEF ReturnReject
<1>5. ASSUME ReturnCompleteBegin(r) PROVE TypeInv'
  BY <1>5, <1>b DEF ReturnCompleteBegin
<1>6. ASSUME NEW d, ReturnCompleteCommit(r, d) PROVE TypeInv'
  <2>1. StockOK(ReceiveStock(stock, ret[r].qty))
    BY <1>a, DoorOK
  <2>2. [p \in Products |-> back[ret[r].order][p] + ret[r].qty[p]] \in Items
    BY <1>a DEF Items
  <2>3. [p \in Products |-> writtenOff[p] + ret[r].qty[p]] \in Items
    BY <1>a DEF Items
  <2> QED
    BY <1>6, <1>a, <1>b, <2>1, <2>2, <2>3 DEF ReturnCompleteCommit
<1>7. ASSUME ReturnAbort(r) PROVE TypeInv'
  BY <1>7, <1>a DEF ReturnAbort, Return
<1> QED
  BY <1>1, <1>2, <1>3, <1>4, <1>5, <1>6, <1>7 DEF ReturnNext

LEMMA NextTypeInv == TypeInv /\ [Next]_vars => TypeInv'
<1> SUFFICES ASSUME TypeInv, [Next]_vars PROVE TypeInv'
  OBVIOUS
<1>1. CASE Next
  BY <1>1, OfficeTypeInv, CourierTypeInv, ReturnTypeInv DEF Next
<1>2. CASE UNCHANGED vars
  BY <1>2 DEF vars, TypeInv, TypeOK, RowsConsistent
<1> QED
  BY <1>1, <1>2

\* Every reachable state is well typed, whatever orders, returns and calls
\* are in flight.
THEOREM SpecTypeOK == Spec => []TypeOK
<1>1. TypeInv => TypeOK
  BY DEF TypeInv
<1> QED
  BY InitTypeInv, NextTypeInv, <1>1, PTL DEF Spec

\* Every row of warehouse_stock stays consistent: available is the shelf less
\* the reserve, and the reserve is never negative.
THEOREM SpecRowsConsistent == Spec => []RowsConsistent
<1>1. TypeInv => RowsConsistent
  BY DEF TypeInv
<1> QED
  BY InitTypeInv, NextTypeInv, <1>1, PTL DEF Spec

---------------------------------------------------------------------------
(* What the locks keep still *)

OrderInv == /\ CountedStaysClosed /\ ReturnedStaysClosed
            /\ CompletingIsClosed /\ SnapshotHolds

LEMMA InitOrderInv == Init => OrderInv
BY ConstantsOK
   DEF Init, OrderInv, CountedStaysClosed, ReturnedStaysClosed,
       CompletingIsClosed, SnapshotHolds, NoOrder, NoTx

\* An action that writes one order outside any office transaction, and no
\* return, keeps the invariants if the order stays closed where it was, and is
\* closed wherever it has counted lines.
LEMMA OneOrderStep ==
    ASSUME TypeOK, OrderInv, NEW o \in Orders,
           \A x \in Orders \ {o} : order'[x] = order[x],
           Free(o), UNCHANGED <<tx, ret, back>>,
           order[o].status \in ClosedStatuses
               => order'[o].status \in ClosedStatuses,
           (\E p \in Products : order'[o].delivered[p] # Null)
               => order'[o].status \in ClosedStatuses
    PROVE  OrderInv'
<1> USE DEF TypeOK, OrderInv
<1>1. CountedStaysClosed'
  BY DEF CountedStaysClosed
<1>2. ReturnedStaysClosed'
  BY DEF ReturnedStaysClosed
<1>3. CompletingIsClosed'
  BY DEF CompletingIsClosed, Return
<1>4. SnapshotHolds'
  BY DEF SnapshotHolds, Free
<1> QED
  BY <1>1, <1>2, <1>3, <1>4

\* The end of a transaction, with nothing else written.
LEMMA EndTxStep ==
    ASSUME TypeOK, OrderInv, NEW o \in Orders, tx' = [tx EXCEPT ![o] = NoTx],
           UNCHANGED <<order, back, ret>>
    PROVE  OrderInv'
BY DEF TypeOK, OrderInv, CountedStaysClosed, ReturnedStaysClosed,
       CompletingIsClosed, SnapshotHolds, NoTx

LEMMA OfficeOrderInv ==
    ASSUME TypeInv, TypeInv', OrderInv, NEW o \in Orders, OfficeNext(o)
    PROVE  OrderInv'
<1> USE DEF TypeInv
<1>a. /\ order[o] \in Order /\ tx[o] \in Tx
      /\ order'[o] \in Order
  BY DEF TypeOK
<1>1. ASSUME NEW items \in SomeItems, NEW status \in {"new", "pending"},
             Create(o, items, status)
      PROVE  OrderInv'
  <2> DEFINE new == [NoOrder EXCEPT !.status = status, !.qty = items]
  <2>1. /\ \A x \in Orders : order'[x] = IF x = o THEN new ELSE order[x]
        /\ UNCHANGED <<tx, ret, back>>
        /\ order[o].status = "none"
    BY <1>1 DEF Create, TypeOK, Exists
  <2>2. /\ new.status \in OpenStatuses
        /\ \A p \in Products : new.delivered[p] = Null
    BY DEF NoOrder, OpenStatuses
  <2>3. CountedStaysClosed'
    BY <2>1, <2>2 DEF CountedStaysClosed, OrderInv
  <2>4. ReturnedStaysClosed'
    BY <2>1, <2>2 DEF ReturnedStaysClosed, OrderInv, ClosedStatuses
  <2>5. CompletingIsClosed'
    BY <2>1, <2>2 DEF CompletingIsClosed, OrderInv, ClosedStatuses, TypeOK, Return
  <2>6. SnapshotHolds'
    BY <2>1, <2>2
       DEF SnapshotHolds, OrderInv, IsReopen, HoldsStock, OpenStatuses
  <2> QED
    BY <2>3, <2>4, <2>5, <2>6 DEF OrderInv
<1>2. ASSUME Cancel(o) PROVE OrderInv'
  <2>1. order'[o].status = "cancelled" /\ order'[o].delivered = order[o].delivered
    BY <1>2 DEF Cancel, TypeOK, Order
  <2> QED
    BY <1>2, <1>a, <2>1, OneOrderStep DEF Cancel, TypeOK, ClosedStatuses
<1>3. ASSUME NEW to \in Statuses, StatusBegin(o, to) PROVE OrderInv'
  <2>1. \A x \in Orders : tx'[x] = IF x = o
            THEN [NoTx EXCEPT !.kind = "status", !.to = to, !.gone = back[o]]
            ELSE tx[x]
    BY <1>3 DEF StatusBegin, TypeOK
  <2>2. to # "none"
    BY ConstantsOK DEF OpenStatuses, ClosedStatuses
  <2>3. IsReopen(order[o].status, to) => back[o] = NoItems
    BY <1>3 DEF StatusBegin, Reopenable
  <2>4. UNCHANGED <<order, back>>
    BY <1>3 DEF StatusBegin
  <2>5. SnapshotHolds'
    BY <2>1, <2>2, <2>3, <2>4 DEF OrderInv, SnapshotHolds, NoTx
  <2> QED
    BY <1>3, <2>5 DEF StatusBegin, OrderInv, CountedStaysClosed,
                      ReturnedStaysClosed, CompletingIsClosed
<1>4. ASSUME StatusCommit(o) PROVE OrderInv'
  <2> DEFINE new == AfterStatus(order[o], tx[o].to)
  <2>1. /\ \A x \in Orders : order'[x] = IF x = o THEN new ELSE order[x]
        /\ \A x \in Orders : tx'[x] = IF x = o THEN NoTx ELSE tx[x]
        /\ UNCHANGED <<ret, back>>
    BY <1>4 DEF StatusCommit, TypeOK
  <2>2. /\ tx[o].to \in OpenStatuses \cup ClosedStatuses
        /\ IsReopen(order[o].status, tx[o].to) => back[o] = NoItems
    BY <1>4, <1>a DEF StatusCommit, OrderInv, SnapshotHolds, Tx
  <2>3. new.status = tx[o].to
    BY <1>a DEF AfterStatus, Order
  <2>4. (\E p \in Products : new.delivered[p] # Null)
            => new.status \in ClosedStatuses
    <3>1. CASE IsReopen(order[o].status, tx[o].to)
      <4>1. \A p \in Products : new.delivered[p] = Null
        BY <1>a, <3>1 DEF AfterStatus, Order
      <4> QED
        BY <4>1
    <3>2. CASE ~IsReopen(order[o].status, tx[o].to)
      <4>1. new.delivered = order[o].delivered
        BY <1>a, <3>2 DEF AfterStatus, Order
      <4> QED
        BY <2>2, <2>3, <3>2, <4>1
           DEF OrderInv, CountedStaysClosed, IsReopen, HoldsStock,
               OpenStatuses, ClosedStatuses
    <3> QED
      BY <3>1, <3>2
  <2>5. CountedStaysClosed'
    BY <2>1, <2>4 DEF OrderInv, CountedStaysClosed
  <2>6. back[o] # NoItems => new.status \in ClosedStatuses
    BY <2>2, <2>3 DEF OrderInv, ReturnedStaysClosed, IsReopen, HoldsStock,
                      OpenStatuses, ClosedStatuses
  <2>7. ReturnedStaysClosed'
    BY <2>1, <2>6 DEF OrderInv, ReturnedStaysClosed
  <2>8. \A r \in Returns : ret[r].status = "completing" => ret[r].order # o
    BY <1>4 DEF StatusCommit, CanSettle
  <2>9. CompletingIsClosed'
    BY <2>1, <2>8 DEF OrderInv, CompletingIsClosed, TypeOK, Return
  <2>10. SnapshotHolds'
    BY <2>1 DEF OrderInv, SnapshotHolds, NoTx
  <2> QED
    BY <2>5, <2>7, <2>9, <2>10 DEF OrderInv
<1>5. ASSUME DeleteOrder(o) PROVE OrderInv'
  <2>1. /\ order'[o].status = order[o].status
        /\ order'[o].delivered = order[o].delivered
    BY <1>5, <1>a DEF DeleteOrder, TypeOK, Order
  <2> QED
    BY <1>5, <1>a, <2>1, OneOrderStep
       DEF DeleteOrder, TypeOK, OrderInv, CountedStaysClosed
<1>6. ASSUME Restore(o) PROVE OrderInv'
  <2>1. /\ order'[o].status = order[o].status
        /\ order'[o].delivered = order[o].delivered
    BY <1>6, <1>a DEF Restore, TypeOK, Order
  <2> QED
    BY <1>6, <1>a, <2>1, OneOrderStep
       DEF Restore, TypeOK, OrderInv, CountedStaysClosed
<1>7. ASSUME NEW goal \in SomeItems, EditBegin(o, goal) PROVE OrderInv'
  BY <1>7 DEF EditBegin, TypeOK, OrderInv, CountedStaysClosed,
              ReturnedStaysClosed, CompletingIsClosed, SnapshotHolds, NoTx
<1>8. ASSUME EditCommit(o) PROVE OrderInv'
  <2> DEFINE new == [order[o] EXCEPT !.qty = tx[o].goal]
  <2>1. /\ \A x \in Orders : order'[x] = IF x = o THEN new ELSE order[x]
        /\ \A x \in Orders : tx'[x] = IF x = o THEN NoTx ELSE tx[x]
        /\ UNCHANGED <<ret, back>>
    BY <1>8 DEF EditCommit, TypeOK
  <2>2. new.status = order[o].status /\ new.delivered = order[o].delivered
    BY <1>a DEF Order
  <2>3. \A x \in Orders : /\ order'[x].status = order[x].status
                           /\ order'[x].delivered = order[x].delivered
    BY <2>1, <2>2
  <2>4. CountedStaysClosed' /\ ReturnedStaysClosed'
    BY <2>1, <2>3 DEF OrderInv, CountedStaysClosed, ReturnedStaysClosed
  <2>5. CompletingIsClosed'
    BY <2>1, <2>3 DEF OrderInv, CompletingIsClosed, TypeOK, Return
  <2>6. SnapshotHolds'
    BY <2>1, <2>3 DEF OrderInv, SnapshotHolds, NoTx
  <2> QED
    BY <2>4, <2>5, <2>6 DEF OrderInv
<1>9. ASSUME AbortTx(o) PROVE OrderInv'
  BY <1>9, EndTxStep DEF AbortTx
<1>10. ASSUME NEW d \in [Products -> 0..MaxQty], PartialDelivery(o, d)
       PROVE  OrderInv'
  <2>1. order'[o].status = "delivered"
    BY <1>10, <1>a DEF PartialDelivery, TypeOK, Order
  <2> QED
    BY <1>10, <1>a, <2>1, OneOrderStep DEF PartialDelivery, TypeOK, ClosedStatuses
<1> QED
  BY <1>1, <1>2, <1>3, <1>4, <1>5, <1>6, <1>7, <1>8, <1>9, <1>10,
     ConstantsOK DEF OfficeNext

LEMMA CourierOrderInv ==
    ASSUME TypeInv, TypeInv', OrderInv, CourierNext
    PROVE  OrderInv'
<1> USE DEF TypeInv
<1>a. ASSUME NEW o \in Orders PROVE order[o] \in Order /\ order'[o] \in Order
  BY DEF TypeOK
<1>b. ASSUME NEW q \in Requests PROVE req[q].order \in Orders
  BY DEF TypeOK, Request
<1>c. ASSUME NEW o \in Orders
      PROVE  (\E p \in Products : order[o].delivered[p] # Null)
                 => order[o].status \in ClosedStatuses
  BY DEF OrderInv, CountedStaysClosed
<1>1. ASSUME NEW o \in Orders, NEW c \in Couriers, BulkAssign(o, c)
      PROVE  OrderInv'
  <2>1. /\ order'[o].status = order[o].status
        /\ order'[o].delivered = order[o].delivered
        /\ \A x \in Orders \ {o} : order'[x] = order[x]
    BY <1>1, <1>a DEF BulkAssign, TypeOK, Order
  <2>2. Free(o) /\ UNCHANGED <<tx, ret, back>>
    BY <1>1 DEF BulkAssign
  <2> QED
    BY <1>c, <2>1, <2>2, OneOrderStep
<1>2. ASSUME NEW o \in Orders, NEW c \in Couriers, MarkFailed(o, c)
      PROVE  OrderInv'
  <2>1. /\ order'[o].delivered = order[o].delivered
        /\ \A x \in Orders \ {o} : order'[x] = order[x]
    BY <1>2, <1>a DEF MarkFailed, TypeOK, Order
  <2>2. /\ Free(o) /\ UNCHANGED <<tx, ret, back>>
        /\ order[o].status \notin ClosedStatuses
    BY <1>2 DEF MarkFailed
  <2> QED
    BY <1>c, <2>1, <2>2, OneOrderStep
<1>3. ASSUME UNCHANGED <<order, tx, ret, back>>
      PROVE  OrderInv'
  BY <1>3 DEF OrderInv, CountedStaysClosed, ReturnedStaysClosed,
              CompletingIsClosed, SnapshotHolds
<1>4. ASSUME NEW q \in Requests, AssignCommit(q) \/ OutCommit(q) PROVE OrderInv'
  <2> DEFINE o == req[q].order
  <2>1. o \in Orders
    BY <1>b
  <2>2. /\ order'[o].status = order[o].status
        /\ order'[o].delivered = order[o].delivered
        /\ \A x \in Orders \ {o} : order'[x] = order[x]
    BY <1>4, <1>a, <2>1 DEF AssignCommit, OutCommit, TypeOK, Order
  <2>3. Free(o) /\ UNCHANGED <<tx, ret, back>>
    BY <1>4 DEF AssignCommit, OutCommit
  <2> QED
    BY <1>c, <2>1, <2>2, <2>3, OneOrderStep
\* The three ways to end a delivery leave the order closed.
<1>5. ASSUME NEW q \in Requests,
             \/ DeliverCommit(q) \/ CompleteWhole(q) \/ CompleteReturned(q)
             \/ \E d \in [Products -> 0..MaxQty] : CompletePartly(q, d)
      PROVE  OrderInv'
  <2> DEFINE o == req[q].order
  <2>1. o \in Orders
    BY <1>b
  <2>a. ASSUME DeliverCommit(q)
        PROVE  /\ order'[o].status \in ClosedStatuses
               /\ \A x \in Orders \ {o} : order'[x] = order[x]
    BY <2>a, <1>a, <2>1 DEF DeliverCommit, TypeOK, Order, ClosedStatuses
  <2>b. ASSUME CompleteWhole(q)
        PROVE  /\ order'[o].status \in ClosedStatuses
               /\ \A x \in Orders \ {o} : order'[x] = order[x]
    BY <2>b, <1>a, <2>1 DEF CompleteWhole, TypeOK, Order, ClosedStatuses
  <2>c. ASSUME CompleteReturned(q)
        PROVE  /\ order'[o].status \in ClosedStatuses
               /\ \A x \in Orders \ {o} : order'[x] = order[x]
    BY <2>c, <1>a, <2>1 DEF CompleteReturned, TypeOK, Order, ClosedStatuses
  <2>d. ASSUME NEW d, CompletePartly(q, d)
        PROVE  /\ order'[o].status \in ClosedStatuses
               /\ \A x \in Orders \ {o} : order'[x] = order[x]
    BY <2>d, <1>a, <2>1 DEF CompletePartly, TypeOK, Order, ClosedStatuses
  <2>2. /\ order'[o].status \in ClosedStatuses
        /\ \A x \in Orders \ {o} : order'[x] = order[x]
    BY <1>5, <2>a, <2>b, <2>c, <2>d
  <2>3. Free(o) /\ UNCHANGED <<tx, ret, back>>
    BY <1>5 DEF DeliverCommit, CompleteWhole, CompleteReturned, CompletePartly
  <2> QED
    BY <2>1, <2>2, <2>3, OneOrderStep
<1>6. ASSUME NEW q \in Requests, DropRequest(q) PROVE OrderInv'
  BY <1>3, <1>6 DEF DropRequest
<1>7. ASSUME NEW q, NEW o, NEW c, NEW op, Check(q, op, o, c) PROVE OrderInv'
  BY <1>3, <1>7 DEF Check
<1> QED
  BY <1>1, <1>2, <1>4, <1>5, <1>6, <1>7 DEF CourierNext

LEMMA ReturnOrderInv ==
    ASSUME TypeInv, TypeInv', OrderInv, NEW r \in Returns, ReturnNext(r)
    PROVE  OrderInv'
<1> USE DEF TypeInv
<1>a. ret[r].order \in Orders /\ ret[r].qty \in Items
  BY DEF TypeOK, Return
\* Only the two halves of a completion touch what the invariants speak of.
<1>1. ASSUME \A x \in Returns \ {r} : ret'[x] = ret[x],
             ret'[r].status # "completing", UNCHANGED <<order, tx, back>>
      PROVE  OrderInv'
  BY <1>1 DEF OrderInv, CountedStaysClosed, ReturnedStaysClosed,
              CompletingIsClosed, SnapshotHolds
<1>2. ASSUME \/ \E o \in Orders, items \in SomeItems : ReturnCheck(r, o, items)
             \/ ReturnInsert(r) \/ ReturnApprove(r) \/ ReturnReject(r)
             \/ ReturnAbort(r)
      PROVE  OrderInv'
  <2>1. UNCHANGED <<order, tx, back>>
    BY <1>2 DEF ReturnCheck, ReturnInsert, ReturnApprove, ReturnReject, ReturnAbort
  <2>2. \A x \in Returns \ {r} : ret'[x] = ret[x]
    BY <1>2 DEF ReturnCheck, ReturnInsert, ReturnApprove, ReturnReject,
                ReturnAbort, TypeOK
  <2>3. ret'[r].status # "completing"
    BY <1>2 DEF ReturnCheck, ReturnInsert, ReturnApprove, ReturnReject,
                ReturnAbort, TypeOK, Return
  <2> QED
    BY <1>1, <2>1, <2>2, <2>3
<1>3. ASSUME ReturnCompleteBegin(r) PROVE OrderInv'
  <2>1. \A x \in Returns \ {r} : ret'[x] = ret[x]
    BY <1>3 DEF ReturnCompleteBegin, TypeOK
  <2>2. ret'[r].order = ret[r].order
    BY <1>3 DEF ReturnCompleteBegin, TypeOK, Return
  <2> QED
    BY <1>3, <2>1, <2>2
       DEF ReturnCompleteBegin, OrderInv, CountedStaysClosed,
           ReturnedStaysClosed, CompletingIsClosed, SnapshotHolds, ClosedStatuses
<1>4. ASSUME NEW d, ReturnCompleteCommit(r, d) PROVE OrderInv'
  <2> DEFINE o == ret[r].order
  <2>1. /\ order[o].status \in ClosedStatuses
        /\ Free(o)
    BY <1>4, <1>a DEF ReturnCompleteCommit, OrderInv, CompletingIsClosed
  <2>2. /\ \A x \in Orders \ {o} : back'[x] = back[x]
        /\ UNCHANGED <<order, tx>>
    BY <1>4 DEF ReturnCompleteCommit, TypeOK
  <2>3. ReturnedStaysClosed'
    BY <2>1, <2>2 DEF OrderInv, ReturnedStaysClosed
  <2>4. SnapshotHolds'
    BY <2>1, <2>2 DEF OrderInv, SnapshotHolds, Free
  <2>5. \A x \in Returns : ret'[x].status = "completing" => ret'[x] = ret[x]
    BY <1>4 DEF ReturnCompleteCommit, TypeOK, Return
  <2>6. CompletingIsClosed'
    BY <2>2, <2>5 DEF OrderInv, CompletingIsClosed
  <2>7. CountedStaysClosed'
    BY <2>2 DEF OrderInv, CountedStaysClosed
  <2> QED
    BY <2>3, <2>4, <2>6, <2>7 DEF OrderInv
<1> QED
  BY <1>2, <1>3, <1>4 DEF ReturnNext

LEMMA NextLifecycleInv == LifecycleInv /\ [Next]_vars => LifecycleInv'
<1> SUFFICES ASSUME LifecycleInv, [Next]_vars PROVE LifecycleInv'
  OBVIOUS
<1>1. TypeInv /\ OrderInv /\ TypeInv'
  BY NextTypeInv DEF LifecycleInv, TypeInv, OrderInv
<1>2. CASE Next
  BY <1>1, <1>2, OfficeOrderInv, CourierOrderInv, ReturnOrderInv
     DEF Next, LifecycleInv, TypeInv, OrderInv
<1>3. CASE UNCHANGED vars
  BY <1>3 DEF vars, LifecycleInv, TypeOK, RowsConsistent, CountedStaysClosed,
              ReturnedStaysClosed, CompletingIsClosed, SnapshotHolds
<1> QED
  BY <1>2, <1>3

\* The inductive invariant itself: what updateStatus read in its snapshot
\* still holds when it commits, and completing returns sit on closed orders.
THEOREM SpecLifecycleInv == Spec => []LifecycleInv
<1>1. Init => LifecycleInv
  BY InitTypeInv, InitOrderInv DEF LifecycleInv, TypeInv, OrderInv
<1> QED
  BY <1>1, NextLifecycleInv, PTL DEF Spec

\* An order whose lines were counted on delivery is never open.
THEOREM SpecCountedStaysClosed == Spec => []CountedStaysClosed
<1>1. LifecycleInv => CountedStaysClosed
  BY DEF LifecycleInv
<1> QED
  BY SpecLifecycleInv, <1>1, PTL

\* An order with a completed return is never open.
THEOREM SpecReturnedStaysClosed == Spec => []ReturnedStaysClosed
<1>1. LifecycleInv => ReturnedStaysClosed
  BY DEF LifecycleInv
<1> QED
  BY SpecLifecycleInv, <1>1, PTL

---------------------------------------------------------------------------
(* What else every scenario keeps *)

\* No line is counted beyond its quantity.
CountsWithin == \A o \in Orders, p \in Products :
    order[o].delivered[p] # Null => order[o].delivered[p] <= order[o].qty[p]

\* A transaction holds a live order: an edit one whose lines are not counted,
\* a reopening one that was not delivered in part.
TxOrder == \A o \in Orders :
    /\ ~Free(o) => Live(o)
    /\ tx[o].kind = "edit" => \A p \in Products : order[o].delivered[p] = Null
    /\ tx[o].kind = "status" /\ IsReopen(order[o].status, tx[o].to)
           => ~PartlyDelivered(order[o])

CompletingIsDelivered == \A r \in Returns :
    ret[r].status = "completing" => order[ret[r].order].status = "delivered"

\* Nothing is written on an order before it is created.
Unborn == \A o \in Orders : Exists(o) \/ order[o] = NoOrder

\* A call in flight is one of the scenario's, about an order that exists.
CallsKnown == \A q \in Requests :
    req[q].op # "idle" => req[q].op \in Ops /\ Exists(req[q].order)

FactsInv == /\ CountsWithin /\ TxOrder /\ CompletingIsDelivered
            /\ Unborn /\ CallsKnown

---------------------------------------------------------------------------
(* The scenarios in which the goods add up *)

\* At most two calls are in flight.
TwoCalls == \A a, b, c \in Requests : a = b \/ b = c \/ a = c

\* Couriers end deliveries where nobody else closes or deletes orders behind
\* their back, or they end none.
CourierSafe ==
    \/ {"deliver", "complete"} \cap Ops = {}
    \/ /\ {"cancel", "status"} \cap Ops = {}
       /\ "deliver" \in Ops => "delete" \notin Ops
       /\ {"assign", "out"} \cap Ops # {} => "partial" \notin Ops /\ TwoCalls

\* Returns are made where what was delivered on an order does not change, and
\* one returns.create at a time is between its check and its INSERT; or there
\* are none.
ReturnsSafe ==
    \/ Returns = {}
    \/ /\ {"edit", "partial", "complete"} \cap Ops = {}
       /\ MaxChecked <= 1

\* Calls that end the delivery of o, and calls that put it on the way.
Ending(o)  == {q \in Requests : req[q].order = o /\ req[q].op \in {"deliver", "complete"}}
Leaving(o) == {q \in Requests : req[q].order = o /\ req[q].op \in {"assign", "out"}}

\* An order which a call in flight may still deliver is open, and not deleted
\* where the call does not look at that again.
CourierOK(o) ==
    /\ "deliver" \in Ops => ~order[o].deleted
    /\ order[o].status \in ClosedStatuses /\ Ending(o) # {} =>
           order[o].delivery \notin OnTheWay /\ Leaving(o) = {}

CourierInv == {"deliver", "complete"} \cap Ops # {} => \A o \in Orders : CourierOK(o)

\* The claim of return r on a line of order o, and what it has brought back.
Claim(r, o, p) == IF ret[r].order = o /\ ret[r].status \notin {"none", "rejected"}
                  THEN ret[r].qty[p] ELSE 0

Brought(r, o, p) == IF ret[r].order = o /\ ret[r].status = "completed"
                    THEN ret[r].qty[p] ELSE 0

ClaimSum(o, p)   == SumFunctionOnSet([r \in Returns |-> Claim(r, o, p)], Returns)
BroughtSum(o, p) == SumFunctionOnSet([r \in Returns |-> Brought(r, o, p)], Returns)

\* Nothing has come back but what returns brought, and returns claim no more
\* than was ordered and, once delivered, delivered.
ReturnInv == \A o \in Orders, p \in Products :
    /\ back[o][p] = BroughtSum(o, p)
    /\ Returns # {} => /\ order[o].delivered[p] = Null
                       /\ ClaimSum(o, p) <= order[o].qty[p]

---------------------------------------------------------------------------
(* What the handlers do to an order *)

\* The fields of order o after a step that writes no other order.
Becomes(o, status, delivery, courier, deleted, qty, delivered) ==
    /\ order'[o].status = status
    /\ order'[o].delivery = delivery
    /\ order'[o].courier = courier
    /\ order'[o].deleted = deleted
    /\ order'[o].qty = qty
    /\ order'[o].delivered = delivered
    /\ \A x \in Orders \ {o} : order'[x] = order[x]

NotCounted == [p \in Products |-> Null]

LEMMA OfficeEffects ==
    ASSUME TypeOK, NEW o \in Orders
    PROVE  /\ \A items, status : Create(o, items, status) =>
                  Becomes(o, status, "not_assigned", NoCourier, FALSE, items, NotCounted)
           /\ Cancel(o) =>
                  Becomes(o, "cancelled", order[o].delivery, order[o].courier,
                          order[o].deleted, order[o].qty, order[o].delivered)
           /\ StatusCommit(o) =>
                  Becomes(o, tx[o].to,
                     IF IsReopen(order[o].status, tx[o].to) THEN "not_assigned"
                     ELSE IF tx[o].to = "delivered" THEN "delivered" ELSE order[o].delivery,
                     IF IsReopen(order[o].status, tx[o].to) THEN NoCourier
                                                            ELSE order[o].courier,
                     order[o].deleted, order[o].qty,
                     IF IsReopen(order[o].status, tx[o].to) THEN NotCounted
                                                            ELSE order[o].delivered)
           /\ DeleteOrder(o) =>
                  Becomes(o, order[o].status, order[o].delivery, order[o].courier,
                          TRUE, order[o].qty, order[o].delivered)
           /\ Restore(o) =>
                  Becomes(o, order[o].status, order[o].delivery, order[o].courier,
                          FALSE, order[o].qty, order[o].delivered)
           /\ EditCommit(o) =>
                  Becomes(o, order[o].status, order[o].delivery, order[o].courier,
                          order[o].deleted, tx[o].goal, order[o].delivered)
           /\ \A d : PartialDelivery(o, d) =>
                  Becomes(o, "delivered", "delivered", order[o].courier, order[o].deleted,
                          order[o].qty,
                          [p \in Products |-> IF p \in Lines(o) THEN d[p] ELSE Null])
<1>a. order \in [Orders -> Order] /\ order[o] \in Order
  BY DEF TypeOK
<1>1. ASSUME NEW items, NEW status, Create(o, items, status)
      PROVE  Becomes(o, status, "not_assigned", NoCourier, FALSE, items, NotCounted)
  BY <1>1, <1>a DEF Create, Becomes, NoOrder, NotCounted
<1>2. ASSUME Cancel(o)
      PROVE  Becomes(o, "cancelled", order[o].delivery, order[o].courier,
                     order[o].deleted, order[o].qty, order[o].delivered)
  BY <1>2, <1>a DEF Cancel, Becomes, Order
<1>3. ASSUME StatusCommit(o)
      PROVE  Becomes(o, tx[o].to,
                     IF IsReopen(order[o].status, tx[o].to) THEN "not_assigned"
                     ELSE IF tx[o].to = "delivered" THEN "delivered" ELSE order[o].delivery,
                     IF IsReopen(order[o].status, tx[o].to) THEN NoCourier
                                                            ELSE order[o].courier,
                     order[o].deleted, order[o].qty,
                     IF IsReopen(order[o].status, tx[o].to) THEN NotCounted
                                                            ELSE order[o].delivered)
  <2>1. order' = [order EXCEPT ![o] = AfterStatus(order[o], tx[o].to)]
    BY <1>3 DEF StatusCommit
  <2> QED
    BY <2>1, <1>a DEF AfterStatus, Becomes, Order, NotCounted
<1>4. ASSUME DeleteOrder(o)
      PROVE  Becomes(o, order[o].status, order[o].delivery, order[o].courier,
                     TRUE, order[o].qty, order[o].delivered)
  BY <1>4, <1>a DEF DeleteOrder, Becomes, Order
<1>5. ASSUME Restore(o)
      PROVE  Becomes(o, order[o].status, order[o].delivery, order[o].courier,
                     FALSE, order[o].qty, order[o].delivered)
  BY <1>5, <1>a DEF Restore, Becomes, Order
<1>6. ASSUME EditCommit(o)
      PROVE  Becomes(o, order[o].status, order[o].delivery, order[o].courier,
                     order[o].deleted, tx[o].goal, order[o].delivered)
  BY <1>6, <1>a DEF EditCommit, Becomes, Order
<1>7. ASSUME NEW d, PartialDelivery(o, d)
      PROVE  Becomes(o, "delivered", "delivered", order[o].courier, order[o].deleted,
                     order[o].qty,
                     [p \in Products |-> IF p \in Lines(o) THEN d[p] ELSE Null])
  BY <1>7, <1>a DEF PartialDelivery, Becomes, Order
<1> QED
  BY <1>1, <1>2, <1>3, <1>4, <1>5, <1>6, <1>7

LEMMA CourierEffects ==
    ASSUME TypeOK, NEW o \in Orders
    PROVE  /\ \A c : BulkAssign(o, c) =>
                  Becomes(o, order[o].status, "assigned", c, order[o].deleted,
                          order[o].qty, order[o].delivered)
           /\ \A c : MarkFailed(o, c) =>
                  Becomes(o, "new", "failed", NoCourier, order[o].deleted,
                          order[o].qty, order[o].delivered)
           /\ \A q \in Requests : req[q].order = o =>
                /\ AssignCommit(q) =>
                     Becomes(o, order[o].status, "assigned", req[q].courier,
                             order[o].deleted, order[o].qty, order[o].delivered)
                /\ OutCommit(q) =>
                     Becomes(o, order[o].status, "out_for_delivery", order[o].courier,
                             order[o].deleted, order[o].qty, order[o].delivered)
                /\ DeliverCommit(q) \/ CompleteWhole(q) =>
                     Becomes(o, "delivered", "delivered", order[o].courier,
                             order[o].deleted, order[o].qty, order[o].delivered)
                /\ CompleteReturned(q) =>
                     Becomes(o, "returned", "delivered", order[o].courier,
                             order[o].deleted, order[o].qty, order[o].delivered)
                /\ \A d : CompletePartly(q, d) =>
                     Becomes(o, "delivered", "delivered", order[o].courier,
                             order[o].deleted, order[o].qty,
                             [p \in Products |-> IF p \in Lines(o) THEN d[p] ELSE Null])
<1>a. order \in [Orders -> Order] /\ order[o] \in Order
  BY DEF TypeOK
<1>1. ASSUME NEW c, BulkAssign(o, c)
      PROVE  Becomes(o, order[o].status, "assigned", c, order[o].deleted,
                     order[o].qty, order[o].delivered)
  BY <1>1, <1>a DEF BulkAssign, Becomes, Order
<1>2. ASSUME NEW c, MarkFailed(o, c)
      PROVE  Becomes(o, "new", "failed", NoCourier, order[o].deleted,
                     order[o].qty, order[o].delivered)
  BY <1>2, <1>a DEF MarkFailed, Becomes, Order
<1>3. ASSUME NEW q \in Requests, req[q].order = o, AssignCommit(q)
      PROVE  Becomes(o, order[o].status, "assigned", req[q].courier,
                     order[o].deleted, order[o].qty, order[o].delivered)
  BY <1>3, <1>a DEF AssignCommit, Becomes, Order
<1>4. ASSUME NEW q \in Requests, req[q].order = o, OutCommit(q)
      PROVE  Becomes(o, order[o].status, "out_for_delivery", order[o].courier,
                     order[o].deleted, order[o].qty, order[o].delivered)
  BY <1>4, <1>a DEF OutCommit, Becomes, Order
<1>5. ASSUME NEW q \in Requests, req[q].order = o, DeliverCommit(q) \/ CompleteWhole(q)
      PROVE  Becomes(o, "delivered", "delivered", order[o].courier,
                     order[o].deleted, order[o].qty, order[o].delivered)
  BY <1>5, <1>a DEF DeliverCommit, CompleteWhole, Becomes, Order
<1>6. ASSUME NEW q \in Requests, req[q].order = o, CompleteReturned(q)
      PROVE  Becomes(o, "returned", "delivered", order[o].courier,
                     order[o].deleted, order[o].qty, order[o].delivered)
  BY <1>6, <1>a DEF CompleteReturned, Becomes, Order
<1>7. ASSUME NEW q \in Requests, req[q].order = o, NEW d, CompletePartly(q, d)
      PROVE  Becomes(o, "delivered", "delivered", order[o].courier,
                     order[o].deleted, order[o].qty,
                     [p \in Products |-> IF p \in Lines(o) THEN d[p] ELSE Null])
  BY <1>7, <1>a DEF CompletePartly, Becomes, Order
<1> QED
  BY <1>1, <1>2, <1>3, <1>4, <1>5, <1>6, <1>7

---------------------------------------------------------------------------
(* What else every scenario keeps: the proofs *)

LEMMA InitFactsInv == Init => FactsInv
BY ConstantsOK
   DEF Init, FactsInv, CountsWithin, TxOrder, CompletingIsDelivered, Unborn,
       CallsKnown, NoOrder, NoTx, Free, Exists, Live

\* A step that writes one order which no transaction holds, and keeps it
\* delivered where a return of it is being completed.
LEMMA FreeStep ==
    ASSUME TypeOK, FactsInv, NEW o \in Orders, Free(o),
           \A x \in Orders \ {o} : order'[x] = order[x],
           order'[o].status # "none",
           UNCHANGED <<tx, ret>>,
           \A q \in Requests : req'[q] = req[q] \/ req'[q].op = "idle",
           \A p \in Products : order'[o].delivered[p] # Null
                                   => order'[o].delivered[p] <= order'[o].qty[p],
           order[o].status = "delivered" =>
               \/ order'[o].status = "delivered"
               \/ \A r \in Returns : ret[r].status = "completing" => ret[r].order # o
    PROVE  FactsInv'
<1> USE DEF FactsInv
<1>1. CountsWithin'
  BY DEF CountsWithin
<1>2. TxOrder'
  BY DEF TxOrder, Free, Live, Exists, PartlyDelivered
<1>3. CompletingIsDelivered'
  BY DEF CompletingIsDelivered, TypeOK, Return
<1>4. \A x \in Orders : Exists(x) => Exists(x)'
  BY DEF Exists
<1>5. Unborn'
  BY DEF Unborn, Exists
<1>6. CallsKnown'
  BY <1>4 DEF CallsKnown, TypeOK, Request
<1> QED
  BY <1>1, <1>2, <1>3, <1>5, <1>6

\* A step that begins or ends a transaction on o, or neither, and writes no
\* order.
LEMMA QuietStep ==
    ASSUME TypeOK, FactsInv, UNCHANGED <<order, ret, req>>, NEW o \in Orders,
           \A x \in Orders \ {o} : tx'[x] = tx[x],
           tx'[o].kind # "none" => Live(o),
           tx'[o].kind = "edit" => \A p \in Products : order[o].delivered[p] = Null,
           tx'[o].kind = "status" /\ IsReopen(order[o].status, tx'[o].to)
               => ~PartlyDelivered(order[o])
    PROVE  FactsInv'
<1> USE DEF FactsInv
<1>1. TxOrder'
  BY DEF TxOrder, Free, Live, Exists, PartlyDelivered
<1>2. CountsWithin' /\ CompletingIsDelivered' /\ Unborn' /\ CallsKnown'
  BY DEF CountsWithin, CompletingIsDelivered, Unborn, CallsKnown, Exists
<1> QED
  BY <1>1, <1>2

LEMMA OfficeFactsInv ==
    ASSUME TypeInv, TypeInv', OrderInv, FactsInv, NEW o \in Orders, OfficeNext(o)
    PROVE  FactsInv'
<1> USE DEF TypeInv
<1>a. /\ order[o] \in Order /\ tx[o] \in Tx
      /\ \A p \in Products : order[o].delivered[p] # Null
             => order[o].delivered[p] <= order[o].qty[p]
  BY DEF TypeOK, FactsInv, CountsWithin
<1>b. /\ ~Free(o) => Live(o)
      /\ Live(o) => Exists(o)
  BY DEF FactsInv, TxOrder, Live
<1>c. ASSUME CanSettle(o), NEW r \in Returns, ret[r].status = "completing"
      PROVE  ret[r].order # o
  BY <1>c DEF CanSettle
<1>1. ASSUME NEW items \in SomeItems, NEW status \in {"new", "pending"},
             Create(o, items, status)
      PROVE  FactsInv'
  <2>1. Becomes(o, status, "not_assigned", NoCourier, FALSE, items, NotCounted)
    BY <1>1, OfficeEffects
  <2>2. Free(o) /\ order[o].status = "none" /\ UNCHANGED <<tx, ret, req>>
    BY <1>1, <1>b DEF Create, Exists
  <2> QED
    BY <2>1, <2>2, FreeStep DEF Becomes, NotCounted
<1>2. ASSUME Cancel(o) PROVE FactsInv'
  <2>1. Becomes(o, "cancelled", order[o].delivery, order[o].courier,
                order[o].deleted, order[o].qty, order[o].delivered)
    BY <1>2, OfficeEffects
  <2>2. Free(o) /\ CanSettle(o) /\ UNCHANGED <<tx, ret, req>>
    BY <1>2 DEF Cancel
  <2> QED
    BY <1>a, <1>c, <2>1, <2>2, FreeStep DEF Becomes
<1>3. ASSUME NEW to \in Statuses, StatusBegin(o, to) PROVE FactsInv'
  <2>1. /\ \A x \in Orders \ {o} : tx'[x] = tx[x]
        /\ tx'[o].kind = "status" /\ tx'[o].to = to
    BY <1>3 DEF StatusBegin, TypeOK, NoTx
  <2>2. /\ Live(o) /\ UNCHANGED <<order, ret, req>>
        /\ IsReopen(order[o].status, to) => ~PartlyDelivered(order[o])
    BY <1>3 DEF StatusBegin, Reopenable
  <2> QED
    BY <2>1, <2>2, QuietStep
\* The transaction that ends held the row: nobody else was writing it.
<1>4. ASSUME StatusCommit(o) PROVE FactsInv'
  <2>1. Becomes(o, tx[o].to,
           IF IsReopen(order[o].status, tx[o].to) THEN "not_assigned"
           ELSE IF tx[o].to = "delivered" THEN "delivered" ELSE order[o].delivery,
           IF IsReopen(order[o].status, tx[o].to) THEN NoCourier ELSE order[o].courier,
           order[o].deleted, order[o].qty,
           IF IsReopen(order[o].status, tx[o].to) THEN NotCounted
                                                  ELSE order[o].delivered)
    BY <1>4, OfficeEffects
  <2>2. /\ \A x \in Orders \ {o} : tx'[x] = tx[x]
        /\ tx'[o].kind = "none"
        /\ tx[o].kind = "status" /\ CanSettle(o) /\ UNCHANGED <<ret, req>>
    BY <1>4 DEF StatusCommit, TypeOK, NoTx
  <2>3. tx[o].to # "none"
    BY <2>2 DEF OrderInv, SnapshotHolds
  <2>4. CountsWithin'
    BY <1>a, <2>1 DEF FactsInv, CountsWithin, Becomes, NotCounted
  <2>5. TxOrder'
    BY <2>1, <2>2 DEF FactsInv, TxOrder, Becomes, Free, Live, Exists, PartlyDelivered
  <2>6. CompletingIsDelivered'
    BY <1>c, <2>1, <2>2
       DEF FactsInv, CompletingIsDelivered, Becomes, TypeOK, Return
  <2>7. /\ \A x \in Orders : Exists(x) => Exists(x)'
        /\ Exists(o)'
    BY <2>1, <2>3 DEF Exists, Becomes
  <2>8. Unborn' /\ CallsKnown'
    BY <2>1, <2>2, <2>7
       DEF FactsInv, Unborn, CallsKnown, Exists, Becomes, TypeOK, Request
  <2> QED
    BY <2>4, <2>5, <2>6, <2>8 DEF FactsInv
<1>5. ASSUME DeleteOrder(o) PROVE FactsInv'
  <2>1. Becomes(o, order[o].status, order[o].delivery, order[o].courier,
                TRUE, order[o].qty, order[o].delivered)
    BY <1>5, OfficeEffects
  <2>2. Free(o) /\ Live(o) /\ UNCHANGED <<tx, ret, req>>
    BY <1>5 DEF DeleteOrder
  <2> QED
    BY <1>a, <1>b, <2>1, <2>2, FreeStep DEF Becomes, Exists
<1>6. ASSUME Restore(o) PROVE FactsInv'
  <2>1. Becomes(o, order[o].status, order[o].delivery, order[o].courier,
                FALSE, order[o].qty, order[o].delivered)
    BY <1>6, OfficeEffects
  <2>2. Free(o) /\ order[o].deleted /\ UNCHANGED <<tx, ret, req>>
    BY <1>6 DEF Restore
  <2>3. Exists(o)
    BY <2>2 DEF FactsInv, Unborn, NoOrder
  <2> QED
    BY <1>a, <2>1, <2>2, <2>3, FreeStep DEF Becomes, Exists
<1>7. ASSUME NEW goal \in SomeItems, EditBegin(o, goal) PROVE FactsInv'
  <2>1. /\ \A x \in Orders \ {o} : tx'[x] = tx[x]
        /\ tx'[o].kind = "edit"
    BY <1>7 DEF EditBegin, TypeOK, NoTx
  <2>2. /\ Live(o) /\ UNCHANGED <<order, ret, req>>
        /\ \A p \in Products : order[o].delivered[p] = Null
    BY <1>7 DEF EditBegin
  <2> QED
    BY <2>1, <2>2, QuietStep
<1>8. ASSUME EditCommit(o) PROVE FactsInv'
  <2>1. Becomes(o, order[o].status, order[o].delivery, order[o].courier,
                order[o].deleted, tx[o].goal, order[o].delivered)
    BY <1>8, OfficeEffects
  <2>2. /\ \A x \in Orders \ {o} : tx'[x] = tx[x]
        /\ tx'[o].kind = "none"
        /\ tx[o].kind = "edit" /\ UNCHANGED <<ret, req>>
    BY <1>8 DEF EditCommit, TypeOK, NoTx
  <2>3. Live(o) /\ \A p \in Products : order[o].delivered[p] = Null
    BY <2>2 DEF FactsInv, TxOrder, Free
  <2>4. CountsWithin'
    BY <2>1, <2>3 DEF FactsInv, CountsWithin, Becomes
  <2>5. TxOrder'
    BY <2>1, <2>2 DEF FactsInv, TxOrder, Becomes, Free, Live, Exists, PartlyDelivered
  <2>6. CompletingIsDelivered'
    BY <2>1, <2>2 DEF FactsInv, CompletingIsDelivered, Becomes, TypeOK, Return
  <2>7. /\ \A x \in Orders : Exists(x) => Exists(x)'
        /\ Exists(o)'
    BY <2>1, <2>3 DEF Exists, Becomes, Live
  <2>8. Unborn' /\ CallsKnown'
    BY <2>1, <2>2, <2>7
       DEF FactsInv, Unborn, CallsKnown, Exists, Becomes, TypeOK, Request
  <2> QED
    BY <2>4, <2>5, <2>6, <2>8 DEF FactsInv
<1>9. ASSUME AbortTx(o) PROVE FactsInv'
  <2>1. /\ \A x \in Orders \ {o} : tx'[x] = tx[x]
        /\ tx'[o].kind = "none" /\ UNCHANGED <<order, ret, req>>
    BY <1>9 DEF AbortTx, TypeOK, NoTx
  <2> QED
    BY <2>1, QuietStep
<1>10. ASSUME NEW d \in [Products -> 0..MaxQty], PartialDelivery(o, d)
       PROVE  FactsInv'
  <2>1. Becomes(o, "delivered", "delivered", order[o].courier, order[o].deleted,
                order[o].qty, [p \in Products |-> IF p \in Lines(o) THEN d[p] ELSE Null])
    BY <1>10, OfficeEffects
  <2>2. /\ Free(o) /\ UNCHANGED <<tx, ret, req>>
        /\ \A p \in Products : d[p] <= order[o].qty[p]
    BY <1>10 DEF PartialDelivery
  <2> QED
    BY <2>1, <2>2, FreeStep DEF Becomes
<1> QED
  BY <1>1, <1>2, <1>3, <1>4, <1>5, <1>6, <1>7, <1>8, <1>9, <1>10,
     ConstantsOK DEF OfficeNext

LEMMA CourierFactsInv ==
    ASSUME TypeInv, TypeInv', OrderInv, FactsInv, CourierNext
    PROVE  FactsInv'
<1> USE DEF TypeInv
<1>a. ASSUME NEW o \in Orders
      PROVE  /\ order[o] \in Order
             /\ \A p \in Products : order[o].delivered[p] # Null
                    => order[o].delivered[p] <= order[o].qty[p]
             /\ Live(o) => Exists(o)
  BY DEF TypeOK, FactsInv, CountsWithin, Live
<1>b. ASSUME NEW q \in Requests
      PROVE  /\ req[q].order \in Orders
             /\ req[q].op # "idle" => Exists(req[q].order)
             /\ Done(q) => \A x \in Requests : req'[x] = req[x] \/ req'[x].op = "idle"
  BY DEF TypeOK, Request, FactsInv, CallsKnown, Done
<1>c. ASSUME NEW o \in Orders, CanSettle(o), NEW r \in Returns,
             ret[r].status = "completing"
      PROVE  ret[r].order # o
  BY <1>c DEF CanSettle
<1>1. ASSUME NEW o \in Orders, NEW c \in Couriers, BulkAssign(o, c)
      PROVE  FactsInv'
  <2>1. Becomes(o, order[o].status, "assigned", c, order[o].deleted,
                order[o].qty, order[o].delivered)
    BY <1>1, CourierEffects
  <2>2. Free(o) /\ Live(o) /\ UNCHANGED <<tx, ret, req>>
    BY <1>1 DEF BulkAssign
  <2> QED
    BY <1>a, <2>1, <2>2, FreeStep DEF Becomes, Exists
<1>2. ASSUME NEW o \in Orders, NEW c \in Couriers, MarkFailed(o, c)
      PROVE  FactsInv'
  <2>1. Becomes(o, "new", "failed", NoCourier, order[o].deleted,
                order[o].qty, order[o].delivered)
    BY <1>2, CourierEffects
  <2>2. /\ Free(o) /\ order[o].status # "delivered" /\ UNCHANGED <<tx, ret, req>>
    BY <1>2 DEF MarkFailed, ClosedStatuses
  <2> QED
    BY <1>a, <2>1, <2>2, FreeStep DEF Becomes
<1>3. ASSUME NEW q \in Requests, NEW o \in Orders, NEW c,
             NEW op \in {"assign", "out", "deliver", "complete"} \cap Ops,
             Check(q, op, o, c)
      PROVE  FactsInv'
  <2>1. /\ \A x \in Requests : req'[x] = IF x = q THEN [op |-> op, order |-> o, courier |-> c]
                                                  ELSE req[x]
        /\ Exists(o) /\ UNCHANGED <<order, tx, ret>>
    BY <1>3 DEF Check, TypeOK
  <2>2. CallsKnown'
    BY <2>1 DEF FactsInv, CallsKnown, Exists
  <2> QED
    BY <2>1, <2>2
       DEF FactsInv, CountsWithin, TxOrder, CompletingIsDelivered, Unborn,
           Free, Live, Exists, PartlyDelivered
<1>4. ASSUME NEW q \in Requests, AssignCommit(q) PROVE FactsInv'
  <2> DEFINE o == req[q].order
  <2>1. Becomes(o, order[o].status, "assigned", req[q].courier, order[o].deleted,
                order[o].qty, order[o].delivered)
    BY <1>4, <1>b, CourierEffects
  <2>2. Free(o) /\ Exists(o) /\ Done(q) /\ UNCHANGED <<tx, ret>>
    BY <1>4, <1>b DEF AssignCommit
  <2> QED
    BY <1>a, <1>b, <2>1, <2>2, FreeStep DEF Becomes, Exists
<1>5. ASSUME NEW q \in Requests, OutCommit(q) PROVE FactsInv'
  <2> DEFINE o == req[q].order
  <2>1. Becomes(o, order[o].status, "out_for_delivery", order[o].courier,
                order[o].deleted, order[o].qty, order[o].delivered)
    BY <1>5, <1>b, CourierEffects
  <2>2. Free(o) /\ Exists(o) /\ Done(q) /\ UNCHANGED <<tx, ret>>
    BY <1>5, <1>b DEF OutCommit
  <2> QED
    BY <1>a, <1>b, <2>1, <2>2, FreeStep DEF Becomes, Exists
<1>6. ASSUME NEW q \in Requests, DeliverCommit(q) \/ CompleteWhole(q)
      PROVE  FactsInv'
  <2> DEFINE o == req[q].order
  <2>1. Becomes(o, "delivered", "delivered", order[o].courier,
                order[o].deleted, order[o].qty, order[o].delivered)
    BY <1>6, <1>b, CourierEffects
  <2>2. Free(o) /\ Done(q) /\ UNCHANGED <<tx, ret>>
    BY <1>6 DEF DeliverCommit, CompleteWhole
  <2> QED
    BY <1>a, <1>b, <2>1, <2>2, FreeStep DEF Becomes
<1>7. ASSUME NEW q \in Requests, CompleteReturned(q) PROVE FactsInv'
  <2> DEFINE o == req[q].order
  <2>1. Becomes(o, "returned", "delivered", order[o].courier,
                order[o].deleted, order[o].qty, order[o].delivered)
    BY <1>7, <1>b, CourierEffects
  <2>2. Free(o) /\ CanSettle(o) /\ Done(q) /\ UNCHANGED <<tx, ret>>
    BY <1>7 DEF CompleteReturned
  <2> QED
    BY <1>a, <1>b, <1>c, <2>1, <2>2, FreeStep DEF Becomes
<1>8. ASSUME NEW q \in Requests, NEW d \in [Products -> 0..MaxQty],
             CompletePartly(q, d)
      PROVE  FactsInv'
  <2> DEFINE o == req[q].order
  <2>1. Becomes(o, "delivered", "delivered", order[o].courier, order[o].deleted,
                order[o].qty, [p \in Products |-> IF p \in Lines(o) THEN d[p] ELSE Null])
    BY <1>8, <1>b, CourierEffects
  <2>2. /\ Free(o) /\ Done(q) /\ UNCHANGED <<tx, ret>>
        /\ \A p \in Products : d[p] <= order[o].qty[p]
    BY <1>8 DEF CompletePartly
  <2> QED
    BY <1>b, <2>1, <2>2, FreeStep DEF Becomes
<1>9. ASSUME NEW q \in Requests, DropRequest(q) PROVE FactsInv'
  <2>1. Done(q) /\ UNCHANGED <<order, tx, ret>>
    BY <1>9 DEF DropRequest
  <2>2. \A x \in Requests : req'[x] = req[x] \/ req'[x].op = "idle"
    BY <1>b, <2>1
  <2>3. CallsKnown'
    BY <2>1, <2>2 DEF FactsInv, CallsKnown, Exists
  <2> QED
    BY <2>1, <2>3
       DEF FactsInv, CountsWithin, TxOrder, CompletingIsDelivered, Unborn,
           Free, Live, Exists, PartlyDelivered
<1> QED
  BY <1>1, <1>2, <1>3, <1>4, <1>5, <1>6, <1>7, <1>8, <1>9 DEF CourierNext

LEMMA ReturnFactsInv ==
    ASSUME TypeInv, FactsInv, NEW r \in Returns, ReturnNext(r)
    PROVE  FactsInv'
<1> USE DEF TypeInv
<1>1. UNCHANGED <<order, tx, req>>
  BY DEF ReturnNext, ReturnCheck, ReturnInsert, ReturnApprove, ReturnReject,
         ReturnCompleteBegin, ReturnCompleteCommit, ReturnAbort
<1>2. CountsWithin' /\ TxOrder' /\ Unborn' /\ CallsKnown'
  BY <1>1 DEF FactsInv, CountsWithin, TxOrder, Unborn, CallsKnown,
              Free, Live, Exists, PartlyDelivered
<1>3. \A x \in Returns : ret'[x].status = "completing" =>
          \/ ret'[x] = ret[x]
          \/ ret'[x].order = ret[x].order /\ order[ret[x].order].status = "delivered"
  <2>1. ASSUME NEW o, NEW items, ReturnCheck(r, o, items)
        PROVE  \A x \in Returns : ret'[x].status = "completing" => ret'[x] = ret[x]
    BY <2>1 DEF ReturnCheck, TypeOK
  <2>a. ret[r] \in Return
    BY DEF TypeOK
  <2>2. ASSUME NEW status \in {"none", "pending", "approved", "rejected", "completed"},
               ret' = [ret EXCEPT ![r].status = status]
        PROVE  \A x \in Returns : ret'[x].status = "completing" => ret'[x] = ret[x]
    BY <2>2, <2>a DEF TypeOK, Return
  <2>4. ASSUME \/ ReturnInsert(r) \/ ReturnApprove(r) \/ ReturnReject(r)
               \/ \E d : ReturnCompleteCommit(r, d)
        PROVE  \A x \in Returns : ret'[x].status = "completing" => ret'[x] = ret[x]
    BY <2>2, <2>4 DEF ReturnInsert, ReturnApprove, ReturnReject, ReturnCompleteCommit
  <2>5. ASSUME ReturnAbort(r)
        PROVE  \A x \in Returns : ret'[x].status = "completing" => ret'[x] = ret[x]
    BY <2>5, <2>a DEF ReturnAbort, TypeOK, Return
  <2>3. ASSUME ReturnCompleteBegin(r)
        PROVE  \A x \in Returns : ret'[x].status = "completing" =>
                  \/ ret'[x] = ret[x]
                  \/ /\ ret'[x].order = ret[x].order
                     /\ order[ret[x].order].status = "delivered"
    BY <2>3 DEF ReturnCompleteBegin, TypeOK, Return
  <2> QED
    BY <2>1, <2>3, <2>4, <2>5 DEF ReturnNext
<1>4. CompletingIsDelivered'
  BY <1>1, <1>3 DEF FactsInv, CompletingIsDelivered
<1> QED
  BY <1>2, <1>4 DEF FactsInv

\* What holds in every scenario: LifecycleInv, and the facts above.
LEMMA NextFactsInv == LifecycleInv /\ FactsInv /\ [Next]_vars => FactsInv'
<1> SUFFICES ASSUME LifecycleInv, FactsInv, [Next]_vars PROVE FactsInv'
  OBVIOUS
<1>1. TypeInv /\ OrderInv /\ TypeInv'
  BY NextTypeInv DEF LifecycleInv, TypeInv, OrderInv
<1>2. CASE Next
  BY <1>1, <1>2, OfficeFactsInv, CourierFactsInv, ReturnFactsInv DEF Next
<1>3. CASE UNCHANGED vars
  BY <1>3 DEF vars, FactsInv, CountsWithin, TxOrder, CompletingIsDelivered,
              Unborn, CallsKnown, Free, Live, Exists, PartlyDelivered
<1> QED
  BY <1>2, <1>3

LEMMA SpecFactsInv == Spec => []FactsInv
BY SpecLifecycleInv, InitFactsInv, NextFactsInv, PTL DEF Spec

---------------------------------------------------------------------------
(* Couriers: what a call in flight may still find *)

\* assignCourier aside, whose UPDATE repeats no condition, no handler gives a
\* closed order to a courier.
LEMMA AssignedWhenOpen ==
    ASSUME "assign" \notin Ops, TypeOK, FactsInv, [Next]_vars, NEW o \in Orders,
           order'[o].delivery = "assigned", order[o].delivery # "assigned"
    PROVE  order[o].status \in OpenStatuses
<1>1. order[o] # order'[o]
  OBVIOUS
<1>2. ASSUME NEW q \in Requests
      PROVE  req[q].order \in Orders /\ ~AssignCommit(q)
  BY DEF FactsInv, CallsKnown, AssignCommit, TypeOK, Request
<1>3. ASSUME NEW x \in Orders, OfficeNext(x) PROVE order'[o].delivery # "assigned"
  <2>1. CASE UNCHANGED order
    BY <1>1, <2>1
  <2>2. CASE \E items \in SomeItems, status \in {"new", "pending"} : Create(x, items, status)
    BY <1>1, <2>2, OfficeEffects DEF Becomes
  <2>3. CASE Cancel(x) \/ DeleteOrder(x) \/ Restore(x) \/ EditCommit(x)
    BY <1>1, <2>3, OfficeEffects DEF Becomes
  <2>4. CASE StatusCommit(x)
    BY <1>1, <2>4, OfficeEffects DEF Becomes
  <2>5. CASE \E d : PartialDelivery(x, d)
    BY <1>1, <2>5, OfficeEffects DEF Becomes
  <2> QED
    BY <1>3, <2>1, <2>2, <2>3, <2>4, <2>5
       DEF OfficeNext, StatusBegin, EditBegin, AbortTx
<1>4. ASSUME NEW x \in Orders, NEW c, BulkAssign(x, c)
      PROVE  order[o].status \in OpenStatuses
  BY <1>1, <1>4, CourierEffects DEF Becomes, BulkAssign, HoldsStock
<1>5. ASSUME NEW x \in Orders, NEW c, MarkFailed(x, c)
      PROVE  order'[o].delivery # "assigned"
  BY <1>1, <1>5, CourierEffects DEF Becomes
<1>6. ASSUME NEW q \in Requests,
             \/ OutCommit(q) \/ DeliverCommit(q) \/ CompleteWhole(q)
             \/ CompleteReturned(q) \/ \E d : CompletePartly(q, d)
      PROVE  order'[o].delivery # "assigned"
  BY <1>1, <1>2, <1>6, CourierEffects DEF Becomes
<1>7. ASSUME NEW r, ReturnNext(r) PROVE UNCHANGED order
  BY <1>7 DEF ReturnNext, ReturnCheck, ReturnInsert, ReturnApprove, ReturnReject,
         ReturnCompleteBegin, ReturnCompleteCommit, ReturnAbort
<1>8. ASSUME CourierNext PROVE order[o].status \in OpenStatuses
  <2>1. CASE UNCHANGED order
    BY <1>1, <2>1
  <2> QED
    BY <1>2, <1>4, <1>5, <1>6, <1>8, <2>1 DEF CourierNext, Check, DropRequest
<1> QED
  BY <1>1, <1>3, <1>7, <1>8 DEF Next, vars

\* A closed order is never given to a courier, where the office assigns
\* couriers in bulk only (bulkAssignCourier, assignCourierToList).
THEOREM SpecClosedNotAssigned ==
    ASSUME "assign" \notin Ops
    PROVE  Spec => ClosedNotAssigned
<1> DEFINE OpenOnly == \A o \in Orders :
              order'[o].delivery = "assigned" /\ order[o].delivery # "assigned"
                  => order[o].status \in OpenStatuses
<1>1. TypeInv /\ FactsInv /\ [Next]_vars => [OpenOnly]_vars
  BY AssignedWhenOpen DEF TypeInv
<1>2. Spec => []TypeInv
  BY InitTypeInv, NextTypeInv, PTL DEF Spec
<1> QED
  BY <1>1, <1>2, SpecFactsInv, PTL DEF Spec, ClosedNotAssigned

LEMMA InitCourierInv == Init => CourierInv
BY ConstantsOK DEF Init, CourierInv, CourierOK, NoOrder, ClosedStatuses

\* A step that writes order o at most, and starts no call.
LEMMA CourierStep ==
    ASSUME TypeOK, \A x \in Orders : CourierOK(x), NEW o \in Orders,
           \A x \in Orders \ {o} : order'[x] = order[x],
           \A q \in Requests : req'[q] = req[q] \/ req'[q].op = "idle",
           CourierOK(o)'
    PROVE  \A x \in Orders : CourierOK(x)'
<1>1. ASSUME NEW x \in Orders
      PROVE  Ending(x)' \subseteq Ending(x) /\ Leaving(x)' \subseteq Leaving(x)
  BY DEF Ending, Leaving
<1> QED
  BY <1>1 DEF CourierOK

LEMMA OfficeCourierInv ==
    ASSUME CourierSafe, {"deliver", "complete"} \cap Ops # {}, TypeOK, FactsInv,
           \A x \in Orders : CourierOK(x), NEW o \in Orders, OfficeNext(o)
    PROVE  \A x \in Orders : CourierOK(x)'
<1>a. /\ "cancel" \notin Ops /\ "status" \notin Ops
      /\ "deliver" \in Ops => "delete" \notin Ops
      /\ {"assign", "out"} \cap Ops # {} => "partial" \notin Ops /\ TwoCalls
  BY DEF CourierSafe
<1>b. UNCHANGED req
  BY DEF OfficeNext, Create, Cancel, StatusBegin, StatusCommit, DeleteOrder, Restore,
         EditBegin, EditCommit, AbortTx, PartialDelivery
<1>c. Ending(o)' = Ending(o) /\ Leaving(o)' = Leaving(o)
  BY <1>b DEF Ending, Leaving
<1>0. ASSUME UNCHANGED order PROVE \A x \in Orders : CourierOK(x)'
  BY <1>0, <1>b DEF CourierOK, Ending, Leaving
<1>1. ASSUME NEW items, NEW status \in {"new", "pending"}, Create(o, items, status)
      PROVE  \A x \in Orders : CourierOK(x)'
  <2>1. Becomes(o, status, "not_assigned", NoCourier, FALSE, items, NotCounted)
    BY <1>1, OfficeEffects
  <2>2. CourierOK(o)'
    BY <2>1 DEF CourierOK, Becomes, ClosedStatuses
  <2> QED
    BY <1>b, <2>1, <2>2, CourierStep DEF Becomes
<1>2. ASSUME "delete" \in Ops, DeleteOrder(o) \/ Restore(o)
      PROVE  \A x \in Orders : CourierOK(x)'
  <2>1. /\ order'[o].status = order[o].status
        /\ order'[o].delivery = order[o].delivery
        /\ \A x \in Orders \ {o} : order'[x] = order[x]
    BY <1>2, OfficeEffects DEF Becomes
  <2>2. CourierOK(o)'
    BY <1>a, <1>c, <1>2, <2>1 DEF CourierOK
  <2> QED
    BY <1>b, <2>1, <2>2, CourierStep
<1>3. ASSUME EditCommit(o) PROVE \A x \in Orders : CourierOK(x)'
  <2>1. Becomes(o, order[o].status, order[o].delivery, order[o].courier,
                order[o].deleted, tx[o].goal, order[o].delivered)
    BY <1>3, OfficeEffects
  <2>2. CourierOK(o)'
    BY <1>c, <2>1 DEF CourierOK, Becomes
  <2> QED
    BY <1>b, <2>1, <2>2, CourierStep DEF Becomes
<1>4. ASSUME "partial" \in Ops, NEW d, PartialDelivery(o, d)
      PROVE  \A x \in Orders : CourierOK(x)'
  <2>1. Becomes(o, "delivered", "delivered", order[o].courier, order[o].deleted,
                order[o].qty, [p \in Products |-> IF p \in Lines(o) THEN d[p] ELSE Null])
    BY <1>4, OfficeEffects
  <2>2. Leaving(o) = {}
    BY <1>a, <1>4 DEF FactsInv, CallsKnown, Leaving
  <2>3. CourierOK(o)'
    BY <1>c, <2>1, <2>2 DEF CourierOK, Becomes, OnTheWay
  <2> QED
    BY <1>b, <2>1, <2>3, CourierStep DEF Becomes
<1> QED
  BY <1>a, <1>0, <1>1, <1>2, <1>3, <1>4
     DEF OfficeNext, StatusBegin, EditBegin, AbortTx

LEMMA CallsCourierInv ==
    ASSUME CourierSafe, {"deliver", "complete"} \cap Ops # {}, TypeOK, FactsInv,
           \A x \in Orders : CourierOK(x), CourierNext
    PROVE  \A x \in Orders : CourierOK(x)'
<1>a. {"assign", "out"} \cap Ops # {} => TwoCalls
  BY DEF CourierSafe
<1>b. ASSUME NEW q \in Requests
      PROVE  /\ req[q].order \in Orders
             /\ req[q].op \in Ops \cup {"idle"}
             /\ Done(q) => /\ req'[q].op = "idle"
                           /\ \A x \in Requests \ {q} : req'[x] = req[x]
  BY DEF TypeOK, Request, FactsInv, CallsKnown, Done
<1>1. ASSUME NEW o \in Orders, NEW c, BulkAssign(o, c)
      PROVE  \A x \in Orders : CourierOK(x)'
  <2>1. Becomes(o, order[o].status, "assigned", c, order[o].deleted,
                order[o].qty, order[o].delivered)
    BY <1>1, CourierEffects
  <2>2. order[o].status \notin ClosedStatuses /\ UNCHANGED req
    BY <1>1 DEF BulkAssign, HoldsStock, OpenStatuses, ClosedStatuses
  <2>3. CourierOK(o)'
    BY <2>1, <2>2 DEF CourierOK, Becomes
  <2> QED
    BY <2>1, <2>2, <2>3, CourierStep DEF Becomes
<1>2. ASSUME NEW o \in Orders, NEW c, MarkFailed(o, c)
      PROVE  \A x \in Orders : CourierOK(x)'
  <2>1. Becomes(o, "new", "failed", NoCourier, order[o].deleted,
                order[o].qty, order[o].delivered)
    BY <1>2, CourierEffects
  <2>2. UNCHANGED req
    BY <1>2 DEF MarkFailed
  <2>3. CourierOK(o)'
    BY <2>1, <2>2 DEF CourierOK, Becomes, ClosedStatuses
  <2> QED
    BY <2>1, <2>2, <2>3, CourierStep DEF Becomes
\* A call is started on an order that is open, or whose delivery is not on its
\* way to an end in another call.
<1>3. ASSUME NEW q \in Requests, NEW o \in Orders, NEW c,
             NEW op \in {"assign", "out", "deliver", "complete"}, Check(q, op, o, c)
      PROVE  \A x \in Orders : CourierOK(x)'
  <2>1. /\ req[q].op = "idle"
        /\ \A x \in Requests : req'[x] = IF x = q THEN [op |-> op, order |-> o, courier |-> c]
                                                  ELSE req[x]
        /\ CheckPasses(op, o, c) /\ UNCHANGED order
    BY <1>3 DEF Check, TypeOK
  <2>2. ASSUME NEW x \in Orders, x # o \/ order[o].status \notin ClosedStatuses
        PROVE  CourierOK(x)'
    <3>1. x # o => Ending(x)' \subseteq Ending(x) /\ Leaving(x)' \subseteq Leaving(x)
      BY <2>1 DEF Ending, Leaving
    <3> QED
      BY <2>1, <2>2, <3>1 DEF CourierOK
  <2>3. ASSUME order[o].status \in ClosedStatuses PROVE CourierOK(o)'
    <3>1. op = "out" /\ order[o].delivery = "assigned"
      BY <2>1, <2>3 DEF CheckPasses, HoldsStock, OpenStatuses, ClosedStatuses
    <3>2. Ending(o)' \subseteq Ending(o)
      BY <2>1, <3>1 DEF Ending
    <3> QED
      BY <2>1, <2>3, <3>1, <3>2 DEF CourierOK, OnTheWay
  <2> QED
    BY <2>2, <2>3
<1>4. ASSUME NEW q \in Requests, NEW o \in Orders, req[q].order = o,
             AssignCommit(q) \/ OutCommit(q)
      PROVE  \A x \in Orders : CourierOK(x)'
  <2>1. /\ order'[o].status = order[o].status
        /\ order'[o].deleted = order[o].deleted
        /\ \A x \in Orders \ {o} : order'[x] = order[x]
    BY <1>4, <1>b, CourierEffects DEF Becomes
  <2>2. Done(q) /\ req[q].op \in {"assign", "out"}
    BY <1>4 DEF AssignCommit, OutCommit
  <2>3. Leaving(o) # {} /\ Ending(o)' \subseteq Ending(o)
    BY <1>4, <1>b, <2>2 DEF Leaving, Ending
  <2>4. CourierOK(o)'
    BY <1>b, <2>1, <2>3 DEF CourierOK
  <2> QED
    BY <1>b, <2>1, <2>2, <2>4, CourierStep
\* The call that ended the delivery is over; there are not two more.
<1>5. ASSUME NEW q \in Requests, NEW o \in Orders, req[q].order = o,
             \/ DeliverCommit(q) \/ CompleteWhole(q) \/ CompleteReturned(q)
             \/ \E d : CompletePartly(q, d)
      PROVE  \A x \in Orders : CourierOK(x)'
  <2>1. /\ order'[o].delivery = "delivered"
        /\ order'[o].deleted = order[o].deleted
        /\ \A x \in Orders \ {o} : order'[x] = order[x]
    BY <1>5, <1>b, CourierEffects DEF Becomes
  <2>2. Done(q)
    BY <1>5 DEF DeliverCommit, CompleteWhole, CompleteReturned, CompletePartly
  <2>3. Ending(o)' # {} => Leaving(o)' = {}
    <3>1. ASSUME NEW a \in Ending(o)', NEW b \in Leaving(o)' PROVE FALSE
      <4>1. a # b /\ a # q /\ b # q /\ a \in Requests /\ b \in Requests
        BY <1>b, <2>2, <3>1 DEF Ending, Leaving
      <4>2. req[b].op \in {"assign", "out"} /\ req[b].op \in Ops
        BY <1>b, <2>2, <3>1, <4>1 DEF Leaving
      <4> QED
        BY <1>a, <4>1, <4>2 DEF TwoCalls
    <3> QED
      BY <3>1
  <2>4. CourierOK(o)'
    BY <1>b, <2>1, <2>3 DEF CourierOK, OnTheWay
  <2> QED
    BY <1>b, <2>1, <2>2, <2>4, CourierStep
<1>6. ASSUME NEW q \in Requests, DropRequest(q)
      PROVE  \A x \in Orders : CourierOK(x)'
  <2>1. Done(q) /\ UNCHANGED order
    BY <1>6 DEF DropRequest
  <2>2. ASSUME NEW x \in Orders
        PROVE  Ending(x)' \subseteq Ending(x) /\ Leaving(x)' \subseteq Leaving(x)
    BY <1>b, <2>1 DEF Ending, Leaving
  <2> QED
    BY <2>1, <2>2 DEF CourierOK
<1> QED
  BY <1>b, <1>1, <1>2, <1>3, <1>4, <1>5, <1>6 DEF CourierNext

LEMMA NextCourierInv ==
    ASSUME CourierSafe
    PROVE  TypeOK /\ FactsInv /\ CourierInv /\ [Next]_vars => CourierInv'
<1> SUFFICES ASSUME TypeOK, FactsInv, CourierInv, [Next]_vars,
                    {"deliver", "complete"} \cap Ops # {}
             PROVE  \A x \in Orders : CourierOK(x)'
  BY DEF CourierInv
<1>1. \A x \in Orders : CourierOK(x)
  BY DEF CourierInv
<1>2. ASSUME UNCHANGED <<order, req>> PROVE \A x \in Orders : CourierOK(x)'
  BY <1>1, <1>2 DEF CourierOK, Ending, Leaving
<1>3. ASSUME NEW r, ReturnNext(r) PROVE UNCHANGED <<order, req>>
  BY <1>3 DEF ReturnNext, ReturnCheck, ReturnInsert, ReturnApprove, ReturnReject,
         ReturnCompleteBegin, ReturnCompleteCommit, ReturnAbort
<1> QED
  BY <1>1, <1>2, <1>3, OfficeCourierInv, CallsCourierInv DEF Next, vars

LEMMA SpecCourierInv ==
    ASSUME CourierSafe
    PROVE  Spec => []CourierInv
<1>1. LifecycleInv => TypeOK
  BY DEF LifecycleInv
<1> QED
  BY <1>1, SpecLifecycleInv, SpecFactsInv, InitCourierInv, NextCourierInv, PTL DEF Spec

---------------------------------------------------------------------------
(* Returns: what documents claim and what they have brought back *)

LEMMA ClaimTypes ==
    ASSUME TypeOK, NEW o \in Orders, NEW p \in Products
    PROVE  /\ \A r \in Returns : /\ Claim(r, o, p) \in Nat /\ Brought(r, o, p) \in Nat
                                 /\ Brought(r, o, p) <= Claim(r, o, p)
           /\ ClaimSum(o, p) \in Nat /\ BroughtSum(o, p) \in Nat
           /\ BroughtSum(o, p) <= ClaimSum(o, p)
           /\ Returns = {} => BroughtSum(o, p) = 0
<1> DEFINE f == [r \in Returns |-> Claim(r, o, p)]
           g == [r \in Returns |-> Brought(r, o, p)]
<1>1. \A r \in Returns : /\ Claim(r, o, p) \in Nat /\ Brought(r, o, p) \in Nat
                         /\ Brought(r, o, p) <= Claim(r, o, p)
  BY DEF TypeOK, Return, Items, Claim, Brought
<1>2. \A r \in Returns : /\ f[r] \in Nat /\ g[r] \in Nat /\ f[r] \in Int /\ g[r] \in Int
                         /\ g[r] <= f[r]
  BY <1>1
<1> HIDE DEF f, g
<1>3. /\ SumFunctionOnSet(f, Returns) \in Nat /\ SumFunctionOnSet(g, Returns) \in Nat
      /\ SumFunctionOnSet(g, Returns) <= SumFunctionOnSet(f, Returns)
      /\ Returns = {} => SumFunctionOnSet(g, Returns) = 0
  BY <1>2, SumTypes, SumLeq, ConstantsOK
<1> QED
  BY <1>1, <1>3 DEF f, g, ClaimSum, BroughtSum

\* In such a state a return cannot have brought back more than was delivered.
LEMMA BackWithin ==
    TypeOK /\ ReturnInv =>
        \A o \in Orders, p \in Products : back[o][p] <= Shipped(order[o])[p]
<1> SUFFICES ASSUME TypeOK, ReturnInv, NEW o \in Orders, NEW p \in Products
             PROVE  back[o][p] <= Shipped(order[o])[p]
  OBVIOUS
<1>1. /\ BroughtSum(o, p) \in Nat /\ ClaimSum(o, p) \in Nat
      /\ BroughtSum(o, p) <= ClaimSum(o, p)
      /\ Returns = {} => BroughtSum(o, p) = 0
  BY ClaimTypes
<1>2. /\ back[o][p] = BroughtSum(o, p)
      /\ Returns # {} => /\ order[o].delivered[p] = Null
                         /\ ClaimSum(o, p) <= order[o].qty[p]
  BY DEF ReturnInv
<1>3. /\ order[o].qty[p] \in Nat
      /\ order[o].delivered[p] # Null => order[o].delivered[p] \in Nat
  BY DEF TypeOK, Order, Items
<1>4. Shipped(order[o])[p] = IF order[o].delivered[p] = Null THEN order[o].qty[p]
                                                             ELSE order[o].delivered[p]
  BY DEF Shipped
<1> QED
  BY <1>1, <1>2, <1>3, <1>4

LEMMA InitReturnInv == Init => ReturnInv
<1> SUFFICES ASSUME Init, NEW o \in Orders, NEW p \in Products
             PROVE  /\ back[o][p] = BroughtSum(o, p)
                    /\ order[o].delivered[p] = Null
                    /\ ClaimSum(o, p) <= order[o].qty[p]
  BY DEF ReturnInv
<1> DEFINE f == [r \in Returns |-> Claim(r, o, p)]
           g == [r \in Returns |-> Brought(r, o, p)]
<1>1. \A r \in Returns : f[r] = 0 /\ g[r] = 0
  BY DEF Init, Claim, Brought
<1>2. back[o][p] = 0 /\ order[o].qty[p] = 0 /\ order[o].delivered[p] = Null
  BY DEF Init, NoItems, NoOrder
<1> HIDE DEF f, g
<1>3. SumFunctionOnSet(f, Returns) = 0 /\ SumFunctionOnSet(g, Returns) = 0
  BY <1>1, SumTypes, ConstantsOK
<1> QED
  BY <1>2, <1>3 DEF f, g, ClaimSum, BroughtSum

\* A step that writes no return, and reduces no ordered quantity.
LEMMA OrdersReturnStep ==
    ASSUME TypeOK, TypeOK', ReturnInv, UNCHANGED <<ret, back>>,
           Returns # {} => \A o \in Orders, p \in Products :
               /\ order'[o].delivered[p] = Null
               /\ order'[o].qty[p] >= order[o].qty[p]
    PROVE  ReturnInv'
<1> SUFFICES ASSUME NEW o \in Orders, NEW p \in Products
             PROVE  /\ back'[o][p] = BroughtSum(o, p)'
                    /\ Returns # {} => /\ order'[o].delivered[p] = Null
                                       /\ ClaimSum(o, p)' <= order'[o].qty[p]
  BY DEF ReturnInv
<1>1. BroughtSum(o, p)' = BroughtSum(o, p) /\ ClaimSum(o, p)' = ClaimSum(o, p)
  BY DEF BroughtSum, ClaimSum, Brought, Claim
<1>2. ClaimSum(o, p) \in Nat
  BY ClaimTypes
<1>3. order[o].qty[p] \in Nat /\ order'[o].qty[p] \in Nat
  BY DEF TypeOK, Order, Items
<1> QED
  BY <1>1, <1>2, <1>3 DEF ReturnInv

LEMMA OfficeReturnInv ==
    ASSUME ReturnsSafe, TypeOK, TypeOK', FactsInv, ReturnInv,
           NEW o \in Orders, OfficeNext(o)
    PROVE  ReturnInv'
<1>a. UNCHANGED <<ret, back>>
  BY DEF OfficeNext, Create, Cancel, StatusBegin, StatusCommit, DeleteOrder, Restore,
         EditBegin, EditCommit, AbortTx, PartialDelivery
<1> SUFFICES ASSUME Returns # {}, NEW x \in Orders, NEW p \in Products
             PROVE  /\ order'[x].delivered[p] = Null
                    /\ order'[x].qty[p] >= order[x].qty[p]
  BY <1>a, OrdersReturnStep
<1>b. order[x].delivered[p] = Null /\ order[x].qty[p] \in Nat
  BY DEF ReturnInv, TypeOK, Order, Items
<1>c. "edit" \notin Ops /\ "partial" \notin Ops
  BY DEF ReturnsSafe
<1>1. ASSUME NEW items \in SomeItems, NEW status, Create(o, items, status)
      PROVE  /\ order'[x].delivered[p] = Null
             /\ order'[x].qty[p] >= order[x].qty[p]
  <2>1. Becomes(o, status, "not_assigned", NoCourier, FALSE, items, NotCounted)
    BY <1>1, OfficeEffects
  <2>2. order[o].qty[p] = 0
    BY <1>1 DEF Create, FactsInv, Unborn, NoOrder, NoItems
  <2>3. items[p] \in Nat
    BY DEF SomeItems
  <2> QED
    BY <1>b, <2>1, <2>2, <2>3 DEF Becomes, NotCounted
<1>2. ASSUME Cancel(o) \/ DeleteOrder(o) \/ Restore(o) \/ StatusCommit(o)
      PROVE  /\ order'[x].delivered[p] = Null
             /\ order'[x].qty[p] >= order[x].qty[p]
  <2>1. /\ order'[o].qty = order[o].qty
        /\ order'[o].delivered \in {order[o].delivered, NotCounted}
        /\ \A y \in Orders \ {o} : order'[y] = order[y]
    BY <1>2, OfficeEffects DEF Becomes
  <2> QED
    BY <1>b, <2>1 DEF NotCounted
<1>3. ASSUME UNCHANGED order
      PROVE  /\ order'[x].delivered[p] = Null
             /\ order'[x].qty[p] >= order[x].qty[p]
  BY <1>3, <1>b
<1> QED
  BY <1>c, <1>1, <1>2, <1>3 DEF OfficeNext, StatusBegin, EditBegin, AbortTx

LEMMA CourierReturnInv ==
    ASSUME ReturnsSafe, TypeOK, TypeOK', FactsInv, ReturnInv, CourierNext
    PROVE  ReturnInv'
<1>a. UNCHANGED <<ret, back>>
  BY DEF CourierNext, BulkAssign, MarkFailed, Check, AssignCommit, OutCommit,
         DeliverCommit, CompleteWhole, CompleteReturned, CompletePartly, DropRequest
<1> SUFFICES ASSUME Returns # {}, NEW x \in Orders, NEW p \in Products
             PROVE  /\ order'[x].delivered[p] = Null
                    /\ order'[x].qty[p] >= order[x].qty[p]
  BY <1>a, OrdersReturnStep
<1>b. order[x].delivered[p] = Null /\ order[x].qty[p] \in Nat
  BY DEF ReturnInv, TypeOK, Order, Items
<1>c. ASSUME NEW q \in Requests
      PROVE  /\ req[q].order \in Orders
             /\ \A d : ~CompletePartly(q, d)
  BY DEF ReturnsSafe, FactsInv, CallsKnown, CompletePartly, TypeOK, Request
<1>1. ASSUME NEW o \in Orders, NEW c, BulkAssign(o, c) \/ MarkFailed(o, c)
      PROVE  /\ order'[x].delivered[p] = Null
             /\ order'[x].qty[p] >= order[x].qty[p]
  BY <1>1, <1>b, CourierEffects DEF Becomes
<1>2. ASSUME NEW q \in Requests,
             \/ AssignCommit(q) \/ OutCommit(q) \/ DeliverCommit(q)
             \/ CompleteWhole(q) \/ CompleteReturned(q)
      PROVE  /\ order'[x].delivered[p] = Null
             /\ order'[x].qty[p] >= order[x].qty[p]
  BY <1>2, <1>b, <1>c, CourierEffects DEF Becomes
<1>3. ASSUME UNCHANGED order
      PROVE  /\ order'[x].delivered[p] = Null
             /\ order'[x].qty[p] >= order[x].qty[p]
  BY <1>3, <1>b
<1> QED
  BY <1>c, <1>1, <1>2, <1>3 DEF CourierNext, Check, DropRequest

\* The sums after a step that writes one return.
LEMMA ReturnSums ==
    ASSUME TypeOK, TypeOK', NEW r \in Returns,
           \A x \in Returns \ {r} : ret'[x] = ret[x],
           NEW o \in Orders, NEW p \in Products
    PROVE  /\ ClaimSum(o, p)' = ClaimSum(o, p) + (Claim(r, o, p)' - Claim(r, o, p))
           /\ BroughtSum(o, p)' = BroughtSum(o, p) + (Brought(r, o, p)' - Brought(r, o, p))
<1> DEFINE f == [x \in Returns |-> Claim(x, o, p)]
           f1 == [x \in Returns |-> Claim(x, o, p)']
           g == [x \in Returns |-> Brought(x, o, p)]
           g1 == [x \in Returns |-> Brought(x, o, p)']
<1>1. \A x \in Returns : Claim(x, o, p) \in Nat /\ Brought(x, o, p) \in Nat
  BY ClaimTypes
<1>2. \A x \in Returns : Claim(x, o, p)' \in Nat /\ Brought(x, o, p)' \in Nat
  BY DEF TypeOK, Return, Items, Claim, Brought
<1>3. /\ \A x \in Returns : f[x] \in Int /\ f1[x] \in Int /\ g[x] \in Int /\ g1[x] \in Int
      /\ f[r] = Claim(r, o, p) /\ f1[r] = Claim(r, o, p)'
      /\ g[r] = Brought(r, o, p) /\ g1[r] = Brought(r, o, p)'
  BY <1>1, <1>2
<1>4. \A x \in Returns \ {r} : f[x] = f1[x] /\ g[x] = g1[x]
  BY DEF Claim, Brought
<1> HIDE DEF f, f1, g, g1
<1>5. /\ SumFunctionOnSet(f1, Returns) = SumFunctionOnSet(f, Returns) + (f1[r] - f[r])
      /\ SumFunctionOnSet(g1, Returns) = SumFunctionOnSet(g, Returns) + (g1[r] - g[r])
  BY <1>3, <1>4, SumChange, ConstantsOK
<1> QED
  BY <1>3, <1>5 DEF f, f1, g, g1, ClaimSum, BroughtSum

LEMMA ReturnsReturnStep ==
    ASSUME TypeOK, TypeOK', ReturnInv, NEW r \in Returns, UNCHANGED order,
           \A x \in Returns \ {r} : ret'[x] = ret[x],
           \A o \in Orders, p \in Products :
               /\ back'[o][p] = back[o][p] + (Brought(r, o, p)' - Brought(r, o, p))
               /\ ClaimSum(o, p) + (Claim(r, o, p)' - Claim(r, o, p)) <= order[o].qty[p]
    PROVE  ReturnInv'
<1> SUFFICES ASSUME NEW o \in Orders, NEW p \in Products
             PROVE  /\ back'[o][p] = BroughtSum(o, p)'
                    /\ order'[o].delivered[p] = Null
                    /\ ClaimSum(o, p)' <= order'[o].qty[p]
  BY DEF ReturnInv
<1>1. /\ back[o][p] = BroughtSum(o, p)
      /\ order[o].delivered[p] = Null
  BY DEF ReturnInv
<1> QED
  BY <1>1, ReturnSums

\* A document may only join those before it: at one check at a time, what is
\* not yet inserted is what this check asks for.
LEMMA AskedIsClaimed ==
    ASSUME MaxChecked <= 1, TypeOK, CreateRoom, NEW o \in Orders, NEW p \in Products
    PROVE  ClaimSum(o, p) = Asked(o)[p]
<1> DEFINE asked == {r \in Returns : ret[r].status = "asked"}
           R == {r \in Returns : /\ ret[r].order = o
                                 /\ ret[r].status \in {"pending", "approved",
                                                       "completing", "completed"}}
           f == [r \in Returns |-> Claim(r, o, p)]
           g == [r \in Returns |-> ret[r].qty[p]]
<1>1. asked = {}
  <2>1. asked \in SUBSET Returns /\ IsFiniteSet(Returns)
    BY ConstantsOK
  <2>2. IsFiniteSet(asked)
    BY <2>1, FS_Subset
  <2>3. Cardinality(asked) \in Nat
    BY <2>2, FS_CardinalityType
  <2>4. Cardinality(asked) < MaxChecked /\ MaxChecked \in Nat
    BY ConstantsOK DEF CreateRoom
  <2>5. Cardinality(asked) = 0
    BY <2>3, <2>4
  <2> QED
    BY <2>2, <2>5, FS_EmptySet
<1>2. \A r \in Returns : /\ f[r] \in Int
                         /\ r \in R => f[r] = g[r]
                         /\ r \notin R => f[r] = 0
  BY <1>1 DEF TypeOK, Return, Items, Claim
<1>3. R \in SUBSET Returns /\ Returns \ R \in SUBSET Returns
  OBVIOUS
<1>4. SumFunctionOnSet(f, Returns) = ClaimSum(o, p) /\ SumFunctionOnSet(g, R) = Asked(o)[p]
  BY DEF ClaimSum, Asked
<1> HIDE DEF asked, R, f, g
<1>5. IsFiniteSet(R) /\ IsFiniteSet(Returns \ R) /\ IsFiniteSet(Returns)
  BY <1>3, FS_Subset, ConstantsOK
<1>6. SumFunctionOnSet(f, Returns)
        = SumFunctionOnSet(f, R) + SumFunctionOnSet(f, Returns \ R)
  BY <1>2, <1>3, <1>5, SumSplit
<1>7. SumFunctionOnSet(f, R) = SumFunctionOnSet(g, R)
  BY <1>2, <1>3, <1>5, SumSame
<1>8. SumFunctionOnSet(f, Returns \ R) = 0
  BY <1>2, <1>5, SumTypes
<1>9. SumFunctionOnSet(f, R) \in Int
  BY <1>2, <1>3, <1>5, SumTypes
<1> QED
  BY <1>4, <1>6, <1>7, <1>8, <1>9

LEMMA ReturnsReturnInv ==
    ASSUME ReturnsSafe, TypeOK, TypeOK', ReturnInv, NEW r \in Returns, ReturnNext(r)
    PROVE  ReturnInv'
<1>a. ret[r] \in Return /\ ret[r].order \in Orders /\ ret[r].qty \in Items
  BY DEF TypeOK, Return
<1>b. ASSUME NEW o \in Orders, NEW p \in Products
      PROVE  /\ back[o][p] \in Nat /\ order[o].qty[p] \in Nat
             /\ order[o].delivered[p] = Null
             /\ ClaimSum(o, p) \in Nat /\ ClaimSum(o, p) <= order[o].qty[p]
             /\ Claim(r, o, p) \in Nat /\ Brought(r, o, p) \in Nat
  BY ClaimTypes DEF TypeOK, Items, Order, ReturnInv
\* The steps of a document between its insertion and its end claim no more.
<1>c. ASSUME NEW status \in {"none", "pending", "approved", "rejected", "completing"},
             ret' = [ret EXCEPT ![r].status = status],
             ret[r].status \in {"asked", "pending", "approved", "completing"},
             UNCHANGED <<order, back>>
      PROVE  ReturnInv'
  <2>1. \A x \in Returns \ {r} : ret'[x] = ret[x]
    BY <1>c DEF TypeOK
  <2>2. /\ ret'[r].status = status
        /\ ret'[r].order = ret[r].order /\ ret'[r].qty = ret[r].qty
    BY <1>a, <1>c DEF TypeOK, Return
  <2>3. ASSUME NEW o \in Orders, NEW p \in Products
        PROVE  /\ Brought(r, o, p)' = 0 /\ Brought(r, o, p) = 0
               /\ Claim(r, o, p)' = Claim(r, o, p) \/ Claim(r, o, p)' = 0
    BY <1>c, <2>2 DEF Brought, Claim
  <2> QED
    BY <1>b, <1>c, <2>1, <2>3, ReturnsReturnStep
<1>1. ASSUME NEW o \in Orders, NEW items \in SomeItems, ReturnCheck(r, o, items)
      PROVE  ReturnInv'
  <2>1. /\ \A x \in Returns \ {r} : ret'[x] = ret[x]
        /\ ret'[r] = [status |-> "asked", order |-> o, qty |-> items]
        /\ ret[r].status = "none" /\ CreateRoom /\ UNCHANGED <<order, back>>
        /\ \A p \in Products : items[p] > 0 => Asked(o)[p] + items[p] <= Shipped(order[o])[p]
    BY <1>1 DEF ReturnCheck, TypeOK
  <2>2. ASSUME NEW x \in Orders, NEW p \in Products
        PROVE  /\ Brought(r, x, p)' = 0 /\ Brought(r, x, p) = 0
               /\ Claim(r, x, p) = 0
               /\ Claim(r, x, p)' = IF x = o THEN items[p] ELSE 0
    BY <2>1 DEF Brought, Claim
  <2>3. ASSUME NEW p \in Products
        PROVE  ClaimSum(o, p) + items[p] <= order[o].qty[p]
    <3>1. items[p] \in Nat
      BY DEF SomeItems
    <3>2. ClaimSum(o, p) = Asked(o)[p]
      BY <2>1, AskedIsClaimed DEF ReturnsSafe
    <3>3. Shipped(order[o])[p] = order[o].qty[p]
      BY <1>b DEF Shipped
    <3> QED
      BY <1>b, <2>1, <3>1, <3>2, <3>3
  <2>4. ASSUME NEW x \in Orders, NEW p \in Products
        PROVE  /\ back'[x][p] = back[x][p] + (Brought(r, x, p)' - Brought(r, x, p))
               /\ ClaimSum(x, p) + (Claim(r, x, p)' - Claim(r, x, p)) <= order[x].qty[p]
    <3>1. items[p] \in Nat
      BY DEF SomeItems
    <3> QED
      BY <1>b, <2>1, <2>2, <2>3, <3>1
  <2> QED
    BY <2>1, <2>4, ReturnsReturnStep
<1>2. ASSUME NEW d, ReturnCompleteCommit(r, d) PROVE ReturnInv'
  <2>1. /\ \A x \in Returns \ {r} : ret'[x] = ret[x]
        /\ ret'[r].status = "completed"
        /\ ret'[r].order = ret[r].order /\ ret'[r].qty = ret[r].qty
        /\ ret[r].status = "completing" /\ UNCHANGED order
    BY <1>2, <1>a DEF ReturnCompleteCommit, TypeOK, Return
  <2>2. ASSUME NEW x \in Orders, NEW p \in Products
        PROVE  back'[x][p] = back[x][p] + (IF x = ret[r].order THEN ret[r].qty[p] ELSE 0)
    BY <1>2, <1>a, <1>b, <2>2 DEF ReturnCompleteCommit, TypeOK, Items
  <2>3. ASSUME NEW x \in Orders, NEW p \in Products
        PROVE  /\ Brought(r, x, p) = 0
               /\ Brought(r, x, p)' = IF x = ret[r].order THEN ret[r].qty[p] ELSE 0
               /\ Claim(r, x, p)' = Claim(r, x, p)
    BY <2>1 DEF Brought, Claim
  <2>4. \A p \in Products : ret[r].qty[p] \in Nat
    BY <1>a DEF Items
  <2>5. ASSUME NEW x \in Orders, NEW p \in Products
        PROVE  /\ back'[x][p] = back[x][p] + (Brought(r, x, p)' - Brought(r, x, p))
               /\ ClaimSum(x, p) + (Claim(r, x, p)' - Claim(r, x, p)) <= order[x].qty[p]
    BY <1>b, <2>2, <2>3, <2>4
  <2> QED
    BY <2>1, <2>5, ReturnsReturnStep
<1>3. ASSUME ReturnInsert(r) PROVE ReturnInv'
  BY <1>3, <1>c DEF ReturnInsert
<1>4. ASSUME ReturnApprove(r) PROVE ReturnInv'
  BY <1>4, <1>c DEF ReturnApprove
<1>5. ASSUME ReturnReject(r) PROVE ReturnInv'
  BY <1>5, <1>c DEF ReturnReject
<1>6. ASSUME ReturnCompleteBegin(r) PROVE ReturnInv'
  BY <1>6, <1>c DEF ReturnCompleteBegin
<1>7. ASSUME ReturnAbort(r) PROVE ReturnInv'
  BY <1>7, <1>c DEF ReturnAbort
<1> QED
  BY <1>1, <1>2, <1>3, <1>4, <1>5, <1>6, <1>7 DEF ReturnNext

LEMMA NextReturnInv ==
    ASSUME ReturnsSafe
    PROVE  TypeOK /\ TypeOK' /\ FactsInv /\ ReturnInv /\ [Next]_vars => ReturnInv'
<1> SUFFICES ASSUME TypeOK, TypeOK', FactsInv, ReturnInv, [Next]_vars PROVE ReturnInv'
  OBVIOUS
<1>1. CASE Next
  BY <1>1, OfficeReturnInv, CourierReturnInv, ReturnsReturnInv DEF Next
<1>2. CASE UNCHANGED vars
  BY <1>2 DEF vars, ReturnInv, ClaimSum, BroughtSum, Claim, Brought
<1> QED
  BY <1>1, <1>2

LEMMA SpecReturnInv ==
    ASSUME ReturnsSafe
    PROVE  Spec => []ReturnInv
<1>1. LifecycleInv => TypeOK
  BY DEF LifecycleInv
<1> QED
  BY <1>1, SpecLifecycleInv, SpecFactsInv, InitReturnInv, NextReturnInv, PTL DEF Spec

\* Where returns are made one at a time and what was delivered does not change
\* under them, no more is returned on a delivered order than was delivered.
THEOREM SpecReturnsWithinDelivery ==
    ASSUME ReturnsSafe
    PROVE  Spec => []ReturnsWithinDelivery
<1>1. LifecycleInv /\ ReturnInv => ReturnsWithinDelivery
  BY BackWithin DEF LifecycleInv, ReturnsWithinDelivery
<1> QED
  BY <1>1, SpecLifecycleInv, SpecReturnInv, PTL

---------------------------------------------------------------------------
(* The goods: what is held, taken and on the shelf *)

\* What a line of ordered quantity q, counted as d, has in play after gone.
InPlay(q, d, gone) == NonNeg((IF d = Null THEN q ELSE d) - gone)

LEMMA LineNow ==
    ASSUME TypeOK, NEW o \in Orders, NEW p \in Products
    PROVE  /\ order[o].qty[p] \in Nat /\ back[o][p] \in Nat
           /\ order[o].delivered[p] \in Nat \cup {Null}
           /\ writtenOff[p] \in Nat
           /\ InPlay(order[o].qty[p], order[o].delivered[p], back[o][p]) \in Nat
           /\ HeldQuantity(order[o], back[o])[p]
                = InPlay(order[o].qty[p], order[o].delivered[p], back[o][p])
           /\ Held(o, p) = IF ~order[o].deleted /\ HoldsStock(order[o].status)
                           THEN InPlay(order[o].qty[p], order[o].delivered[p], back[o][p])
                           ELSE 0
           /\ Taken(o, p) = IF order[o].status = "delivered"
                            THEN InPlay(order[o].qty[p], order[o].delivered[p], back[o][p])
                            ELSE 0
<1>1. /\ order[o].qty[p] \in Nat /\ back[o][p] \in Nat
      /\ order[o].delivered[p] \in Nat \cup {Null}
      /\ writtenOff[p] \in Nat
  BY DEF TypeOK, Order, Items
<1>2. InPlay(order[o].qty[p], order[o].delivered[p], back[o][p]) \in Nat
  BY <1>1 DEF InPlay, NonNeg, Null
<1>3. HeldQuantity(order[o], back[o])[p]
        = InPlay(order[o].qty[p], order[o].delivered[p], back[o][p])
  BY DEF HeldQuantity, Shipped, InPlay
<1>4. HoldsStock(order[o].status) => Exists(o)
  BY DEF HoldsStock, Exists, OpenStatuses
<1> QED
  BY <1>1, <1>2, <1>3, <1>4 DEF Held, Taken, Live, DeductsStock

LEMMA LineAfter ==
    ASSUME NEW o \in Orders, NEW p \in Products, NEW status, NEW delivery, NEW courier,
           NEW deleted, NEW qty, NEW delivered,
           Becomes(o, status, delivery, courier, deleted, qty, delivered)
    PROVE  /\ Held(o, p)' = IF ~deleted /\ HoldsStock(status)
                            THEN InPlay(qty[p], delivered[p], back'[o][p]) ELSE 0
           /\ Taken(o, p)' = IF status = "delivered"
                             THEN InPlay(qty[p], delivered[p], back'[o][p]) ELSE 0
<1>1. /\ order'[o].status = status /\ order'[o].deleted = deleted
      /\ order'[o].qty = qty /\ order'[o].delivered = delivered
  BY DEF Becomes
<1>2. HeldQuantity(order[o], back[o])'[p] = InPlay(qty[p], delivered[p], back'[o][p])
  BY <1>1 DEF HeldQuantity, Shipped, InPlay
<1>3. HoldsStock(status) => status # "none"
  BY DEF HoldsStock, OpenStatuses
<1> QED
  BY <1>1, <1>2, <1>3 DEF Held, Taken, Live, Exists, DeductsStock, HoldsStock

LEMMA HeldTypes ==
    TypeOK => \A x \in Orders, y \in Products : Held(x, y) \in Nat /\ Taken(x, y) \in Nat
BY LineNow

\* An order that is not closed has nothing counted and nothing back.
LEMMA OpenLine ==
    ASSUME TypeOK, OrderInv, NEW o \in Orders, NEW p \in Products,
           order[o].status \notin ClosedStatuses
    PROVE  /\ order[o].delivered[p] = Null /\ back[o][p] = 0
           /\ InPlay(order[o].qty[p], order[o].delivered[p], back[o][p]) = order[o].qty[p]
<1>1. order[o].delivered[p] = Null /\ back[o][p] = 0
  BY DEF OrderInv, CountedStaysClosed, ReturnedStaysClosed, NoItems
<1>2. order[o].qty[p] \in Nat
  BY LineNow
<1> QED
  BY <1>1, <1>2 DEF InPlay, NonNeg

\* What a step keeps of the shelf, whatever it moves.
GoodsKept == ReserveExplained' /\ ShelfConserved' /\ (NoOversell => NoOversell')

\* A step of one order that moves the rows by what the order gains and loses.
LEMMA GoodsMove ==
    ASSUME TypeOK, TypeOK', RowsConsistent, RowsConsistent',
           ReserveExplained, ShelfConserved, NEW o \in Orders,
           NEW onHand \in [Products -> Int], NEW held \in [Products -> Int],
           \A p \in Products :
               /\ stock'[p].current = stock[p].current + onHand[p]
               /\ stock'[p].reserved = NonNeg(stock[p].reserved + held[p]),
           \A x \in Orders \ {o} : order'[x] = order[x] /\ back'[x] = back[x],
           \A p \in Products :
               /\ Held(o, p)' = Held(o, p) + held[p]
               /\ Taken(o, p)' + writtenOff'[p] = (Taken(o, p) + writtenOff[p]) - onHand[p]
    PROVE  /\ ReserveExplained' /\ ShelfConserved'
           /\ (\A p \in Products : onHand[p] < held[p]
                   => stock[p].available + onHand[p] >= held[p]) => GoodsKept
<1>a. ASSUME NEW p \in Products
      PROVE  /\ stock'[p].reserved = SumFunctionOnSet([x \in Orders |-> Held(x, p)'], Orders)
             /\ stock'[p].current + SumFunctionOnSet([x \in Orders |-> Taken(x, p)'], Orders)
                   + writtenOff'[p] = InitialStock
             /\ stock'[p].available = (stock[p].available + onHand[p]) - held[p]
  <2> DEFINE h == [x \in Orders |-> Held(x, p)]
             h1 == [x \in Orders |-> Held(x, p)']
             t == [x \in Orders |-> Taken(x, p)]
             t1 == [x \in Orders |-> Taken(x, p)']
  <2>1. \A x \in Orders : Held(x, p) \in Nat /\ Taken(x, p) \in Nat
    BY LineNow
  <2>2. \A x \in Orders : Held(x, p)' \in Nat /\ Taken(x, p)' \in Nat
    <3>1. (TypeOK => \A x \in Orders, y \in Products :
                         Held(x, y) \in Nat /\ Taken(x, y) \in Nat)'
      BY HeldTypes, PTL
    <3> QED
      BY <3>1
  <2>3. \A x \in Orders \ {o} : Held(x, p)' = Held(x, p) /\ Taken(x, p)' = Taken(x, p)
    BY DEF Held, Taken, Live, Exists
  <2>4. /\ \A x \in Orders : h[x] \in Nat /\ h1[x] \in Nat /\ t[x] \in Nat /\ t1[x] \in Nat
        /\ \A x \in Orders : h[x] \in Int /\ h1[x] \in Int /\ t[x] \in Int /\ t1[x] \in Int
        /\ \A x \in Orders \ {o} : h[x] = h1[x] /\ t[x] = t1[x]
        /\ h[o] = Held(o, p) /\ h1[o] = Held(o, p)' /\ t[o] = Taken(o, p) /\ t1[o] = Taken(o, p)'
    BY <2>1, <2>2, <2>3
  <2>5. /\ stock[p].reserved = SumFunctionOnSet(h, Orders)
        /\ stock[p].current + SumFunctionOnSet(t, Orders) + writtenOff[p] = InitialStock
    BY DEF ReserveExplained, ShelfConserved
  <2> HIDE DEF h, h1, t, t1
  <2>6. /\ SumFunctionOnSet(h1, Orders) = SumFunctionOnSet(h, Orders) + (h1[o] - h[o])
        /\ SumFunctionOnSet(t1, Orders) = SumFunctionOnSet(t, Orders) + (t1[o] - t[o])
    BY <2>4, SumChange, ConstantsOK
  <2>7. /\ SumFunctionOnSet(h, Orders) \in Nat /\ SumFunctionOnSet(h1, Orders) \in Nat
        /\ SumFunctionOnSet(t, Orders) \in Nat
    BY <2>4, SumTypes, ConstantsOK
  <2>8. /\ onHand[p] \in Int /\ held[p] \in Int
        /\ stock[p].current \in Int /\ stock[p].reserved \in Int /\ stock[p].available \in Int
        /\ writtenOff[p] \in Nat /\ writtenOff'[p] \in Nat /\ InitialStock \in Nat
    BY ConstantsOK DEF TypeOK, Rows, Row, Items
  <2>9. /\ stock[p].available = stock[p].current - stock[p].reserved
        /\ stock'[p].available = stock'[p].current - stock'[p].reserved
    BY DEF RowsConsistent, RowConsistent
  <2>10. /\ h1[o] - h[o] = held[p]
         /\ t1[o] - t[o] = (writtenOff[p] - writtenOff'[p]) - onHand[p]
    <3>1. /\ Held(o, p)' = Held(o, p) + held[p]
          /\ Taken(o, p)' + writtenOff'[p] = (Taken(o, p) + writtenOff[p]) - onHand[p]
      OBVIOUS
    <3>2. /\ h1[o] = h[o] + held[p]
          /\ t1[o] + writtenOff'[p] = (t[o] + writtenOff[p]) - onHand[p]
      BY <2>4, <3>1
    <3>3. h[o] \in Nat /\ h1[o] \in Nat /\ t[o] \in Nat /\ t1[o] \in Nat
      BY <2>4
    <3> QED
      BY <2>8, <3>2, <3>3
  <2>11. stock'[p].reserved = SumFunctionOnSet(h1, Orders)
    BY <2>5, <2>6, <2>7, <2>8, <2>10 DEF NonNeg
  <2>12. stock'[p].current + SumFunctionOnSet(t1, Orders) + writtenOff'[p] = InitialStock
    BY <2>5, <2>6, <2>7, <2>8, <2>10
  <2>13. stock'[p].available = (stock[p].available + onHand[p]) - held[p]
    BY <2>5, <2>6, <2>7, <2>8, <2>9, <2>10, <2>11
  <2> QED
    BY <2>11, <2>12, <2>13 DEF h1, t1
<1>1. ReserveExplained' /\ ShelfConserved'
  BY <1>a DEF ReserveExplained, ShelfConserved
<1>2. ASSUME NoOversell, NEW p \in Products,
             onHand[p] < held[p] => stock[p].available + onHand[p] >= held[p]
      PROVE  stock'[p].available >= 0
  <2>1. onHand[p] \in Int /\ held[p] \in Int /\ stock[p].available \in Int
    BY DEF TypeOK, Rows, Row
  <2>2. stock[p].available >= 0
    BY <1>2 DEF NoOversell
  <2>3. stock'[p].available = (stock[p].available + onHand[p]) - held[p]
    BY <1>a
  <2> QED
    BY <1>2, <2>1, <2>2, <2>3
<1> QED
  BY <1>1, <1>2 DEF GoodsKept, NoOversell

\* A step that leaves the rows, and what orders hold and have taken, alone.
LEMMA GoodsStay ==
    ASSUME UNCHANGED <<stock, back, writtenOff>>,
           \A o \in Orders, p \in Products :
               Held(o, p)' = Held(o, p) /\ Taken(o, p)' = Taken(o, p)
    PROVE  ReserveExplained /\ ShelfConserved => GoodsKept
<1> SUFFICES ASSUME ReserveExplained, ShelfConserved PROVE GoodsKept
  OBVIOUS
<1>1. ASSUME NEW p \in Products
      PROVE  /\ [x \in Orders |-> Held(x, p)'] = [x \in Orders |-> Held(x, p)]
             /\ [x \in Orders |-> Taken(x, p)'] = [x \in Orders |-> Taken(x, p)]
  OBVIOUS
<1> QED
  BY <1>1 DEF GoodsKept, ReserveExplained, ShelfConserved, NoOversell

---------------------------------------------------------------------------
(* The goods: one handler at a time *)

Goods == ReserveExplained /\ ShelfConserved

\* shiftStock, for one order: what it adds to a row is what the order gains.
LEMMA GoodsShift ==
    ASSUME TypeInv, TypeInv', Goods, NEW o \in Orders,
           NEW onHand \in [Products -> Int], NEW held \in [Products -> Int],
           stock' = ShiftStock(stock, onHand, held),
           \A x \in Orders \ {o} : order'[x] = order[x],
           UNCHANGED <<back, writtenOff>>,
           \A p \in Products : /\ Held(o, p)' = Held(o, p) + held[p]
                               /\ Taken(o, p)' = Taken(o, p) - onHand[p]
    PROVE  /\ Goods'
           /\ (\A p \in Products : onHand[p] < held[p]
                   => stock[p].available + onHand[p] >= held[p]) => GoodsKept
<1>1. \A p \in Products :
          /\ stock'[p].current = stock[p].current + onHand[p]
          /\ stock'[p].reserved = NonNeg(stock[p].reserved + held[p])
  BY DEF ShiftStock, ShiftRow
<1>2. ASSUME NEW p \in Products
      PROVE  Taken(o, p)' + writtenOff'[p] = (Taken(o, p) + writtenOff[p]) - onHand[p]
  <2>1. Taken(o, p) \in Nat /\ writtenOff[p] \in Nat /\ onHand[p] \in Int
    BY HeldTypes DEF TypeInv, TypeOK, Items
  <2>2. Taken(o, p)' = Taken(o, p) - onHand[p] /\ writtenOff'[p] = writtenOff[p]
    OBVIOUS
  <2> QED
    BY <2>1, <2>2
<1>3. TypeOK /\ TypeOK' /\ RowsConsistent /\ RowsConsistent'
  BY DEF TypeInv
<1>4. ReserveExplained /\ ShelfConserved
  BY DEF Goods
<1>5. \A x \in Orders \ {o} : order'[x] = order[x] /\ back'[x] = back[x]
  OBVIOUS
<1>6. \A p \in Products :
          /\ Held(o, p)' = Held(o, p) + held[p]
          /\ Taken(o, p)' + writtenOff'[p] = (Taken(o, p) + writtenOff[p]) - onHand[p]
  BY <1>2
<1> QED
  BY <1>1, <1>3, <1>4, <1>5, <1>6, GoodsMove DEF Goods

LEMMA TimesIs ==
    ASSUME NEW items \in [Products -> Int], NEW p \in Products
    PROVE  /\ Times(-1, items)[p] = -items[p]
           /\ Times(0, items)[p] = 0
           /\ Times(1, items)[p] = items[p]
BY DEF Times

\* An open order is closed without a delivery, or deleted: what it held is
\* free again.
LEMMA GoodsRelease ==
    ASSUME TypeInv, TypeInv', OrderInv, Goods, NEW o \in Orders,
           HoldsStock(order[o].status), ~order[o].deleted, NEW items \in Items,
           \A p \in Products : items[p] = order[o].qty[p],
           stock' = ReleaseStock(stock, items), UNCHANGED <<back, writtenOff>>,
           NEW status, NEW delivery, NEW courier, NEW deleted,
           Becomes(o, status, delivery, courier, deleted, order[o].qty, order[o].delivered),
           status # "delivered", HoldsStock(status) => deleted
    PROVE  GoodsKept
<1> DEFINE held == Times(-1, items)
<1>1. items \in [Products -> Int] /\ NoItems \in [Products -> Int]
  BY DEF Items, NoItems
<1>2. held \in [Products -> Int]
  BY <1>1, TimesType
<1>3. \A p \in Products : held[p] = -order[o].qty[p] /\ NoItems[p] = 0
  BY <1>1, TimesIs DEF NoItems
<1>4. stock' = ShiftStock(stock, NoItems, held)
  BY DEF ReleaseStock
<1> HIDE DEF held
<1>5. ASSUME NEW p \in Products
      PROVE  /\ Held(o, p)' = Held(o, p) + held[p]
             /\ Taken(o, p)' = Taken(o, p) - NoItems[p]
             /\ ~(NoItems[p] < held[p])
  <2>1. order[o].status \notin ClosedStatuses /\ order[o].status # "delivered"
    BY DEF HoldsStock, OpenStatuses, ClosedStatuses
  <2>2. Held(o, p) = order[o].qty[p] /\ Taken(o, p) = 0 /\ order[o].qty[p] \in Nat
    BY <2>1, LineNow, OpenLine DEF TypeInv
  <2>3. Held(o, p)' = 0 /\ Taken(o, p)' = 0
    BY LineAfter
  <2> QED
    BY <1>3, <2>2, <2>3
<1>6. \A x \in Orders \ {o} : order'[x] = order[x]
  BY DEF Becomes
<1> QED
  BY <1>1, <1>2, <1>4, <1>5, <1>6, GoodsShift

\* An open order is delivered, whole or in part: what was ordered leaves the
\* reserve, what was delivered the shelf.
LEMMA GoodsShip ==
    ASSUME TypeInv, TypeInv', OrderInv, Goods, NEW o \in Orders,
           HoldsStock(order[o].status), ~order[o].deleted, NEW d \in Items,
           \A p \in Products : d[p] <= order[o].qty[p],
           stock' = ShipStock(stock, order[o].qty, d), UNCHANGED <<back, writtenOff>>,
           NEW delivery, NEW courier, NEW lines,
           Becomes(o, "delivered", delivery, courier, order[o].deleted, order[o].qty, lines),
           \A p \in Products : d[p] = IF lines[p] = Null THEN order[o].qty[p] ELSE lines[p]
    PROVE  GoodsKept
<1> DEFINE onHand == Times(-1, d)
           held == Times(-1, order[o].qty)
<1>1. d \in [Products -> Int] /\ order[o].qty \in [Products -> Int]
  BY DEF Items, TypeInv, TypeOK, Order
<1>2. onHand \in [Products -> Int] /\ held \in [Products -> Int]
  BY <1>1, TimesType
<1>3. \A p \in Products : held[p] = -order[o].qty[p] /\ onHand[p] = -d[p]
  BY <1>1, TimesIs
<1>4. stock' = ShiftStock(stock, onHand, held)
  BY DEF ShipStock
<1> HIDE DEF held, onHand
<1>5. ASSUME NEW p \in Products
      PROVE  /\ Held(o, p)' = Held(o, p) + held[p]
             /\ Taken(o, p)' = Taken(o, p) - onHand[p]
             /\ ~(onHand[p] < held[p])
  <2>1. order[o].status \notin ClosedStatuses /\ order[o].status # "delivered"
    BY DEF HoldsStock, OpenStatuses, ClosedStatuses
  <2>2. /\ Held(o, p) = order[o].qty[p] /\ Taken(o, p) = 0 /\ order[o].qty[p] \in Nat
        /\ back[o][p] = 0
    BY <2>1, LineNow, OpenLine DEF TypeInv
  <2>3. /\ Held(o, p)' = 0
        /\ Taken(o, p)' = InPlay(order[o].qty[p], lines[p], back'[o][p])
    <3>1. ~HoldsStock("delivered")
      BY DEF HoldsStock, OpenStatuses
    <3> QED
      BY <3>1, LineAfter
  <2>4. d[p] \in Nat /\ d[p] <= order[o].qty[p]
    BY DEF Items
  <2>5. InPlay(order[o].qty[p], lines[p], back'[o][p]) = d[p]
    BY <2>2, <2>4 DEF InPlay, NonNeg
  <2> QED
    BY <1>3, <2>2, <2>3, <2>4, <2>5
<1>6. \A x \in Orders \ {o} : order'[x] = order[x]
  BY DEF Becomes
<1> QED
  BY <1>2, <1>4, <1>5, <1>6, GoodsShift

\* The counts a partial delivery writes are what was delivered.
LEMMA CountedLines ==
    ASSUME TypeOK, NEW o \in Orders, NEW d \in [Products -> 0..MaxQty],
           \A p \in Products : d[p] <= order[o].qty[p]
    PROVE  /\ d \in Items
           /\ \A p \in Products : d[p] =
                IF [x \in Products |-> IF x \in Lines(o) THEN d[x] ELSE Null][p] = Null
                THEN order[o].qty[p]
                ELSE [x \in Products |-> IF x \in Lines(o) THEN d[x] ELSE Null][p]
<1>1. ASSUME NEW p \in Products
      PROVE  d[p] \in Nat /\ order[o].qty[p] \in Nat
  BY LineNow, ConstantsOK
<1>2. d \in Items
  BY <1>1 DEF Items
<1> QED
  BY <1>1, <1>2 DEF Lines, Null

LEMMA GoodsShipCounted ==
    ASSUME TypeInv, TypeInv', OrderInv, Goods, NEW o \in Orders,
           HoldsStock(order[o].status), ~order[o].deleted,
           NEW d \in [Products -> 0..MaxQty],
           \A p \in Products : d[p] <= order[o].qty[p],
           stock' = ShipStock(stock, order[o].qty, d), UNCHANGED <<back, writtenOff>>,
           Becomes(o, "delivered", "delivered", order[o].courier, order[o].deleted,
                   order[o].qty, [p \in Products |-> IF p \in Lines(o) THEN d[p] ELSE Null])
    PROVE  GoodsKept
<1> DEFINE lines == [p \in Products |-> IF p \in Lines(o) THEN d[p] ELSE Null]
<1>1. /\ d \in Items
      /\ \A p \in Products : d[p] = IF lines[p] = Null THEN order[o].qty[p] ELSE lines[p]
  BY CountedLines DEF TypeInv
<1>2. Becomes(o, "delivered", "delivered", order[o].courier, order[o].deleted,
              order[o].qty, lines)
  OBVIOUS
<1> HIDE DEF lines
<1> QED
  BY <1>1, <1>2, GoodsShip

\* A step that writes neither orders nor rows.
LEMMA GoodsIdle ==
    ASSUME Goods, UNCHANGED <<stock, order, back, writtenOff>>
    PROVE  GoodsKept
<1>1. \A o \in Orders, p \in Products :
          Held(o, p)' = Held(o, p) /\ Taken(o, p)' = Taken(o, p)
  BY DEF Held, Taken, Live, Exists
<1> QED
  BY <1>1, GoodsStay DEF Goods

\* A step that writes one order and no row: what the order holds and has taken
\* depends on the fields it keeps.
LEMMA GoodsSame ==
    ASSUME TypeOK, Goods, NEW o \in Orders, UNCHANGED <<stock, back, writtenOff>>,
           NEW status, NEW delivery, NEW courier, NEW deleted,
           Becomes(o, status, delivery, courier, deleted, order[o].qty, order[o].delivered),
           ~deleted /\ HoldsStock(status)
               <=> ~order[o].deleted /\ HoldsStock(order[o].status),
           status = "delivered" <=> order[o].status = "delivered"
    PROVE  GoodsKept
<1>1. ASSUME NEW x \in Orders, NEW p \in Products
      PROVE  Held(x, p)' = Held(x, p) /\ Taken(x, p)' = Taken(x, p)
  <2>1. CASE x = o
    <3>1. /\ Held(o, p) = IF ~order[o].deleted /\ HoldsStock(order[o].status)
                          THEN InPlay(order[o].qty[p], order[o].delivered[p], back[o][p])
                          ELSE 0
          /\ Taken(o, p) = IF order[o].status = "delivered"
                           THEN InPlay(order[o].qty[p], order[o].delivered[p], back[o][p])
                           ELSE 0
      BY LineNow
    <3>2. /\ Held(o, p)' = IF ~deleted /\ HoldsStock(status)
                           THEN InPlay(order[o].qty[p], order[o].delivered[p], back'[o][p])
                           ELSE 0
          /\ Taken(o, p)' = IF status = "delivered"
                            THEN InPlay(order[o].qty[p], order[o].delivered[p], back'[o][p])
                            ELSE 0
      BY LineAfter
    <3>3. back'[o][p] = back[o][p]
      OBVIOUS
    <3> QED
      BY <2>1, <3>1, <3>2, <3>3
  <2>2. CASE x # o
    <3>1. order'[x] = order[x] /\ back'[x] = back[x]
      BY <2>2 DEF Becomes
    <3> QED
      BY <3>1 DEF Held, Taken, Live, Exists
  <2> QED
    BY <2>1, <2>2
<1> QED
  BY <1>1, GoodsStay DEF Goods

\* An order takes a reserve it did not have, against the locked rows.
LEMMA GoodsReserve ==
    ASSUME TypeInv, TypeInv', Goods, NEW o \in Orders, NEW items \in Items,
           Enough(items), stock' = ReserveStock(stock, items),
           UNCHANGED <<back, writtenOff>>,
           NEW status, NEW delivery, NEW courier, NEW deleted, NEW qty, NEW lines,
           Becomes(o, status, delivery, courier, deleted, qty, lines),
           HoldsStock(status), ~deleted,
           \A p \in Products : items[p] = InPlay(qty[p], lines[p], back[o][p]),
           \A p \in Products : Held(o, p) = 0 /\ Taken(o, p) = 0
    PROVE  GoodsKept
<1>1. items \in [Products -> Int] /\ NoItems \in [Products -> Int]
  BY DEF Items, NoItems
<1>2. stock' = ShiftStock(stock, NoItems, items)
  BY DEF ReserveStock
<1>3. ASSUME NEW p \in Products
      PROVE  /\ Held(o, p)' = Held(o, p) + items[p]
             /\ Taken(o, p)' = Taken(o, p) - NoItems[p]
             /\ NoItems[p] < items[p] => stock[p].available + NoItems[p] >= items[p]
  <2>1. status # "delivered"
    BY DEF HoldsStock, OpenStatuses
  <2>2. /\ Held(o, p)' = InPlay(qty[p], lines[p], back'[o][p])
        /\ Taken(o, p)' = 0
    BY <2>1, LineAfter
  <2>3. Held(o, p)' = items[p]
    BY <2>2
  <2>4. Held(o, p) = 0 /\ Taken(o, p) = 0 /\ NoItems[p] = 0 /\ items[p] \in Nat
    BY DEF NoItems, Items
  <2>5. /\ stock[p].available \in Int
        /\ items[p] > 0 => stock[p].available >= items[p]
    BY DEF Enough, TypeInv, TypeOK, Rows, Row
  <2> QED
    BY <2>2, <2>3, <2>4, <2>5
<1>4. \A x \in Orders \ {o} : order'[x] = order[x]
  BY DEF Becomes
<1> QED
  BY <1>1, <1>2, <1>3, <1>4, GoodsShift

\* The shift of one unit between two statuses.
LEMMA ShiftIs ==
    ASSUME NEW from, NEW to
    PROVE  /\ StatusShift(from, to).held
                = (IF HoldsStock(to) THEN 1 ELSE 0) - (IF HoldsStock(from) THEN 1 ELSE 0)
           /\ StatusShift(from, to).onHand
                = (IF from = "delivered" THEN 1 ELSE 0) - (IF to = "delivered" THEN 1 ELSE 0)
BY DEF StatusShift, StockEffect, DeductsStock

\* A change of status moves what the order has in play, and what it has in
\* play stays the same: a reopening clears only counts that were complete.
LEMMA GoodsStatus ==
    ASSUME TypeInv, TypeInv', OrderInv, FactsInv, Goods, NEW o \in Orders, StatusCommit(o)
    PROVE  GoodsKept
<1> DEFINE from == order[o].status
           to == tx[o].to
           Q == HeldQuantity(order[o], back[o])
           s == StatusShift(from, to)
           onHand == Times(s.onHand, Q)
           held == Times(s.held, Q)
           reopen == IsReopen(from, to)
           lines == IF reopen THEN NotCounted ELSE order[o].delivered
<1> USE DEF TypeInv
<1>1. /\ tx[o].kind = "status" /\ tx[o].gone = back[o]
      /\ reopen => back[o] = NoItems /\ ~PartlyDelivered(order[o])
      /\ ~order[o].deleted
  BY DEF StatusCommit, OrderInv, SnapshotHolds, FactsInv, TxOrder, Free, Live
<1>2. /\ stock' = ShiftStock(stock, onHand, held)
      /\ ~Short(stock, order[o], back[o], s)
      /\ UNCHANGED <<back, writtenOff>>
  BY <1>1 DEF StatusCommit, ApplyStockEffect
<1>3. Becomes(o, to,
         IF reopen THEN "not_assigned"
         ELSE IF to = "delivered" THEN "delivered" ELSE order[o].delivery,
         IF reopen THEN NoCourier ELSE order[o].courier,
         order[o].deleted, order[o].qty, lines)
  BY OfficeEffects
<1>4. /\ s.held = (IF HoldsStock(to) THEN 1 ELSE 0) - (IF HoldsStock(from) THEN 1 ELSE 0)
      /\ s.onHand = (IF from = "delivered" THEN 1 ELSE 0)
                     - (IF to = "delivered" THEN 1 ELSE 0)
      /\ s.held \in {-1, 0, 1} /\ s.onHand \in {-1, 0, 1}
  BY ShiftIs
<1>5. Q \in [Products -> Int] /\ \A p \in Products : Q[p] \in Nat
  BY HeldQuantityType DEF TypeOK, Items
<1>6. onHand \in [Products -> Int] /\ held \in [Products -> Int]
  BY <1>4, <1>5, TimesType
<1>7. ASSUME NEW p \in Products
      PROVE  /\ held[p] = IF s.held = 1 THEN Q[p] ELSE IF s.held = -1 THEN -Q[p] ELSE 0
             /\ onHand[p] = IF s.onHand = 1 THEN Q[p] ELSE IF s.onHand = -1 THEN -Q[p] ELSE 0
  BY <1>4, <1>5, TimesIs
<1>8. ASSUME NEW p \in Products
      PROVE  /\ Held(o, p) = IF HoldsStock(from) THEN Q[p] ELSE 0
             /\ Taken(o, p) = IF from = "delivered" THEN Q[p] ELSE 0
             /\ Q[p] = InPlay(order[o].qty[p], order[o].delivered[p], back[o][p])
  BY <1>1, LineNow
<1>9. ASSUME NEW p \in Products
      PROVE  InPlay(order[o].qty[p], lines[p], back'[o][p]) = Q[p]
  <2>1. CASE reopen
    <3>1. /\ lines[p] = Null /\ back'[o][p] = 0 /\ back[o][p] = 0
      BY <1>1, <1>2, <2>1 DEF NotCounted, NoItems
    <3>2. /\ order[o].qty[p] \in Nat /\ order[o].delivered[p] \in Nat \cup {Null}
          /\ order[o].delivered[p] # Null => order[o].delivered[p] <= order[o].qty[p]
      BY LineNow DEF FactsInv, CountsWithin
    <3>3. ~(order[o].delivered[p] # Null /\ order[o].delivered[p] < order[o].qty[p])
      BY <1>1, <2>1 DEF PartlyDelivered
    <3>4. order[o].delivered[p] = Null \/ order[o].delivered[p] = order[o].qty[p]
      BY <3>2, <3>3
    <3> QED
      BY <1>8, <3>1, <3>4 DEF InPlay
  <2>2. CASE ~reopen
    BY <1>2, <1>8, <2>2
  <2> QED
    BY <2>1, <2>2
<1>10. ASSUME NEW p \in Products
       PROVE  /\ Held(o, p)' = IF HoldsStock(to) THEN Q[p] ELSE 0
              /\ Taken(o, p)' = IF to = "delivered" THEN Q[p] ELSE 0
  BY <1>1, <1>3, <1>9, LineAfter
\* A line without quantity has nothing in play.
<1>11. ASSUME NEW p \in Products, s.onHand < s.held
       PROVE  stock[p].available + (s.onHand - s.held) * Q[p] >= 0 \/ Q[p] = 0
  <2>a. stock[p].available \in Int /\ s.onHand \in Int /\ s.held \in Int /\ Q[p] \in Int
    BY <1>4, <1>5 DEF TypeOK, Rows, Row
  <2>1. CASE order[o].qty[p] > 0
    <3> HIDE DEF s
    <3>1. ~(stock[p].available + (s.onHand - s.held) * Q[p] < 0)
      BY <1>2, <1>11, <2>1, Zenon DEF Short
    <3> HIDE DEF Q
    <3>2. (s.onHand - s.held) * Q[p] \in Int
      BY <2>a
    <3> QED
      BY <2>a, <3>1, <3>2
  <2>2. CASE ~(order[o].qty[p] > 0)
    <3>1. /\ order[o].qty[p] = 0 /\ back[o][p] \in Nat
          /\ order[o].delivered[p] \in {0, Null}
      BY <2>2, LineNow DEF FactsInv, CountsWithin
    <3> QED
      BY <1>8, <3>1 DEF InPlay, NonNeg
  <2> QED
    BY <2>1, <2>2
<1>12. \A x \in Orders \ {o} : order'[x] = order[x]
  BY <1>3 DEF Becomes
<1>13. \A p \in Products : stock[p].available \in Int
  BY DEF TypeOK, Rows, Row
<1> HIDE DEF from, to, Q, s, onHand, held, reopen, lines
<1>14. ASSUME NEW p \in Products
       PROVE  /\ Held(o, p)' = Held(o, p) + held[p]
              /\ Taken(o, p)' = Taken(o, p) - onHand[p]
  BY <1>4, <1>5, <1>7, <1>8, <1>10 DEF HoldsStock, OpenStatuses
<1>15. ASSUME NEW p \in Products, onHand[p] < held[p]
       PROVE  stock[p].available + onHand[p] >= held[p]
  <2>1. Q[p] \in Nat /\ Q[p] # 0 /\ s.onHand < s.held
    BY <1>4, <1>5, <1>7, <1>15
  <2>2. stock[p].available + (s.onHand - s.held) * Q[p] >= 0
    BY <1>11, <2>1
  <2>3. s.onHand - s.held \in {-1, -2}
    BY <1>4, <2>1
  <2>4. (s.onHand - s.held) * Q[p] = onHand[p] - held[p]
    BY <1>4, <1>7, <2>1, <2>3
  <2> QED
    BY <1>6, <1>13, <2>2, <2>4
<1> QED
  BY <1>2, <1>6, <1>12, <1>14, <1>15, GoodsShift

\* updateItems moves the reserve of an open order, the shelf of a delivered one,
\* by the change of the line.  It is checked against a snapshot, so nothing is
\* said of the free stock.
LEMMA GoodsEdit ==
    ASSUME TypeInv, TypeInv', OrderInv, FactsInv, Goods, NEW o \in Orders, EditCommit(o),
           \A p \in Products : back[o][p] = 0
    PROVE  Goods'
<1> DEFINE delta == [p \in Products |-> tx[o].goal[p] - order[o].qty[p]]
           e == StockEffect(order[o].status)
           onHand == Times(e.current, delta)
           held == Times(e.reserved, delta)
<1> USE DEF TypeInv
<1>1. /\ \A p \in Products : order[o].delivered[p] = Null
      /\ ~order[o].deleted
  BY DEF EditCommit, FactsInv, TxOrder, Free, Live
<1>2. stock' = ShiftStock(stock, onHand, held) /\ UNCHANGED <<back, writtenOff>>
  BY DEF EditCommit
<1>3. Becomes(o, order[o].status, order[o].delivery, order[o].courier,
              order[o].deleted, tx[o].goal, order[o].delivered)
  BY OfficeEffects
<1>4. /\ e.reserved = IF HoldsStock(order[o].status) THEN 1 ELSE 0
      /\ e.current = IF order[o].status = "delivered" THEN -1 ELSE 0
  BY DEF StockEffect, DeductsStock
<1>5. ASSUME NEW p \in Products
      PROVE  /\ tx[o].goal[p] \in Nat /\ order[o].qty[p] \in Nat
             /\ delta[p] = tx[o].goal[p] - order[o].qty[p]
  BY DEF TypeOK, Tx, Order, Items
<1>6. delta \in [Products -> Int]
  BY <1>5
<1>7. onHand \in [Products -> Int] /\ held \in [Products -> Int]
  BY <1>4, <1>6, TimesType
<1>8. ASSUME NEW p \in Products
      PROVE  /\ held[p] = IF HoldsStock(order[o].status) THEN delta[p] ELSE 0
             /\ onHand[p] = IF order[o].status = "delivered" THEN -delta[p] ELSE 0
  BY <1>4, <1>6, TimesIs
<1>9. ASSUME NEW p \in Products
      PROVE  /\ Held(o, p) = IF HoldsStock(order[o].status) THEN order[o].qty[p] ELSE 0
             /\ Taken(o, p) = IF order[o].status = "delivered" THEN order[o].qty[p] ELSE 0
  BY <1>1, <1>5, LineNow DEF InPlay, NonNeg
<1>10. ASSUME NEW p \in Products
       PROVE  /\ Held(o, p)' = IF HoldsStock(order[o].status) THEN tx[o].goal[p] ELSE 0
              /\ Taken(o, p)' = IF order[o].status = "delivered" THEN tx[o].goal[p] ELSE 0
  <2>1. InPlay(tx[o].goal[p], order[o].delivered[p], back'[o][p]) = tx[o].goal[p]
    BY <1>1, <1>2, <1>5 DEF InPlay, NonNeg
  <2> QED
    BY <1>1, <1>3, <2>1, LineAfter
<1>11. \A x \in Orders \ {o} : order'[x] = order[x]
  BY <1>3 DEF Becomes
<1> HIDE DEF delta, e, onHand, held
<1>12. ASSUME NEW p \in Products
       PROVE  /\ Held(o, p)' = Held(o, p) + held[p]
              /\ Taken(o, p)' = Taken(o, p) - onHand[p]
  BY <1>5, <1>8, <1>9, <1>10
<1> QED
  BY <1>2, <1>7, <1>11, <1>12, GoodsShift

LEMMA OfficeGoods ==
    ASSUME ReturnsSafe, TypeInv, TypeInv', OrderInv, FactsInv, ReturnInv, Goods,
           NEW o \in Orders, OfficeNext(o)
    PROVE  Goods' /\ ("edit" \notin Ops => GoodsKept)
<1> USE DEF TypeInv
<1>a. GoodsKept => Goods'
  BY DEF GoodsKept, Goods
<1>b. /\ order[o] \in Order /\ back[o] \in Items
      /\ HeldQuantity(order[o], back[o]) \in Items
      /\ order[o].qty \in Items
  BY HeldQuantityType DEF TypeOK, Order
<1>c. ASSUME HoldsStock(order[o].status), NEW p \in Products
      PROVE  /\ HeldQuantity(order[o], back[o])[p] = order[o].qty[p]
             /\ order[o].delivered[p] = Null
  BY <1>c, LineNow, OpenLine DEF HoldsStock, OpenStatuses, ClosedStatuses
<1>d. Live(o) => ~order[o].deleted
  BY DEF Live
<1>0. ASSUME UNCHANGED <<stock, order, back, writtenOff>> PROVE GoodsKept
  BY <1>0, GoodsIdle
<1>1. ASSUME NEW items \in SomeItems, NEW status \in {"new", "pending"},
             Create(o, items, status)
      PROVE  GoodsKept
  <2>1. Becomes(o, status, "not_assigned", NoCourier, FALSE, items, NotCounted)
    BY <1>1, OfficeEffects
  <2>2. /\ order[o].status = "none" /\ Enough(items)
        /\ stock' = ReserveStock(stock, items) /\ UNCHANGED <<back, writtenOff>>
    BY <1>1 DEF Create, Exists
  <2>3. items \in Items /\ HoldsStock(status)
    BY DEF SomeItems, Items, HoldsStock, OpenStatuses
  <2>4. ASSUME NEW p \in Products
        PROVE  /\ items[p] = InPlay(items[p], NotCounted[p], back[o][p])
               /\ Held(o, p) = 0 /\ Taken(o, p) = 0
    <3>1. back[o][p] = 0 /\ items[p] \in Nat
      BY <2>2, <2>3, OpenLine DEF ClosedStatuses, Items
    <3>2. ~HoldsStock(order[o].status) /\ order[o].status # "delivered"
      BY <2>2 DEF HoldsStock, OpenStatuses
    <3> QED
      BY <3>1, <3>2, LineNow DEF InPlay, NonNeg, NotCounted
  <2> DEFINE gone == order'[o].deleted
  <2>5. Becomes(o, status, "not_assigned", NoCourier, gone, items, NotCounted) /\ ~gone
    BY <2>1 DEF Becomes
  <2> HIDE DEF gone
  <2> QED
    BY <2>2, <2>3, <2>4, <2>5, GoodsReserve
<1>2. ASSUME Cancel(o) PROVE GoodsKept
  <2>1. Becomes(o, "cancelled", order[o].delivery, order[o].courier,
                order[o].deleted, order[o].qty, order[o].delivered)
    BY <1>2, OfficeEffects
  <2>2. /\ HoldsStock(order[o].status) /\ ~HoldsStock("cancelled")
        /\ stock' = ReleaseStock(stock, HeldQuantity(order[o], back[o]))
        /\ ~order[o].deleted /\ UNCHANGED <<back, writtenOff>>
    BY <1>2, <1>d DEF Cancel, HoldsStock, OpenStatuses
  <2> QED
    BY <1>b, <1>c, <2>1, <2>2, GoodsRelease
<1>3. ASSUME StatusCommit(o) PROVE GoodsKept
  BY <1>3, GoodsStatus
<1>4. ASSUME DeleteOrder(o) PROVE GoodsKept
  <2>1. Becomes(o, order[o].status, order[o].delivery, order[o].courier,
                TRUE, order[o].qty, order[o].delivered)
    BY <1>4, OfficeEffects
  <2>2. ~order[o].deleted /\ UNCHANGED <<back, writtenOff>>
    BY <1>4, <1>d DEF DeleteOrder
  <2>3. CASE HoldsStock(order[o].status)
    <3>1. stock' = ReleaseStock(stock, HeldQuantity(order[o], back[o]))
      BY <1>4, <2>3 DEF DeleteOrder
    <3>2. order[o].status # "delivered"
      BY <2>3 DEF HoldsStock, OpenStatuses
    <3> QED
      BY <1>b, <1>c, <2>1, <2>2, <2>3, <3>1, <3>2, GoodsRelease
  <2>4. CASE ~HoldsStock(order[o].status)
    BY <1>4, <2>1, <2>2, <2>4, GoodsSame DEF DeleteOrder
  <2> QED
    BY <2>3, <2>4
<1>5. ASSUME Restore(o) PROVE GoodsKept
  <2>1. Becomes(o, order[o].status, order[o].delivery, order[o].courier,
                FALSE, order[o].qty, order[o].delivered)
    BY <1>5, OfficeEffects
  <2>2. order[o].deleted /\ UNCHANGED <<back, writtenOff>>
    BY <1>5 DEF Restore
  <2>3. CASE HoldsStock(order[o].status)
    <3>1. /\ stock' = ReserveStock(stock, HeldQuantity(order[o], back[o]))
          /\ Enough(HeldQuantity(order[o], back[o]))
      BY <1>5, <2>3 DEF Restore
    <3>2. ASSUME NEW p \in Products
          PROVE  /\ HeldQuantity(order[o], back[o])[p]
                      = InPlay(order[o].qty[p], order[o].delivered[p], back[o][p])
                 /\ Held(o, p) = 0 /\ Taken(o, p) = 0
      <4>1. order[o].status # "delivered"
        BY <2>3 DEF HoldsStock, OpenStatuses
      <4> QED
        BY <2>2, <4>1, LineNow
    <3> DEFINE gone == order'[o].deleted
    <3>3. /\ Becomes(o, order[o].status, order[o].delivery, order[o].courier,
                     gone, order[o].qty, order[o].delivered)
          /\ ~gone
      BY <2>1 DEF Becomes
    <3> HIDE DEF gone
    <3> QED
      BY <1>b, <2>2, <2>3, <3>1, <3>2, <3>3, GoodsReserve
  <2>4. CASE ~HoldsStock(order[o].status)
    BY <1>5, <2>1, <2>2, <2>4, GoodsSame DEF Restore
  <2> QED
    BY <2>3, <2>4
<1>6. ASSUME "edit" \in Ops, EditCommit(o) PROVE Goods'
  <2>1. \A p \in Products : back[o][p] = 0
    <3>1. Returns = {}
      BY <1>6 DEF ReturnsSafe
    <3> QED
      BY <3>1, ClaimTypes DEF ReturnInv
  <2> QED
    BY <1>6, <2>1, GoodsEdit
<1>7. ASSUME NEW d \in [Products -> 0..MaxQty], PartialDelivery(o, d)
      PROVE  GoodsKept
  <2>1. Becomes(o, "delivered", "delivered", order[o].courier, order[o].deleted,
                order[o].qty, [p \in Products |-> IF p \in Lines(o) THEN d[p] ELSE Null])
    BY <1>7, OfficeEffects
  <2>2. /\ order[o].status \in OpenStatuses /\ ~order[o].deleted
        /\ \A p \in Products : d[p] <= order[o].qty[p]
        /\ stock' = ShipStock(stock, order[o].qty, d) /\ UNCHANGED <<back, writtenOff>>
    BY <1>7, <1>b, <1>d DEF PartialDelivery, Live, Exists, Order
  <2>3. HoldsStock(order[o].status)
    BY <2>2 DEF HoldsStock
  <2> QED
    BY <2>1, <2>2, <2>3, GoodsShipCounted
<1>8. ASSUME \/ \E to \in Statuses : StatusBegin(o, to)
             \/ \E goal \in SomeItems : EditBegin(o, goal)
             \/ AbortTx(o)
      PROVE  GoodsKept
  BY <1>8, <1>0 DEF StatusBegin, EditBegin, AbortTx
<1> QED
  BY <1>a, <1>1, <1>2, <1>3, <1>4, <1>5, <1>6, <1>7, <1>8 DEF OfficeNext

\* What a call finds when it ends the delivery of an order.
LEMMA EndingFindsOpen ==
    ASSUME TypeOK, FactsInv, CourierInv, NEW q \in Requests, NEW o \in Orders,
           req[q].order = o, req[q].op \in {"deliver", "complete"},
           order[o].delivery \in OnTheWay,
           req[q].op = "complete" => ~order[o].deleted
    PROVE  HoldsStock(order[o].status) /\ ~order[o].deleted
<1>1. req[q].op \in Ops /\ Exists(o)
  BY DEF FactsInv, CallsKnown
<1>2. CourierOK(o) /\ q \in Ending(o)
  BY <1>1 DEF CourierInv, Ending
<1>3. order[o].status \notin ClosedStatuses /\ ~order[o].deleted
  BY <1>1, <1>2 DEF CourierOK
<1>4. order[o].status \in {"none"} \cup OpenStatuses \cup ClosedStatuses
  BY DEF TypeOK, Order
<1> QED
  BY <1>1, <1>3, <1>4 DEF HoldsStock, Exists

LEMMA CourierGoods ==
    ASSUME TypeInv, TypeInv', OrderInv, FactsInv, CourierInv, Goods, CourierNext
    PROVE  GoodsKept
<1> USE DEF TypeInv
<1>a. ASSUME NEW q \in Requests PROVE req[q].order \in Orders
  BY DEF TypeOK, Request
<1>b. ASSUME NEW o \in Orders
      PROVE  /\ order[o].qty \in Items
             /\ \A p \in Products : order[o].qty[p] <= order[o].qty[p]
             /\ HoldsStock(order[o].status) =>
                  \A p \in Products : order[o].qty[p] =
                     IF order[o].delivered[p] = Null THEN order[o].qty[p]
                                                     ELSE order[o].delivered[p]
  <2>1. \A p \in Products : order[o].qty[p] \in Nat
    BY LineNow
  <2>2. HoldsStock(order[o].status) => \A p \in Products : order[o].delivered[p] = Null
    BY OpenLine DEF HoldsStock, OpenStatuses, ClosedStatuses
  <2> QED
    BY <2>1, <2>2 DEF TypeOK, Order
<1>0. ASSUME UNCHANGED <<stock, order, back, writtenOff>> PROVE GoodsKept
  BY <1>0, GoodsIdle
<1>1. ASSUME NEW o \in Orders, NEW c, BulkAssign(o, c) PROVE GoodsKept
  <2>1. Becomes(o, order[o].status, "assigned", c, order[o].deleted,
                order[o].qty, order[o].delivered)
    BY <1>1, CourierEffects
  <2>2. UNCHANGED <<stock, back, writtenOff>>
    BY <1>1 DEF BulkAssign
  <2> QED
    BY <2>1, <2>2, GoodsSame
<1>2. ASSUME NEW o \in Orders, NEW c, MarkFailed(o, c) PROVE GoodsKept
  <2>1. Becomes(o, "new", "failed", NoCourier, order[o].deleted,
                order[o].qty, order[o].delivered)
    BY <1>2, CourierEffects
  <2>2. UNCHANGED <<stock, back, writtenOff>>
    BY <1>2 DEF MarkFailed
  <2>3. /\ HoldsStock("new") /\ HoldsStock(order[o].status)
        /\ order[o].status # "delivered"
    BY <1>2 DEF MarkFailed, HoldsStock, OpenStatuses, ClosedStatuses, Exists, TypeOK, Order
  <2> DEFINE gone == order[o].deleted
  <2>4. /\ Becomes(o, "new", "failed", NoCourier, gone, order[o].qty, order[o].delivered)
        /\ ~gone /\ HoldsStock("new") <=> ~order[o].deleted /\ HoldsStock(order[o].status)
    BY <2>1, <2>3
  <2> HIDE DEF gone
  <2> QED
    BY <2>2, <2>3, <2>4, GoodsSame
<1>3. ASSUME NEW q \in Requests, NEW o \in Orders, req[q].order = o, AssignCommit(q)
      PROVE  GoodsKept
  <2>1. Becomes(o, order[o].status, "assigned", req[q].courier, order[o].deleted,
                order[o].qty, order[o].delivered)
    BY <1>3, CourierEffects
  <2>2. UNCHANGED <<stock, back, writtenOff>>
    BY <1>3 DEF AssignCommit
  <2> DEFINE c == req[q].courier
  <2>3. Becomes(o, order[o].status, "assigned", c, order[o].deleted,
                order[o].qty, order[o].delivered)
    BY <2>1
  <2> HIDE DEF c
  <2> QED
    BY <2>2, <2>3, GoodsSame
<1>4. ASSUME NEW q \in Requests, NEW o \in Orders, req[q].order = o, OutCommit(q)
      PROVE  GoodsKept
  <2>1. Becomes(o, order[o].status, "out_for_delivery", order[o].courier,
                order[o].deleted, order[o].qty, order[o].delivered)
    BY <1>4, CourierEffects
  <2>2. UNCHANGED <<stock, back, writtenOff>>
    BY <1>4 DEF OutCommit
  <2> QED
    BY <2>1, <2>2, GoodsSame
<1>5. ASSUME NEW q \in Requests, NEW o \in Orders, req[q].order = o,
             DeliverCommit(q) \/ CompleteWhole(q)
      PROVE  GoodsKept
  <2>1. Becomes(o, "delivered", "delivered", order[o].courier,
                order[o].deleted, order[o].qty, order[o].delivered)
    BY <1>5, CourierEffects
  <2>2. /\ req[q].op \in {"deliver", "complete"} /\ order[o].delivery \in OnTheWay
        /\ req[q].op = "complete" => ~order[o].deleted
        /\ stock' = ShipStock(stock, order[o].qty, order[o].qty)
        /\ UNCHANGED <<back, writtenOff>>
    BY <1>5 DEF DeliverCommit, CompleteWhole, CompleteGuard
  <2>3. HoldsStock(order[o].status) /\ ~order[o].deleted
    BY <1>5, <2>2, EndingFindsOpen
  <2> QED
    BY <1>b, <2>1, <2>2, <2>3, GoodsShip
<1>6. ASSUME NEW q \in Requests, NEW o \in Orders, req[q].order = o, CompleteReturned(q)
      PROVE  GoodsKept
  <2>1. Becomes(o, "returned", "delivered", order[o].courier,
                order[o].deleted, order[o].qty, order[o].delivered)
    BY <1>6, CourierEffects
  <2>2. /\ req[q].op = "complete" /\ order[o].delivery \in OnTheWay /\ ~order[o].deleted
        /\ stock' = ReleaseStock(stock, order[o].qty)
        /\ UNCHANGED <<back, writtenOff>>
    BY <1>6 DEF CompleteReturned, CompleteGuard
  <2>3. HoldsStock(order[o].status) /\ ~HoldsStock("returned")
    BY <1>6, <2>2, EndingFindsOpen DEF HoldsStock, OpenStatuses
  <2> QED
    BY <1>b, <2>1, <2>2, <2>3, GoodsRelease
<1>7. ASSUME NEW q \in Requests, NEW o \in Orders, req[q].order = o,
             NEW d \in [Products -> 0..MaxQty], CompletePartly(q, d)
      PROVE  GoodsKept
  <2>1. Becomes(o, "delivered", "delivered", order[o].courier, order[o].deleted,
                order[o].qty, [p \in Products |-> IF p \in Lines(o) THEN d[p] ELSE Null])
    BY <1>7, CourierEffects
  <2>2. /\ req[q].op = "complete" /\ order[o].delivery \in OnTheWay /\ ~order[o].deleted
        /\ \A p \in Products : d[p] <= order[o].qty[p]
        /\ stock' = ShipStock(stock, order[o].qty, d)
        /\ UNCHANGED <<back, writtenOff>>
    BY <1>7 DEF CompletePartly, CompleteGuard
  <2>3. HoldsStock(order[o].status)
    BY <1>7, <2>2, EndingFindsOpen
  <2> QED
    BY <2>1, <2>2, <2>3, GoodsShipCounted
<1>8. ASSUME \/ \E q \in Requests : DropRequest(q)
             \/ \E q \in Requests, o \in Orders, c \in Couriers :
                  \E op \in {"assign", "out", "deliver", "complete"} :
                     Check(q, op, o, c)
      PROVE  GoodsKept
  BY <1>8, <1>0 DEF DropRequest, Check
<1> QED
  BY <1>a, <1>1, <1>2, <1>3, <1>4, <1>5, <1>6, <1>7, <1>8 DEF CourierNext

\* Completing a return takes the goods from what the order had taken: there is
\* enough of them, because no more is claimed than was delivered.
LEMMA ReturnGoods ==
    ASSUME TypeInv, TypeInv', FactsInv, ReturnInv, ReturnInv', Goods,
           NEW r \in Returns, ReturnNext(r)
    PROVE  GoodsKept
<1> USE DEF TypeInv
<1>a. /\ ret[r].order \in Orders /\ ret[r].qty \in Items
      /\ ret[r].qty \in [Products -> Int] /\ NoItems \in [Products -> Int]
  BY DEF TypeOK, Return, Items, NoItems
<1>b. (TypeOK /\ ReturnInv =>
         \A o \in Orders, p \in Products : back[o][p] <= Shipped(order[o])[p])'
  BY BackWithin, PTL
<1>1. ASSUME UNCHANGED <<stock, order, back, writtenOff>> PROVE GoodsKept
  BY <1>1, GoodsIdle
<1>2. ASSUME NEW disposition \in {"restock", "write_off"},
             ReturnCompleteCommit(r, disposition), NEW o \in Orders, o = ret[r].order
      PROVE  GoodsKept
  <2> DEFINE n == ret[r].qty
             onHand == IF disposition = "restock" THEN n ELSE NoItems
  <2>1. /\ order[o].status = "delivered" /\ UNCHANGED order
        /\ \A x \in Orders \ {o} : back'[x] = back[x]
        /\ \A p \in Products : back'[o][p] = back[o][p] + n[p]
    BY <1>2, <1>a DEF ReturnCompleteCommit, FactsInv, CompletingIsDelivered, TypeOK
  <2>2. onHand \in [Products -> Int]
    BY <1>a
  <2>3. ASSUME NEW p \in Products
        PROVE  /\ stock'[p].current = stock[p].current + onHand[p]
               /\ stock'[p].reserved = NonNeg(stock[p].reserved + NoItems[p])
               /\ writtenOff'[p] = (writtenOff[p] + n[p]) - onHand[p]
               /\ n[p] \in Nat /\ onHand[p] \in Nat
    <3>1. /\ n[p] \in Nat /\ NoItems[p] = 0 /\ writtenOff[p] \in Nat
          /\ stock[p].current \in Int /\ stock[p].reserved \in Int /\ stock[p].reserved >= 0
      BY <1>a DEF Items, NoItems, TypeOK, Rows, Row, RowsConsistent, RowConsistent
    <3>2. CASE disposition = "restock"
      <4>1. stock' = ShiftStock(stock, n, NoItems) /\ UNCHANGED writtenOff
        BY <1>2, <3>2 DEF ReturnCompleteCommit, ReceiveStock
      <4> QED
        BY <3>1, <3>2, <4>1 DEF ShiftStock, ShiftRow
    <3>3. CASE disposition = "write_off"
      <4>1. /\ UNCHANGED stock
            /\ writtenOff'[p] = writtenOff[p] + n[p]
        BY <1>2, <3>3 DEF ReturnCompleteCommit
      <4> QED
        BY <3>1, <3>3, <4>1 DEF NonNeg
    <3> QED
      BY <3>2, <3>3
  <2>4. ASSUME NEW p \in Products
        PROVE  /\ Held(o, p)' = Held(o, p) + NoItems[p]
               /\ Taken(o, p)' + writtenOff'[p] = (Taken(o, p) + writtenOff[p]) - onHand[p]
    <3> DEFINE q == order[o].qty[p]
               d == order[o].delivered[p]
               b == back[o][p]
    <3>1. /\ q \in Nat /\ d \in Nat \cup {Null} /\ b \in Nat /\ writtenOff[p] \in Nat
          /\ Held(o, p) = 0 /\ Taken(o, p) = InPlay(q, d, b)
      <4>1. ~HoldsStock(order[o].status)
        BY <2>1 DEF HoldsStock, OpenStatuses
      <4> QED
        BY <2>1, <4>1, LineNow
    <3>2. Held(o, p)' = 0 /\ Taken(o, p)' = InPlay(q, d, b + n[p])
      <4>1. Becomes(o, "delivered", order[o].delivery, order[o].courier,
                    order[o].deleted, order[o].qty, order[o].delivered)
        BY <2>1 DEF Becomes
      <4>2. ~HoldsStock("delivered")
        BY DEF HoldsStock, OpenStatuses
      <4>3. Held(o, p)' = 0 /\ Taken(o, p)' = InPlay(q, d, back'[o][p])
        BY <4>1, <4>2, LineAfter
      <4> QED
        BY <2>1, <4>3
    <3>3. b + n[p] <= IF d = Null THEN q ELSE d
      <4>1. back'[o][p] <= Shipped(order[o])[p]
        BY <1>b, <2>1
      <4> QED
        BY <2>1, <4>1 DEF Shipped
    <3>4. /\ n[p] \in Nat /\ onHand[p] \in Nat /\ NoItems[p] = 0
          /\ writtenOff'[p] = (writtenOff[p] + n[p]) - onHand[p]
      BY <2>3 DEF NoItems
    <3> HIDE DEF q, d, b, onHand, n
    <3>5. InPlay(q, d, b + n[p]) = InPlay(q, d, b) - n[p] /\ InPlay(q, d, b) \in Nat
      BY <3>1, <3>3, <3>4 DEF InPlay, NonNeg, Null
    <3> QED
      BY <3>1, <3>2, <3>4, <3>5
  <2>5. \A p \in Products : ~(onHand[p] < NoItems[p])
    BY <2>3 DEF NoItems
  <2>6. \A x \in Orders \ {o} : order'[x] = order[x] /\ back'[x] = back[x]
    BY <2>1
  <2> HIDE DEF onHand, n
  <2>7. \A p \in Products : /\ stock'[p].current = stock[p].current + onHand[p]
                            /\ stock'[p].reserved = NonNeg(stock[p].reserved + NoItems[p])
    BY <2>3
  <2> QED
    BY <1>a, <2>2, <2>4, <2>5, <2>6, <2>7, GoodsMove DEF Goods
<1> QED
  BY <1>a, <1>1, <1>2
     DEF ReturnNext, ReturnCheck, ReturnInsert, ReturnApprove, ReturnReject,
         ReturnCompleteBegin, ReturnAbort

LEMMA InitGoods == Init => Goods /\ NoOversell
<1> SUFFICES ASSUME Init PROVE Goods /\ NoOversell
  OBVIOUS
<1>1. ASSUME NEW p \in Products
      PROVE  /\ stock[p].reserved = SumFunctionOnSet([o \in Orders |-> Held(o, p)], Orders)
             /\ stock[p].current + SumFunctionOnSet([o \in Orders |-> Taken(o, p)], Orders)
                   + writtenOff[p] = InitialStock
             /\ stock[p].available >= 0
  <2> DEFINE h == [o \in Orders |-> Held(o, p)]
             t == [o \in Orders |-> Taken(o, p)]
  <2>1. \A o \in Orders : h[o] = 0 /\ t[o] = 0
    BY DEF Init, Held, Taken, Live, Exists, NoOrder, DeductsStock
  <2>2. /\ stock[p].current = InitialStock /\ stock[p].reserved = 0
        /\ stock[p].available = InitialStock /\ writtenOff[p] = 0 /\ InitialStock \in Nat
    BY ConstantsOK DEF Init, NoItems
  <2> HIDE DEF h, t
  <2>3. SumFunctionOnSet(h, Orders) = 0 /\ SumFunctionOnSet(t, Orders) = 0
    BY <2>1, SumTypes, ConstantsOK
  <2> QED
    BY <2>2, <2>3 DEF h, t
<1> QED
  BY <1>1 DEF Goods, ReserveExplained, ShelfConserved, NoOversell

LEMMA NextGoods ==
    ASSUME ReturnsSafe
    PROVE  /\ LifecycleInv /\ LifecycleInv' /\ FactsInv /\ CourierInv
           /\ ReturnInv /\ ReturnInv' /\ Goods /\ [Next]_vars
           => Goods' /\ ("edit" \notin Ops /\ NoOversell => NoOversell')
<1> SUFFICES ASSUME LifecycleInv, LifecycleInv', FactsInv, CourierInv, ReturnInv, ReturnInv',
                    Goods, [Next]_vars
             PROVE  Goods' /\ ("edit" \notin Ops => GoodsKept)
  BY DEF GoodsKept
<1>1. TypeInv /\ TypeInv' /\ OrderInv
  BY DEF LifecycleInv, TypeInv, OrderInv
<1>2. GoodsKept => Goods'
  BY DEF GoodsKept, Goods
<1>3. CASE Next
  BY <1>1, <1>2, <1>3, OfficeGoods, CourierGoods, ReturnGoods DEF Next
<1>4. CASE UNCHANGED vars
  <2>1. UNCHANGED <<stock, order, back, writtenOff>>
    BY <1>4 DEF vars
  <2> QED
    BY <1>2, <2>1, GoodsIdle
<1> QED
  BY <1>3, <1>4

\* Reserve and shelf follow the orders in the scenarios of both assumptions.
LEMMA SpecGoods ==
    ASSUME CourierSafe, ReturnsSafe
    PROVE  Spec => []Goods
BY SpecLifecycleInv, SpecFactsInv, SpecCourierInv, SpecReturnInv,
   InitGoods, NextGoods, PTL DEF Spec

\* The reserve of every product is exactly what its live open orders hold,
\* through every handler but those CourierSafe and ReturnsSafe keep apart.
THEOREM SpecReserveExplained ==
    ASSUME CourierSafe, ReturnsSafe
    PROVE  Spec => []ReserveExplained
<1>1. Goods => ReserveExplained
  BY DEF Goods
<1> QED
  BY <1>1, SpecGoods, PTL

\* Goods are neither made nor lost in the same scenarios: the shelf, what
\* delivered orders took and what was written off add up to the initial stock.
THEOREM SpecShelfConserved ==
    ASSUME CourierSafe, ReturnsSafe
    PROVE  Spec => []ShelfConserved
<1>1. Goods => ShelfConserved
  BY DEF Goods
<1> QED
  BY <1>1, SpecGoods, PTL

\* Where no edit checks the shelf in a snapshot, the free stock is never
\* negative either: every unit is promised once, is somewhere, and was there
\* when it was promised.
THEOREM SpecStockSound ==
    ASSUME CourierSafe, ReturnsSafe, "edit" \notin Ops
    PROVE  Spec => []StockSound
<1>1. /\ LifecycleInv /\ LifecycleInv' /\ FactsInv /\ CourierInv
      /\ ReturnInv /\ ReturnInv' /\ Goods /\ [Next]_vars
      => (NoOversell => NoOversell')
  BY NextGoods
<1>2. Init => NoOversell
  BY InitGoods
<1>3. Goods /\ NoOversell => StockSound
  BY DEF Goods, StockSound
<1> QED
  BY <1>1, <1>2, <1>3, SpecGoods, SpecLifecycleInv, SpecFactsInv, SpecCourierInv,
     SpecReturnInv, PTL DEF Spec
=============================================================================
