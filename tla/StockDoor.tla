----------------------------- MODULE StockDoor -----------------------------
(***************************************************************************)
(* The door to warehouse_stock: the pure arithmetic of                     *)
(* api/services/stock-ledger.ts on the rows of one warehouse.              *)
(*                                                                         *)
(* A row holds three counters.  Every writer goes through shiftStock,      *)
(* which adds onHand to current_stock, adds held to reserved clamping the  *)
(* result at zero, and derives available from the two.  Quantities are     *)
(* natural numbers: an operation names its direction, a caller never       *)
(* passes a sign.                                                          *)
(*                                                                         *)
(* A set of rows is a function from Products to rows, and a list of items  *)
(* is a function from Products to Nat in which 0 means "no such line":     *)
(* normalize drops zero lines and merges the lines of one product.         *)
(***************************************************************************)
EXTENDS Integers

CONSTANT Products

Row == [current : Int, reserved : Int, available : Int]

Rows == [Products -> Row]

Items == [Products -> Nat]

NoItems == [p \in Products |-> 0]

NonNeg(n) == IF n < 0 THEN 0 ELSE n

\* Mutant of ShiftRow: available moves by the unclamped amount.
ShiftRowUnclamped(row, onHand, held) ==
    [current |-> row.current + onHand, reserved |-> NonNeg(row.reserved + held),
     available |-> row.available + onHand - held]

\* The row an UPDATE of shiftStock leaves.  MySQL assigns left to right, so
\* available is computed from the two new counters.
ShiftRow(row, onHand, held) ==
    LET current  == row.current + onHand
        reserved == NonNeg(row.reserved + held)
    IN  [current |-> current, reserved |-> reserved,
         available |-> current - reserved]

\* shiftStock: one CASE per product, so the rows move independently.
ShiftStock(rows, onHand, held) ==
    [p \in Products |-> ShiftRow(rows[p], onHand[p], held[p])]

\* A list of items times a direction (-1, 0 or 1).
Times(direction, items) == [p \in Products |-> direction * items[p]]

ReserveStock(rows, items) == ShiftStock(rows, NoItems, items)

ReleaseStock(rows, items) == ShiftStock(rows, NoItems, Times(-1, items))

\* Mutant of ShipStock: only what was delivered leaves the reserve.
ShipDelivered(rows, ordered, delivered) ==
    ShiftStock(rows, Times(-1, delivered), Times(-1, delivered))

\* shipStock: what was ordered leaves the reserve, what was delivered leaves
\* the shelf; the difference goes back on free sale.
ShipStock(rows, ordered, delivered) ==
    ShiftStock(rows, Times(-1, delivered), Times(-1, ordered))

\* applyStockEffect: a change of status moves each item by a signed unit.
ApplyStockEffect(rows, items, shift) ==
    ShiftStock(rows, Times(shift.onHand, items), Times(shift.held, items))

\* receiveStock adds to the shelf without touching the reserve.
ReceiveStock(rows, items) == ShiftStock(rows, items, NoItems)

\* What shiftStock establishes for every row it writes.
RowConsistent(row) ==
    /\ row.available = row.current - row.reserved
    /\ row.reserved >= 0
=============================================================================
