----------------------------- MODULE ShopLedger -----------------------------
(***************************************************************************)
(* What one shop owes, and what happens to the money on the way to the     *)
(* office: orders, payment rows, completed returns and shops.debt          *)
(* (api/services/shop-debt.ts, payment.ts, order-close.ts,                 *)
(* order-shared.ts, courier-delivery.ts).                                  *)
(*                                                                         *)
(* Every handler locks its order, or the shop, before it reads, and ends   *)
(* in recalcShopDebt, whose one UPDATE waits for every transaction that    *)
(* holds a row of the shop; so a handler is one action.  The exception is  *)
(* a courier's call, which reads the order before its transaction          *)
(* (CourierCheck) and writes later.  Assignments are left to               *)
(* OrderLifecycle: here an order in work is with a courier, and a late     *)
(* markOutForDelivery, which gives a delivered order back to one           *)
(* (see the README), does not happen.                                      *)
(*                                                                         *)
(* A reversal is a second row with the negative amount; the pair is        *)
(* modelled by the mark "reversed" of the first, whose worth is then 0.    *)
(***************************************************************************)
EXTENDS Integers, FiniteSets, Functions

CONSTANTS
    Orders,     \* orders of the shop
    Payments,   \* ids of rows of the table payments
    Loose,      \* stands for "no order": order_id IS NULL
    Unread,     \* a courier's call is not in flight
    MaxTotal,   \* bound on an order's total and on what is returned
    MaxPaid,    \* bound on one payment
    Tolerance,  \* CASH_ROUNDING_TOLERANCE_TIYIN
    Ops         \* optional handlers enabled in a scenario

ASSUME LedgerConstants ==
    /\ IsFiniteSet(Orders) /\ IsFiniteSet(Payments)
    /\ Loose \notin Orders
    /\ Unread \notin Int
    /\ MaxTotal \in Nat /\ MaxPaid \in Nat /\ Tolerance \in Nat

VARIABLES
    order,      \* rows of orders
    row,        \* rows of payments
    back,       \* totals of completed returns, by order or Loose
    debt,       \* shops.debt
    seen,       \* seen[o]: the total a courier's call has read, or Unread
    shortfall   \* history: cash that closings of o found missing, in all

vars == <<order, row, back, debt, seen, shortfall>>

Max0(n) == IF n < 0 THEN 0 ELSE n
Least(m, n) == IF m < n THEN m ELSE n

---------------------------------------------------------------------------
(* State *)

\* An order.  All statuses that hold goods are "open"; "dropped" stands for
\* cancelled and returned.  credit: payment_method = 'debt'.  out: the delivery
\* status still lets a courier finish it.  cut: some line was delivered short.
OrderRow == [status: {"none", "open", "delivered", "dropped"}, deleted: BOOLEAN,
             credit: BOOLEAN, total: Nat, closed: BOOLEAN, shortage: Nat,
             out: BOOLEAN, cut: BOOLEAN]

NoOrder == [status |-> "none", deleted |-> FALSE, credit |-> FALSE, total |-> 0,
            closed |-> FALSE, shortage |-> 0, out |-> FALSE, cut |-> FALSE]

\* method: cash, or bank for card and transfer.  received: received_at is set.
PaymentRow == [kind: {"none", "payment", "debt"}, of: Orders \cup {Loose},
               amount: Nat, method: {"cash", "bank"}, received: BOOLEAN,
               reversed: BOOLEAN]

NoRow == [kind |-> "none", of |-> Loose, amount |-> 0, method |-> "cash",
          received |-> FALSE, reversed |-> FALSE]

NewRow(kind, o, amount, method, received) ==
    [kind |-> kind, of |-> o, amount |-> amount, method |-> method,
     received |-> received, reversed |-> FALSE]

LedgerTypeOK ==
    /\ order \in [Orders -> OrderRow]
    /\ row \in [Payments -> PaymentRow]
    /\ back \in [Orders \cup {Loose} -> Nat]
    /\ debt \in Nat
    /\ seen \in [Orders -> Nat \cup {Unread}]
    /\ shortfall \in [Orders -> Nat]

Init ==
    /\ order = [o \in Orders |-> NoOrder]
    /\ row = [p \in Payments |-> NoRow]
    /\ back = [o \in Orders \cup {Loose} |-> 0]
    /\ debt = 0
    /\ seen = [o \in Orders |-> Unread]
    /\ shortfall = [o \in Orders |-> 0]

---------------------------------------------------------------------------
(* Sums *)

Worth(r) == IF r.reversed THEN 0 ELSE r.amount

\* The sum of the rows of one kind tied to o (or to no order).
Entered(rs, kind, o) ==
    SumFunction([p \in Payments |->
        IF rs[p].kind = kind /\ rs[p].of = o THEN Worth(rs[p]) ELSE 0])

Paid(rs, o) == Entered(rs, "payment", o)

\* Does the shop owe for this order?
Owing(r) ==
    /\ ~r.deleted
    /\ r.status \in {"open", "delivered"}
    /\ r.credit \/ r.status = "delivered"

\* Mutant of RecalcShopDebt: an overpayment becomes a negative debt.
RecalcUnfloored(os, rs, bk) ==
    SumFunction([o \in Orders |-> IF Owing(os[o]) THEN os[o].total - Paid(rs, o) - bk[o] ELSE 0])
    + Entered(rs, "debt", Loose) - Paid(rs, Loose) - bk[Loose]

\* Mutant of RecalcShopDebt: a payment goes away with its order's obligation.
RecalcForgetful(os, rs, bk) ==
    Max0(SumFunction([o \in Orders |->
             IF Owing(os[o]) THEN Max0(os[o].total - Paid(rs, o)) - bk[o] ELSE 0])
         + Entered(rs, "debt", Loose) - Paid(rs, Loose) - bk[Loose])

\* The balance as recalcShopDebt derives it.
RecalcShopDebt(os, rs, bk) ==
    LET due  == [o \in Orders |-> IF Owing(os[o]) THEN Max0(os[o].total - Paid(rs, o)) ELSE 0]
        idle == [o \in Orders |-> IF ~os[o].deleted /\ ~Owing(os[o]) THEN Paid(rs, o) ELSE 0]
        gone == [o \in Orders |-> IF Owing(os[o]) THEN bk[o] ELSE 0]
    IN  Max0(SumFunction(due) + Entered(rs, "debt", Loose) - Paid(rs, Loose)
             - SumFunction(idle) - SumFunction(gone) - bk[Loose])

Settle == debt' = RecalcShopDebt(order', row', back')

\* Mutant of OnHands: a reversed row still counts as money.
OnHandsReversed(rs, o) ==
    {p \in Payments : /\ rs[p].kind = "payment" /\ rs[p].of = o
                      /\ rs[p].method = "cash" /\ ~rs[p].received}

\* Field cash of o that the office has not received.
OnHands(rs, o) ==
    {p \in Payments : /\ rs[p].kind = "payment" /\ rs[p].of = o
                      /\ rs[p].method = "cash"
                      /\ ~rs[p].reversed /\ ~rs[p].received}

Claimed(rs, o) == SumFunctionOnSet([p \in Payments |-> rs[p].amount], OnHands(rs, o))

\* The tables that an INSERT of row r may leave; nothing is inserted for 0.
Insert(rs, r) ==
    IF r.amount = 0 THEN {rs}
    ELSE {[rs EXCEPT ![p] = r] : p \in {q \in Payments : rs[q].kind = "none"}}

---------------------------------------------------------------------------
(* Orders *)

Live(o) == order[o].status # "none" /\ ~order[o].deleted

\* order-create: the order is inserted and the balance derived.
Create(o, total, credit) ==
    /\ order[o].status = "none"
    /\ order' = [order EXCEPT ![o] = [NoOrder EXCEPT !.status = "open", !.total = total,
                                                     !.credit = credit, !.out = TRUE]]
    /\ UNCHANGED <<row, back, seen, shortfall>>
    /\ Settle

\* Whether goods have gone back or stayed behind (assertReopenable).
Reopenable(o) == back[o] = 0 /\ ~order[o].cut

\* Mutant of SetStatus: an order that comes back into work stays closed.
SetStatusKeepsClosing(o, status) ==
    /\ Live(o) /\ order[o].status # status
    /\ status = "open" => Reopenable(o)
    /\ order' = [order EXCEPT ![o].status = status,
                              ![o].out = status = "open" \/ (status = "dropped" /\ @)]
    /\ UNCHANGED <<row, back, seen, shortfall>>
    /\ Settle

\* updateStatus (cancel is the case open -> dropped).  Reopening clears the
\* first delivery and its closing, but not the shortage; the order is given to
\* a courier again.
SetStatus(o, status) ==
    /\ Live(o) /\ order[o].status # status
    /\ status = "open" => Reopenable(o)
    /\ order' = [order EXCEPT
         ![o].status = status,
         ![o].closed = @ /\ status # "open",
         ![o].out    = status = "open" \/ (status = "dropped" /\ @)]
    /\ UNCHANGED <<row, back, seen, shortfall>>
    /\ Settle

Delete(o) ==
    /\ Live(o)
    /\ order' = [order EXCEPT ![o].deleted = TRUE]
    /\ UNCHANGED <<row, back, seen, shortfall>>
    /\ Settle

Restore(o) ==
    /\ order[o].deleted
    /\ order' = [order EXCEPT ![o].deleted = FALSE]
    /\ UNCHANGED <<row, back, seen, shortfall>>
    /\ Settle

\* update and updateItems: a new discount, way of payment or list of lines.
Update(o, total, credit) ==
    /\ Live(o)
    /\ total > order[o].total => "raise" \in Ops
    /\ total < order[o].total => "cut" \in Ops
    /\ order' = [order EXCEPT ![o].total = total, ![o].credit = credit]
    /\ UNCHANGED <<row, back, seen, shortfall>>
    /\ Settle

\* applyPartialDelivery; a payment taken in the same transaction is the action
\* Pay after it, which derives the balance once more.
PartialDelivery(o, total) ==
    /\ Live(o) /\ order[o].status = "open"
    /\ total <= order[o].total
    /\ total < order[o].total => "cut" \in Ops
    /\ order' = [order EXCEPT ![o].status = "delivered", ![o].total = total,
                              ![o].out = FALSE, ![o].cut = @ \/ total < order[o].total]
    /\ UNCHANGED <<row, back, seen, shortfall>>
    /\ Settle

\* The part of returns.updateStatus that completes a return, of a delivered
\* order or (o = Loose) of none.
CompleteReturn(o, amount) ==
    /\ o # Loose => order[o].status = "delivered"
    /\ back[o] + amount <= MaxTotal
    /\ back' = [back EXCEPT ![o] = @ + amount]
    /\ UNCHANGED <<order, row, seen, shortfall>>
    /\ Settle

---------------------------------------------------------------------------
(* Money *)

\* addPayment by the office, or (office = FALSE) the 1C webhook: a row without
\* an order.  A repeated request meets the unique key and changes nothing.
ShopEntry(kind, amount, method, office) ==
    /\ amount > 0
    /\ office \/ kind = "payment"
    /\ row' \in Insert(row, NewRow(kind, Loose, amount, method,
                              office /\ kind = "payment" /\ method = "cash"))
    /\ UNCHANGED <<order, back, seen, shortfall>>
    /\ Settle

\* Mutant of Pay: an agent's cash does not open a closed order again.
PayKeepsClosed(o, amount, method, office) ==
    /\ Live(o) /\ order[o].status # "dropped"
    /\ amount > 0 /\ Paid(row, o) + amount <= order[o].total
    /\ row' \in Insert(row, NewRow("payment", o, amount, method, office /\ method = "cash"))
    /\ order' = [order EXCEPT ![o].closed = @ \/ (office /\ order[o].status = "delivered")]
    /\ UNCHANGED <<back, seen, shortfall>>
    /\ Settle

\* applyPartialPayment by the office or by an agent in the field.
Pay(o, amount, method, office) ==
    /\ Live(o) /\ order[o].status # "dropped"
    /\ amount > 0 /\ Paid(row, o) + amount <= order[o].total
    /\ row' \in Insert(row, NewRow("payment", o, amount, method, office /\ method = "cash"))
    /\ order' = IF order[o].status = "delivered" /\ (office \/ method = "cash")
                THEN [order EXCEPT ![o].closed = office]
                ELSE order
    /\ UNCHANGED <<back, seen, shortfall>>
    /\ Settle

\* PaymentService.reverse: once, and never of a reversal.
Reverse(p) ==
    /\ row[p].kind # "none" /\ ~row[p].reversed
    /\ row' = [row EXCEPT ![p].reversed = TRUE]
    /\ UNCHANGED <<order, back, seen, shortfall>>
    /\ Settle

\* Mutant of Close: the balance is left alone even when rows are added.
CloseUnsettled(o, cash, extra) ==
    /\ Live(o) /\ order[o].status = "delivered" /\ ~order[o].closed
    /\ Paid(row, o) + extra <= order[o].total
    /\ cash = Claimed(row, o)
    /\ row' \in Insert(row, NewRow("payment", o, extra, "bank", FALSE))
    /\ order' = [order EXCEPT ![o].closed = TRUE]
    /\ UNCHANGED <<back, seen, debt, shortfall>>

\* OrderCloseService.close.  What the courier claimed counts as received even
\* if less was handed over: the difference is a shortage.  More than claimed,
\* and extra by bank, become rows of the office.  A remainder needs acceptDebt,
\* which changes nothing here; "as claimed" is the case cash = Claimed.
Close(o, cash, extra) ==
    LET claimed == Claimed(row, o)
        missing == Max0(claimed - cash)
        surplus == Max0(cash - claimed)
        counted == [p \in Payments |->
                      IF p \in OnHands(row, o) THEN [row[p] EXCEPT !.received = TRUE] ELSE row[p]]
    IN  /\ Live(o) /\ order[o].status = "delivered" /\ ~order[o].closed
        /\ Paid(row, o) + surplus + extra <= order[o].total
        /\ \E table \in Insert(counted, NewRow("payment", o, surplus, "cash", TRUE)) :
             row' \in Insert(table, NewRow("payment", o, extra, "bank", FALSE))
        /\ order' = [order EXCEPT ![o].closed = TRUE,
                                  ![o].shortage = IF missing > 0 THEN missing ELSE @]
        /\ shortfall' = [shortfall EXCEPT ![o] = @ + missing]
        /\ UNCHANGED <<back, seen>>
        /\ IF surplus + extra > 0 THEN Settle ELSE UNCHANGED debt

---------------------------------------------------------------------------
(* Couriers *)

\* The read before the transaction of markDelivered and completeDelivery.
CourierCheck(o) ==
    /\ seen[o] = Unread
    /\ Live(o) /\ order[o].status = "open" /\ order[o].out
    /\ seen' = [seen EXCEPT ![o] = order[o].total]
    /\ UNCHANGED <<order, row, back, debt, shortfall>>

CourierDrop(o) ==
    /\ seen[o] # Unread
    /\ seen' = [seen EXCEPT ![o] = Unread]
    /\ UNCHANGED <<order, row, back, debt, shortfall>>

\* assertFitsRemainder
FitsRemainder(total, paid, amount) ==
    total > paid /\ amount <= total - paid + Tolerance

\* Mutant of Taken: the whole sum is recorded on the order.
TakenWhole(o, total, amount, method) == Insert(row, NewRow("payment", o, amount, method, FALSE))

\* splitExcess and recordExcess: what does not fit the order is a row of the shop.
Taken(o, total, amount, method) ==
    LET onOrder == Least(amount, Max0(total - Paid(row, o)))
    IN  UNION {Insert(table, NewRow("payment", Loose, amount - onOrder, "cash", FALSE)) :
                 table \in Insert(row, NewRow("payment", o, onOrder, method, FALSE))}

\* markDelivered: the UPDATE looks at the delivery status alone, and the cash is
\* measured against the total read before.
MarkDelivered(o, amount) ==
    /\ seen[o] # Unread /\ order[o].out
    /\ amount > 0 => FitsRemainder(seen[o], Paid(row, o), amount)
    /\ row' \in Taken(o, seen[o], amount, "cash")
    /\ order' = [order EXCEPT ![o].status = "delivered", ![o].out = FALSE]
    /\ seen' = [seen EXCEPT ![o] = Unread]
    /\ UNCHANGED <<back, shortfall>>
    /\ Settle

\* completeDelivery: total is what the locked row says, less what was brought
\* back; status is "dropped" when everything was.
CompleteDelivery(o, status, total, amount, method) ==
    /\ seen[o] # Unread /\ order[o].out /\ ~order[o].deleted
    /\ total <= order[o].total
    /\ total < order[o].total => status = "delivered" /\ "cut" \in Ops
    /\ amount > 0 => FitsRemainder(total, Paid(row, o), amount)
    /\ row' \in Taken(o, total, amount, method)
    /\ order' = [order EXCEPT ![o].status = status, ![o].total = total, ![o].out = FALSE,
                              ![o].cut = @ \/ total < order[o].total]
    /\ seen' = [seen EXCEPT ![o] = Unread]
    /\ UNCHANGED <<back, shortfall>>
    /\ Settle

---------------------------------------------------------------------------
Totals  == 0 .. MaxTotal
Amounts == 0 .. MaxPaid
Methods == {"cash", "bank"}
Offices == {office \in BOOLEAN : office => "office" \in Ops}

NextOrder(o) ==
    \/ \E t \in Totals \ {0}, c \in BOOLEAN : Create(o, t, c)
    \/ \E s \in {"open", "delivered", "dropped"} : SetStatus(o, s)
    \/ "delete" \in Ops /\ (Delete(o) \/ Restore(o))
    \/ \E t \in Totals, c \in BOOLEAN : "update" \in Ops /\ Update(o, t, c)
    \/ \E t \in Totals : "partial" \in Ops /\ PartialDelivery(o, t)
    \/ \E a \in Amounts, m \in Methods, f \in Offices : Pay(o, a, m, f)
    \/ \E c \in Amounts, e \in Amounts : "close" \in Ops /\ Close(o, c, e)
    \/ "courier" \in Ops /\ (CourierCheck(o) \/ CourierDrop(o))
    \/ \E a \in Amounts : "mark" \in Ops /\ MarkDelivered(o, a)
    \/ \E s \in {"delivered", "dropped"}, t \in Totals, a \in Amounts, m \in Methods :
         CompleteDelivery(o, s, t, a, m)

NextShop ==
    \/ \E k \in {"payment", "debt"}, a \in Amounts, m \in Methods, f \in BOOLEAN :
         "entry" \in Ops /\ ShopEntry(k, a, m, f)
    \/ \E p \in Payments : "reverse" \in Ops /\ Reverse(p)
    \/ \E o \in Orders \cup {Loose}, a \in Totals \ {0} :
         "return" \in Ops /\ CompleteReturn(o, a)

Next == (\E o \in Orders : NextOrder(o)) \/ NextShop

Spec == Init /\ [][Next]_vars

---------------------------------------------------------------------------
(* Properties *)

\* No handler forgets the balance: shops.debt is at every moment what
\* recalcShopDebt would derive, also after a closing that skips the derivation.
DebtIsDerived == debt = RecalcShopDebt(order, row, back)

\* The shop's account: what it bought and owes, less all the money it brought
\* and the goods it gave back.
Account ==
    LET bought  == [o \in Orders |-> IF Owing(order[o]) THEN order[o].total - back[o] ELSE 0]
        brought == [o \in Orders |-> IF order[o].deleted THEN 0 ELSE Paid(row, o)]
    IN  SumFunction(bought) + Entered(row, "debt", Loose)
        - SumFunction(brought) - Paid(row, Loose) - back[Loose]

\* "Having paid, the shop has a right to this money, and the right does not
\* depend on how the order ended": no payment vanishes from the balance.
AccountBalanced == debt = Max0(Account)

\* No payment is recorded on an order beyond its total, whoever takes it and
\* however old the total the courier's call has read.
PaymentFits ==
    [][\A o \in Orders : Paid(row', o) > Paid(row, o) => Paid(row', o) <= order'[o].total]_vars

\* A settled order leaves no cash in the field: the office closes it only after
\* counting what the courier or the agent holds.
ClosedMeansCounted ==
    \A o \in Orders : Live(o) /\ order[o].status = "delivered" /\ order[o].closed
                      => OnHands(row, o) = {}

\* The parts of LedgerInv: rows and orders keep their form, and an unused row
\* id was never reversed;
RowsFormed(rs) ==
    /\ rs = [p \in Payments |->
               [kind |-> rs[p].kind, of |-> rs[p].of, amount |-> rs[p].amount,
                method |-> rs[p].method, received |-> rs[p].received,
                reversed |-> rs[p].reversed]]
    /\ \A p \in Payments : rs[p].kind = "none" => ~rs[p].reversed

OrdersFormed(os) ==
    os = [o \in Orders |->
            [status |-> os[o].status, deleted |-> os[o].deleted, credit |-> os[o].credit,
             total |-> os[o].total, closed |-> os[o].closed, shortage |-> os[o].shortage,
             out |-> os[o].out, cut |-> os[o].cut]]

\* an order in work or with a courier is not closed, a delivered one is with no
\* courier, and a closed one, whatever its status, has no uncounted cash.
ClosedCounted(os, rs, o) ==
    /\ os[o].status = "delivered" => ~os[o].out
    /\ os[o].closed => /\ os[o].status \in {"delivered", "dropped"} /\ ~os[o].out
                       /\ OnHands(rs, o) = {}

\* What keeps ClosedMeansCounted true from step to step when the office itself
\* takes no payments on orders.
LedgerInv ==
    /\ RowsFormed(row) /\ OrdersFormed(order)
    /\ \A o \in Orders : ClosedCounted(order, row, o)

\* The shortages found at the closings of an order stay with whoever caused
\* them: none is lost from the order's record.
ShortageKept == \A o \in Orders : order[o].shortage = shortfall[o]

\* A reversed payment is never taken for money again.
ReversedIsFinal == [][\A p \in Payments : row[p].reversed => row'[p] = row[p]]_vars
=============================================================================
