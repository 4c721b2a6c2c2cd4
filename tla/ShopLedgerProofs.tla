-------------------------- MODULE ShopLedgerProofs --------------------------
(***************************************************************************)
(* Proofs about ShopLedger, for every finite set of orders and payments    *)
(* and every bound.  The first parts look at rows one by one and never at  *)
(* a sum; the last part rests on the lemmas of SumProofs.                  *)
(***************************************************************************)
EXTENDS ShopLedger, SumProofs, TLAPS

---------------------------------------------------------------------------
(* Rows *)

RowFormed(r) ==
    /\ r = NewRow(r.kind, r.of, r.amount, r.method, r.received)
    /\ r.kind # "none"

\* From table rs to table t, an unused row at most became r.
AtMostNew(rs, t, r) ==
    \A p \in Payments : t[p] = rs[p] \/ (rs[p].kind = "none" /\ t[p] = r)

LEMMA NewRowFormed ==
    ASSUME NEW kind \in {"payment", "debt"}, NEW o, NEW amount, NEW method, NEW received
    PROVE  /\ RowFormed(NewRow(kind, o, amount, method, received))
           /\ NewRow(kind, o, amount, method, received).of = o
           /\ NewRow(kind, o, amount, method, received).method = method
BY DEF NewRow, RowFormed

LEMMA InsertIsNew ==
    ASSUME NEW rs, RowsFormed(rs), NEW r, RowFormed(r), NEW t \in Insert(rs, r)
    PROVE  RowsFormed(t) /\ AtMostNew(rs, t, r)
<1>1. CASE t = rs
  BY <1>1 DEF AtMostNew
<1>2. ASSUME NEW q \in Payments, rs[q].kind = "none", t = [rs EXCEPT ![q] = r]
      PROVE  RowsFormed(t) /\ AtMostNew(rs, t, r)
  <2>1. /\ t[q] = r
        /\ \A p \in Payments : p # q => t[p] = rs[p]
        /\ t = [p \in Payments |-> t[p]]
    BY <1>2 DEF RowsFormed
  <2>2. /\ r = [kind |-> r.kind, of |-> r.of, amount |-> r.amount, method |-> r.method,
                received |-> r.received, reversed |-> r.reversed]
        /\ ~r.reversed
    BY DEF RowFormed, NewRow
  <2>3. t = [p \in Payments |->
              [kind |-> t[p].kind, of |-> t[p].of, amount |-> t[p].amount,
               method |-> t[p].method, received |-> t[p].received,
               reversed |-> t[p].reversed]]
    BY <2>1, <2>2 DEF RowsFormed
  <2>4. \A p \in Payments : t[p].kind = "none" => ~t[p].reversed
    BY <2>1, <2>2 DEF RowsFormed
  <2>5. RowsFormed(t)
    BY <2>3, <2>4 DEF RowsFormed
  <2>6. AtMostNew(rs, t, r)
    BY <1>2, <2>1 DEF AtMostNew
  <2> QED
    BY <2>5, <2>6
<1> QED
  BY <1>1, <1>2 DEF Insert

\* What every step does to the table: it stays formed, and what is reversed
\* stays as it is.
RowStep(rs, t) ==
    RowsFormed(t) /\ \A p \in Payments : rs[p].reversed => t[p] = rs[p]

\* An INSERT adds to what is on hands of the row's own order at most, and only
\* when the row is cash that nobody has received.
LEMMA InsertStep ==
    ASSUME NEW rs, RowsFormed(rs), NEW r, RowFormed(r), NEW t \in Insert(rs, r)
    PROVE  /\ RowStep(rs, t)
           /\ \A x : x # r.of \/ r.method # "cash" \/ r.received
                    => OnHands(t, x) = OnHands(rs, x)
<1>1. RowsFormed(t) /\ AtMostNew(rs, t, r)
  BY InsertIsNew
<1>2. \A p \in Payments : rs[p].reversed => t[p] = rs[p]
  BY <1>1 DEF AtMostNew, RowsFormed
<1>3. ASSUME NEW x, x # r.of \/ r.method # "cash" \/ r.received
      PROVE  OnHands(t, x) = OnHands(rs, x)
  BY <1>1, <1>3 DEF AtMostNew, OnHands, RowFormed
<1> QED
  BY <1>1, <1>2, <1>3 DEF RowStep

\* A courier's delivery adds one row to its order and one to the shop at most.
LEMMA TakenStep ==
    ASSUME RowsFormed(row), NEW o, NEW total, NEW amount, NEW method,
           NEW t \in Taken(o, total, amount, method)
    PROVE  /\ RowStep(row, t)
           /\ \A x : x # o /\ x # Loose => OnHands(t, x) = OnHands(row, x)
<1> DEFINE onOrder == Least(amount, Max0(total - Paid(row, o)))
           r1 == NewRow("payment", o, onOrder, method, FALSE)
           r2 == NewRow("payment", Loose, amount - onOrder, "cash", FALSE)
<1>1. PICK table \in Insert(row, r1) : t \in Insert(table, r2)
  BY DEF Taken
<1> HIDE DEF onOrder
<1>2. RowFormed(r1) /\ r1.of = o /\ RowFormed(r2) /\ r2.of = Loose
  BY DEF RowFormed, NewRow
<1> HIDE DEF r1, r2
<1>3. RowStep(row, table) /\ \A x : x # o => OnHands(table, x) = OnHands(row, x)
  BY <1>1, <1>2, InsertStep
<1>4. RowStep(table, t) /\ \A x : x # Loose => OnHands(t, x) = OnHands(table, x)
  BY <1>1, <1>2, <1>3, InsertStep DEF RowStep
<1>5. RowStep(row, t)
  BY <1>3, <1>4 DEF RowStep
<1>6. \A x : x # o /\ x # Loose => OnHands(t, x) = OnHands(row, x)
  BY <1>3, <1>4
<1> QED
  BY <1>5, <1>6

\* Counting the cash of an order touches the rows on hands and no other.
LEMMA CountingStep ==
    ASSUME RowsFormed(row), NEW o, NEW counted,
           counted = [p \in Payments |->
                        IF p \in OnHands(row, o) THEN [row[p] EXCEPT !.received = TRUE]
                                                 ELSE row[p]]
    PROVE  /\ RowStep(row, counted)
           /\ OnHands(counted, o) = {}
           /\ \A x : x # o => OnHands(counted, x) = OnHands(row, x)
<1>1. ASSUME NEW p \in Payments, p \in OnHands(row, o)
      PROVE  counted[p] = [kind |-> row[p].kind, of |-> row[p].of, amount |-> row[p].amount,
                           method |-> row[p].method, received |-> TRUE,
                           reversed |-> row[p].reversed]
  <2>1. counted[p] = [row[p] EXCEPT !.received = TRUE]
    BY <1>1
  <2>2. row[p] = [kind |-> row[p].kind, of |-> row[p].of, amount |-> row[p].amount,
                  method |-> row[p].method, received |-> row[p].received,
                  reversed |-> row[p].reversed]
    BY DEF RowsFormed
  <2> QED
    BY <2>1, <2>2
<1>2. \A p \in Payments : p \notin OnHands(row, o) => counted[p] = row[p]
  OBVIOUS
<1>3. counted = [p \in Payments |-> counted[p]]
  OBVIOUS
<1>4. ASSUME NEW p \in Payments
      PROVE  /\ counted[p] = [kind |-> counted[p].kind, of |-> counted[p].of,
                              amount |-> counted[p].amount, method |-> counted[p].method,
                              received |-> counted[p].received,
                              reversed |-> counted[p].reversed]
             /\ counted[p].kind = row[p].kind /\ counted[p].of = row[p].of
             /\ counted[p].method = row[p].method
             /\ counted[p].reversed = row[p].reversed
  <2>1. CASE p \in OnHands(row, o)
    BY <1>1, <2>1
  <2>2. CASE p \notin OnHands(row, o)
    BY <1>2, <2>2 DEF RowsFormed
  <2> QED
    BY <2>1, <2>2
<1>5. \A p \in OnHands(row, o) : p \in Payments /\ counted[p].received
  BY <1>1 DEF OnHands
<1>6. RowsFormed(counted)
  BY <1>3, <1>4 DEF RowsFormed
<1>7. \A p \in Payments : row[p].reversed => counted[p] = row[p]
  BY <1>2 DEF OnHands
<1>8. OnHands(counted, o) = {}
  <2> SUFFICES ASSUME NEW p \in OnHands(counted, o) PROVE FALSE
    OBVIOUS
  <2>1. p \notin OnHands(row, o)
    BY <1>5 DEF OnHands
  <2>2. p \in Payments /\ counted[p] = row[p]
    BY <2>1, <1>2 DEF OnHands
  <2> QED
    BY <2>1, <2>2 DEF OnHands
<1>9. ASSUME NEW x, x # o PROVE OnHands(counted, x) = OnHands(row, x)
  <2>1. \A p \in Payments : row[p].of = x => counted[p] = row[p]
    BY <1>2, <1>9 DEF OnHands
  <2> QED
    BY <2>1, <1>4 DEF OnHands
<1> QED
  BY <1>6, <1>7, <1>8, <1>9 DEF RowStep

\* A closing receives the cash on hands of its order and adds rows of its own,
\* none of them cash in the field.
LEMMA ClosingStep ==
    ASSUME RowsFormed(row), NEW o, NEW cash, NEW extra, Close(o, cash, extra)
    PROVE  /\ RowStep(row, row')
           /\ OnHands(row', o) = {}
           /\ \A x : x # o => OnHands(row', x) = OnHands(row, x)
<1> DEFINE counted == [p \in Payments |->
                        IF p \in OnHands(row, o) THEN [row[p] EXCEPT !.received = TRUE]
                                                 ELSE row[p]]
           surplus == Max0(cash - Claimed(row, o))
           r1 == NewRow("payment", o, surplus, "cash", TRUE)
           r2 == NewRow("payment", o, extra, "bank", FALSE)
<1>1. PICK table \in Insert(counted, r1) : row' \in Insert(table, r2)
  BY Zenon DEF Close
<1>2. /\ RowStep(row, counted)
      /\ OnHands(counted, o) = {}
      /\ \A x : x # o => OnHands(counted, x) = OnHands(row, x)
  BY CountingStep
<1> HIDE DEF counted, surplus
<1>3. RowFormed(r1) /\ r1.received /\ RowFormed(r2) /\ r2.method # "cash"
  <2>1. r1.received /\ r2.method # "cash"
    BY DEF NewRow
  <2> QED
    BY <2>1, NewRowFormed
<1> HIDE DEF r1, r2
<1>4. RowStep(counted, table) /\ \A x : OnHands(table, x) = OnHands(counted, x)
  BY <1>1, <1>2, <1>3, InsertStep DEF RowStep
<1>5. RowStep(table, row') /\ \A x : OnHands(row', x) = OnHands(table, x)
  BY <1>1, <1>3, <1>4, InsertStep DEF RowStep
<1>6. RowStep(row, row')
  BY <1>2, <1>4, <1>5 DEF RowStep
<1> QED
  BY <1>2, <1>4, <1>5, <1>6

\* A reversal takes money off hands and touches one row that was not reversed.
LEMMA ReversalStep ==
    ASSUME RowsFormed(row), NEW q \in Payments, Reverse(q)
    PROVE  RowStep(row, row') /\ \A x : OnHands(row', x) \subseteq OnHands(row, x)
<1>1. /\ row[q].kind # "none" /\ ~row[q].reversed
      /\ row' = [row EXCEPT ![q] = [row[q] EXCEPT !.reversed = TRUE]]
  BY DEF Reverse
<1>2. row[q] = [kind |-> row[q].kind, of |-> row[q].of, amount |-> row[q].amount,
                method |-> row[q].method, received |-> row[q].received,
                reversed |-> row[q].reversed]
  BY DEF RowsFormed
<1>3. row'[q] = [kind |-> row[q].kind, of |-> row[q].of, amount |-> row[q].amount,
                 method |-> row[q].method, received |-> row[q].received,
                 reversed |-> TRUE]
  <2>1. row'[q] = [row[q] EXCEPT !.reversed = TRUE]
    BY <1>1 DEF RowsFormed
  <2> QED
    BY <2>1, <1>2
<1>4. /\ \A p \in Payments : p # q => row'[p] = row[p]
      /\ row' = [p \in Payments |-> row'[p]]
  BY <1>1 DEF RowsFormed
<1>5. row' = [p \in Payments |->
               [kind |-> row'[p].kind, of |-> row'[p].of, amount |-> row'[p].amount,
                method |-> row'[p].method, received |-> row'[p].received,
                reversed |-> row'[p].reversed]]
  BY <1>3, <1>4 DEF RowsFormed
<1>6. \A p \in Payments : row'[p].kind = "none" => ~row'[p].reversed
  BY <1>1, <1>3, <1>4 DEF RowsFormed
<1>7. \A p \in Payments : row[p].reversed => row'[p] = row[p]
  BY <1>1, <1>4
<1>8. \A x : OnHands(row', x) \subseteq OnHands(row, x)
  BY <1>3, <1>4 DEF OnHands
<1>9. RowStep(row, row')
  BY <1>5, <1>6, <1>7 DEF RowStep, RowsFormed
<1> QED
  BY <1>8, <1>9

\* A payment by the office or in the field, and an entry of the shop.
LEMMA PayStep ==
    ASSUME RowsFormed(row), NEW o, NEW amount, NEW method, NEW office,
           Pay(o, amount, method, office)
    PROVE  /\ RowStep(row, row')
           /\ \A x : x # o \/ method # "cash" => OnHands(row', x) = OnHands(row, x)
<1> DEFINE r == NewRow("payment", o, amount, method, office /\ method = "cash")
<1>1. row' \in Insert(row, r)
  BY DEF Pay
<1>2. RowFormed(r) /\ r.of = o /\ r.method = method
  BY DEF RowFormed, NewRow
<1> HIDE DEF r
<1> QED
  BY <1>1, <1>2, InsertStep

LEMMA EntryStep ==
    ASSUME RowsFormed(row), NEW kind \in {"payment", "debt"}, NEW amount, NEW method,
           NEW office, ShopEntry(kind, amount, method, office)
    PROVE  RowStep(row, row') /\ \A x : x # Loose => OnHands(row', x) = OnHands(row, x)
<1> DEFINE r == NewRow(kind, Loose, amount, method,
                       office /\ kind = "payment" /\ method = "cash")
<1>1. row' \in Insert(row, r)
  BY DEF ShopEntry
<1>2. RowFormed(r) /\ r.of = Loose
  BY DEF RowFormed, NewRow
<1> HIDE DEF r
<1> QED
  BY <1>1, <1>2, InsertStep

LEMMA UnchangedStep ==
    ASSUME RowsFormed(row), row' = row
    PROVE  RowStep(row, row') /\ \A x : OnHands(row', x) = OnHands(row, x)
BY DEF RowStep

\* Whatever happens, the table stays formed and a reversed row stays as it is.
LEMMA NextRows ==
    ASSUME RowsFormed(row), [Next]_vars
    PROVE  RowStep(row, row')
<1>1. CASE UNCHANGED vars
  BY <1>1, UnchangedStep DEF vars
<1>2. ASSUME NEW o \in Orders, NextOrder(o) PROVE RowStep(row, row')
  <2>1. ASSUME NEW t, NEW c, Create(o, t, c) PROVE RowStep(row, row')
    BY <2>1, UnchangedStep DEF Create
  <2>2. ASSUME NEW s, SetStatus(o, s) PROVE RowStep(row, row')
    BY <2>2, UnchangedStep DEF SetStatus
  <2>3. CASE Delete(o) \/ Restore(o)
    BY <2>3, UnchangedStep DEF Delete, Restore
  <2>4. ASSUME NEW t, NEW c, Update(o, t, c) PROVE RowStep(row, row')
    BY <2>4, UnchangedStep DEF Update
  <2>5. ASSUME NEW t, PartialDelivery(o, t) PROVE RowStep(row, row')
    BY <2>5, UnchangedStep DEF PartialDelivery
  <2>6. ASSUME NEW a, NEW m, NEW f, Pay(o, a, m, f) PROVE RowStep(row, row')
    BY <2>6, PayStep
  <2>7. ASSUME NEW c, NEW e, Close(o, c, e) PROVE RowStep(row, row')
    BY <2>7, ClosingStep
  <2>8. CASE CourierCheck(o) \/ CourierDrop(o)
    BY <2>8, UnchangedStep DEF CourierCheck, CourierDrop
  <2>9. ASSUME NEW a, MarkDelivered(o, a) PROVE RowStep(row, row')
    BY <2>9, TakenStep DEF MarkDelivered
  <2>10. ASSUME NEW s, NEW t, NEW a, NEW m, CompleteDelivery(o, s, t, a, m)
         PROVE  RowStep(row, row')
    BY <2>10, TakenStep DEF CompleteDelivery
  <2> QED
    BY <1>2, <2>1, <2>2, <2>3, <2>4, <2>5, <2>6, <2>7, <2>8, <2>9, <2>10, Zenon
       DEF NextOrder
<1>3. CASE NextShop
  <2>1. ASSUME NEW k \in {"payment", "debt"}, NEW a, NEW m, NEW f, ShopEntry(k, a, m, f)
        PROVE  RowStep(row, row')
    BY <2>1, EntryStep
  <2>2. ASSUME NEW q \in Payments, Reverse(q) PROVE RowStep(row, row')
    BY <2>2, ReversalStep
  <2>3. ASSUME NEW o, NEW a, CompleteReturn(o, a) PROVE RowStep(row, row')
    BY <2>3, UnchangedStep DEF CompleteReturn
  <2> QED
    BY <1>3, <2>1, <2>2, <2>3, Zenon DEF NextShop
<1> QED
  BY <1>1, <1>2, <1>3 DEF Next

LEMMA InitRows == Init => RowsFormed(row)
BY DEF Init, NoRow, RowsFormed

\* A reversed payment is never taken for money again, by any handler
\* (payment.ts reverse, order-close.ts onHandsOf).
THEOREM SpecReversedIsFinal == Spec => ReversedIsFinal
<1>1. RowsFormed(row) /\ [Next]_vars => RowsFormed(row)'
  <2> SUFFICES ASSUME RowsFormed(row), [Next]_vars PROVE RowsFormed(row')
    BY DEF RowsFormed
  <2> QED
    BY NextRows DEF RowStep
<1>2. RowsFormed(row) /\ [Next]_vars
      => [\A p \in Payments : row[p].reversed => row'[p] = row[p]]_vars
  BY NextRows DEF RowStep
<1> QED
  BY InitRows, <1>1, <1>2, PTL DEF Spec, ReversedIsFinal

---------------------------------------------------------------------------
(* Orders *)

OrderFormed(r) ==
    r = [status |-> r.status, deleted |-> r.deleted, credit |-> r.credit, total |-> r.total,
         closed |-> r.closed, shortage |-> r.shortage, out |-> r.out, cut |-> r.cut]

\* Writing one order's row leaves the others alone.
LEMMA OrderWritten ==
    ASSUME OrdersFormed(order), NEW o \in Orders, NEW r, OrderFormed(r),
           order' = [order EXCEPT ![o] = r]
    PROVE  /\ OrdersFormed(order') /\ order'[o] = r
           /\ \A x \in Orders : x # o => order'[x] = order[x]
<1>1. /\ order' = [x \in Orders |-> order'[x]] /\ order'[o] = r
      /\ \A x \in Orders : x # o => order'[x] = order[x]
  BY DEF OrdersFormed
<1>2. \A x \in Orders : OrderFormed(order'[x])
  BY <1>1 DEF OrdersFormed, OrderFormed
<1>3. OrdersFormed(order')
  BY <1>1, <1>2 DEF OrdersFormed, OrderFormed
<1> QED
  BY <1>1, <1>3

\* The part of LedgerInv about orders survives a step that closes no order but
\* one without uncounted cash, and puts no cash on hands of another.
LEMMA Survives ==
    ASSUME LedgerInv, NEW o \in Orders,
           OrdersFormed(order'), \A x \in Orders : x # o => order'[x] = order[x],
           RowsFormed(row'),
           \A x \in Orders : x # o => OnHands(row', x) \subseteq OnHands(row, x),
           ClosedCounted(order', row', o)
    PROVE  LedgerInv'
<1>1. ASSUME NEW x \in Orders PROVE ClosedCounted(order', row', x)
  <2>1. CASE x = o
    BY <2>1
  <2>2. CASE x # o
    BY <2>2 DEF LedgerInv, ClosedCounted
  <2> QED
    BY <2>1, <2>2
<1> QED
  BY <1>1 DEF LedgerInv

\* The same for a step that leaves the table alone.
LEMMA OrderOnly ==
    ASSUME LedgerInv, NEW o \in Orders, NEW r, OrderFormed(r),
           order' = [order EXCEPT ![o] = r], row' = row,
           r.closed => r.status \in {"delivered", "dropped"} /\ ~r.out,
           r.status = "delivered" => ~r.out,
           r.closed => order[o].closed
    PROVE  LedgerInv'
<1>1. OrdersFormed(order') /\ order'[o] = r /\ \A x \in Orders : x # o => order'[x] = order[x]
  <2>1. OrdersFormed(order)
    BY DEF LedgerInv
  <2> QED
    BY <2>1, OrderWritten
<1>2. ClosedCounted(order', row', o)
  BY <1>1 DEF LedgerInv, ClosedCounted
<1>3. RowsFormed(row') /\ \A x \in Orders : OnHands(row', x) \subseteq OnHands(row, x)
  BY DEF LedgerInv
<1> QED
  BY <1>1, <1>2, <1>3, Survives

LEMMA CreateStep ==
    ASSUME LedgerInv, NEW o \in Orders, NEW t, NEW c, Create(o, t, c)
    PROVE  LedgerInv'
<1> DEFINE q == NoOrder
           yes == TRUE
<1>1. OrderFormed(q) /\ ~q.closed
  BY DEF NoOrder, OrderFormed
<1>2. PICK r : r = [q EXCEPT !.status = "open", !.total = t, !.credit = c, !.out = yes]
  OBVIOUS
<1>3. order' = [order EXCEPT ![o] = r] /\ row' = row
  BY <1>2 DEF Create
<1> HIDE DEF q, yes
<1>4. OrderFormed(r)
  BY <1>1, <1>2 DEF OrderFormed
<1>5. ~r.closed /\ r.status = "open"
  BY <1>1, <1>2 DEF OrderFormed
<1> QED
  BY <1>3, <1>4, <1>5, OrderOnly

LEMMA StatusStep ==
    ASSUME LedgerInv, NEW o \in Orders, NEW s, SetStatus(o, s),
           s \in {"open", "delivered", "dropped"}
    PROVE  LedgerInv'
<1> DEFINE q == order[o]
           closed == q.closed /\ s # "open"
           out == s = "open" \/ (s = "dropped" /\ q.out)
<1>1. OrderFormed(q)
  BY DEF LedgerInv, OrdersFormed, OrderFormed
<1>2. PICK r : r = [q EXCEPT !.status = s, !.closed = closed, !.out = out]
  OBVIOUS
<1>3. order' = [order EXCEPT ![o] = r] /\ row' = row
  BY <1>2 DEF SetStatus, LedgerInv, OrdersFormed
<1>4. /\ closed => q.closed /\ ~out /\ s # "open"
      /\ s = "delivered" => ~out
  BY DEF SetStatus, LedgerInv, ClosedCounted
<1> HIDE DEF q, closed, out
<1>5. OrderFormed(r)
  BY <1>1, <1>2 DEF OrderFormed
<1>6. r.status = s /\ r.closed = closed /\ r.out = out
  BY <1>1, <1>2 DEF OrderFormed
<1>7. /\ r.closed => r.status \in {"delivered", "dropped"} /\ ~r.out
      /\ r.status = "delivered" => ~r.out
  BY <1>4, <1>6
<1>8. r.closed => order[o].closed
  BY <1>4, <1>6 DEF q
<1> QED
  BY <1>3, <1>5, <1>7, <1>8, OrderOnly

\* Writing fields of an order that say nothing about its closing.
LEMMA QuietStep ==
    ASSUME LedgerInv, NEW o \in Orders, row' = row, NEW d, NEW t, NEW c,
           \/ order' = [order EXCEPT ![o].deleted = d]
           \/ order' = [order EXCEPT ![o].total = t, ![o].credit = c]
    PROVE  LedgerInv'
<1> DEFINE q == order[o]
<1>1. OrderFormed(q)
  BY DEF LedgerInv, OrdersFormed, OrderFormed
<1>2. PICK r : /\ order' = [order EXCEPT ![o] = r]
               /\ \/ r = [q EXCEPT !.deleted = d]
                  \/ r = [q EXCEPT !.total = t, !.credit = c]
  <2>1. CASE order' = [order EXCEPT ![o].deleted = d]
    BY <2>1
  <2>2. CASE order' = [order EXCEPT ![o].total = t, ![o].credit = c]
    BY <2>2 DEF LedgerInv, OrdersFormed
  <2> QED
    BY <2>1, <2>2
<1> HIDE DEF q
<1>3. OrderFormed(r)
  BY <1>1, <1>2 DEF OrderFormed
<1>4. r.status = q.status /\ r.closed = q.closed /\ r.out = q.out
  BY <1>1, <1>2 DEF OrderFormed
<1>5. /\ r.closed => r.status \in {"delivered", "dropped"} /\ ~r.out
      /\ r.status = "delivered" => ~r.out
  BY <1>4 DEF q, LedgerInv, ClosedCounted
<1>6. r.closed => order[o].closed
  BY <1>4 DEF q
<1> QED
  BY <1>2, <1>3, <1>5, <1>6, OrderOnly

\* An order that leaves work as delivered or given back was not closed.
LEMMA LeftWork ==
    ASSUME LedgerInv, NEW o \in Orders, NEW r, OrderFormed(r), r.closed = order[o].closed, ~r.out,
           order[o].out \/ order[o].status = "open",
           order' = [order EXCEPT ![o] = r], RowsFormed(row'),
           \A x \in Orders : x # o => OnHands(row', x) \subseteq OnHands(row, x)
    PROVE  LedgerInv'
<1>1. ~r.closed
  BY DEF LedgerInv, ClosedCounted
<1>2. /\ OrdersFormed(order') /\ order'[o] = r
      /\ \A x \in Orders : x # o => order'[x] = order[x]
  BY OrderWritten DEF LedgerInv
<1>3. ClosedCounted(order', row', o)
  BY <1>1, <1>2 DEF ClosedCounted
<1> QED
  BY <1>2, <1>3, Survives

LEMMA PartialStep ==
    ASSUME LedgerInv, NEW o \in Orders, NEW t, PartialDelivery(o, t)
    PROVE  LedgerInv'
<1> DEFINE q == order[o]
           cut == q.cut \/ t < q.total
           no == FALSE
<1>1. OrderFormed(q)
  BY DEF LedgerInv, OrdersFormed, OrderFormed
<1>2. PICK r : r = [q EXCEPT !.status = "delivered", !.total = t, !.out = no, !.cut = cut]
  OBVIOUS
<1>3. order' = [order EXCEPT ![o] = r] /\ row' = row /\ q.status = "open"
  BY <1>2 DEF PartialDelivery, LedgerInv, OrdersFormed
<1> HIDE DEF q, cut
<1>4. OrderFormed(r)
  BY <1>1, <1>2 DEF OrderFormed
<1>5. r.closed = q.closed /\ ~r.out
  BY <1>1, <1>2 DEF OrderFormed
<1>6. RowsFormed(row') /\ \A x \in Orders : OnHands(row', x) \subseteq OnHands(row, x)
  BY <1>3 DEF LedgerInv
<1> QED
  BY <1>3, <1>4, <1>5, <1>6, LeftWork DEF q

LEMMA MarkStep ==
    ASSUME LedgerInv, NEW o \in Orders, NEW a, MarkDelivered(o, a)
    PROVE  LedgerInv'
<1> DEFINE q == order[o]
           no == FALSE
<1>1. OrderFormed(q)
  BY DEF LedgerInv, OrdersFormed, OrderFormed
<1>2. PICK r : r = [q EXCEPT !.status = "delivered", !.out = no]
  OBVIOUS
<1>3. order' = [order EXCEPT ![o] = r] /\ q.out
  BY <1>2 DEF MarkDelivered, LedgerInv, OrdersFormed
<1> HIDE DEF q
<1>4. OrderFormed(r)
  BY <1>1, <1>2 DEF OrderFormed
<1>5. r.closed = q.closed /\ ~r.out
  BY <1>1, <1>2 DEF OrderFormed
<1>6. RowsFormed(row') /\ \A x \in Orders : x # o => OnHands(row', x) \subseteq OnHands(row, x)
  BY TakenStep, LedgerConstants DEF MarkDelivered, LedgerInv, RowStep
<1> QED
  BY <1>3, <1>4, <1>5, <1>6, LeftWork DEF q

LEMMA CompleteStep ==
    ASSUME LedgerInv, NEW o \in Orders, NEW s, NEW t, NEW a, NEW m,
           CompleteDelivery(o, s, t, a, m)
    PROVE  LedgerInv'
<1> DEFINE q == order[o]
           cut == q.cut \/ t < q.total
           no == FALSE
<1>1. OrderFormed(q)
  BY DEF LedgerInv, OrdersFormed, OrderFormed
<1>2. PICK r : r = [q EXCEPT !.status = s, !.total = t, !.out = no, !.cut = cut]
  OBVIOUS
<1>3. order' = [order EXCEPT ![o] = r] /\ q.out
  BY <1>2 DEF CompleteDelivery, LedgerInv, OrdersFormed
<1> HIDE DEF q, cut
<1>4. OrderFormed(r)
  BY <1>1, <1>2 DEF OrderFormed
<1>5. r.closed = q.closed /\ ~r.out
  BY <1>1, <1>2 DEF OrderFormed
<1>6. RowsFormed(row') /\ \A x \in Orders : x # o => OnHands(row', x) \subseteq OnHands(row, x)
  BY TakenStep, LedgerConstants DEF CompleteDelivery, LedgerInv, RowStep
<1> QED
  BY <1>3, <1>4, <1>5, <1>6, LeftWork DEF q

\* A closing closes its order once nothing of it is on hands.
LEMMA CloseStep ==
    ASSUME LedgerInv, NEW o \in Orders, NEW c, NEW e, Close(o, c, e)
    PROVE  LedgerInv'
<1> DEFINE q == order[o]
           yes == TRUE
           missing == Max0(Claimed(row, o) - c)
           h == IF missing > 0 THEN missing ELSE q.shortage
<1>1. OrderFormed(q)
  BY DEF LedgerInv, OrdersFormed, OrderFormed
<1>2. PICK r : r = [q EXCEPT !.closed = yes, !.shortage = h]
  OBVIOUS
<1>3. order' = [order EXCEPT ![o] = r]
  BY <1>2 DEF Close, LedgerInv, OrdersFormed
<1>4. q.status = "delivered" /\ ~q.out
  BY DEF Close, LedgerInv, ClosedCounted
<1> HIDE DEF q, h, yes
<1>5. OrderFormed(r)
  BY <1>1, <1>2 DEF OrderFormed
<1>6. r.status = q.status /\ r.out = q.out
  BY <1>1, <1>2 DEF OrderFormed
<1>7. /\ OrdersFormed(order') /\ order'[o] = r
      /\ \A x \in Orders : x # o => order'[x] = order[x]
  BY <1>3, <1>5, OrderWritten DEF LedgerInv
<1>8. /\ RowsFormed(row') /\ OnHands(row', o) = {}
      /\ \A x \in Orders : x # o => OnHands(row', x) \subseteq OnHands(row, x)
  BY ClosingStep DEF LedgerInv, RowStep
<1>9. ClosedCounted(order', row', o)
  BY <1>4, <1>6, <1>7, <1>8 DEF ClosedCounted
<1> QED
  BY <1>7, <1>8, <1>9, Survives

\* Cash taken in the field for a closed order opens its closing again.
LEMMA FieldPayStep ==
    ASSUME LedgerInv, NEW o \in Orders, NEW a, NEW m, NEW office, ~office,
           Pay(o, a, m, office)
    PROVE  LedgerInv'
<1> DEFINE q == order[o]
           no == FALSE
<1>1. OrderFormed(q)
  BY DEF LedgerInv, OrdersFormed, OrderFormed
<1>2. /\ RowsFormed(row')
      /\ \A x \in Orders : x # o => OnHands(row', x) \subseteq OnHands(row, x)
      /\ m # "cash" => OnHands(row', o) = OnHands(row, o)
  BY PayStep DEF LedgerInv, RowStep
<1>3. CASE q.status = "delivered" /\ m = "cash"
  <2>1. PICK r : r = [q EXCEPT !.closed = office]
    OBVIOUS
  <2>2. order' = [order EXCEPT ![o] = r]
    BY <1>3, <2>1 DEF Pay
  <2>3. ~q.out
    BY <1>3 DEF LedgerInv, ClosedCounted
  <2> HIDE DEF q
  <2>4. OrderFormed(r)
    BY <1>1, <2>1 DEF OrderFormed
  <2>5. r.closed = office /\ r.out = q.out
    BY <1>1, <2>1 DEF OrderFormed
  <2>6. /\ OrdersFormed(order') /\ order'[o] = r
        /\ \A x \in Orders : x # o => order'[x] = order[x]
    BY <2>2, <2>4, OrderWritten DEF LedgerInv
  <2>7. ClosedCounted(order', row', o)
    BY <2>3, <2>5, <2>6 DEF ClosedCounted
  <2> QED
    BY <1>2, <2>6, <2>7, Survives
<1>4. CASE ~(q.status = "delivered" /\ m = "cash")
  <2>1. order' = order
    BY <1>4 DEF Pay
  <2>2. ~q.closed \/ m # "cash"
    BY <1>4 DEF Pay, LedgerInv, ClosedCounted
  <2>3. ClosedCounted(order', row', o)
    BY <1>2, <2>1, <2>2 DEF LedgerInv, ClosedCounted
  <2>4. OrdersFormed(order')
    BY <2>1 DEF LedgerInv
  <2> QED
    BY <1>2, <2>1, <2>3, <2>4, Survives
<1> QED
  BY <1>3, <1>4

\* A step that moves no order and takes no new cash on hands.
LEMMA OffOrders ==
    ASSUME LedgerInv, order' = order, RowsFormed(row'),
           \A x \in Orders : OnHands(row', x) \subseteq OnHands(row, x)
    PROVE  LedgerInv'
BY DEF LedgerInv, ClosedCounted

LEMMA LedgerInvInductive ==
    ASSUME LedgerInv, [Next]_vars, "office" \notin Ops
    PROVE  LedgerInv'
<1>1. CASE UNCHANGED vars
  BY <1>1, OffOrders DEF vars, LedgerInv
<1>2. ASSUME NEW o \in Orders, NextOrder(o) PROVE LedgerInv'
  <2>1. ASSUME NEW t, NEW c, Create(o, t, c) PROVE LedgerInv'
    BY <2>1, CreateStep
  <2>2. ASSUME NEW s \in {"open", "delivered", "dropped"}, SetStatus(o, s) PROVE LedgerInv'
    BY <2>2, StatusStep
  <2>3. CASE Delete(o) \/ Restore(o)
    BY <2>3, QuietStep DEF Delete, Restore
  <2>4. ASSUME NEW t, NEW c, Update(o, t, c) PROVE LedgerInv'
    BY <2>4, QuietStep DEF Update
  <2>5. ASSUME NEW t, PartialDelivery(o, t) PROVE LedgerInv'
    BY <2>5, PartialStep
  <2>6. ASSUME NEW a, NEW m, NEW f \in Offices, Pay(o, a, m, f) PROVE LedgerInv'
    BY <2>6, FieldPayStep DEF Offices
  <2>7. ASSUME NEW c, NEW e, Close(o, c, e) PROVE LedgerInv'
    BY <2>7, CloseStep
  <2>8. CASE CourierCheck(o) \/ CourierDrop(o)
    BY <2>8, OffOrders DEF CourierCheck, CourierDrop, LedgerInv
  <2>9. ASSUME NEW a, MarkDelivered(o, a) PROVE LedgerInv'
    BY <2>9, MarkStep
  <2>10. ASSUME NEW s, NEW t, NEW a, NEW m, CompleteDelivery(o, s, t, a, m) PROVE LedgerInv'
    BY <2>10, CompleteStep
  <2> QED
    BY <1>2, <2>1, <2>2, <2>3, <2>4, <2>5, <2>6, <2>7, <2>8, <2>9, <2>10, Zenon
       DEF NextOrder
<1>3. CASE NextShop
  <2>1. ASSUME NEW k \in {"payment", "debt"}, NEW a, NEW m, NEW f, ShopEntry(k, a, m, f)
        PROVE  LedgerInv'
    <3>1. RowsFormed(row') /\ \A x \in Orders : OnHands(row', x) \subseteq OnHands(row, x)
      BY <2>1, EntryStep, LedgerConstants DEF LedgerInv, RowStep
    <3> QED
      BY <2>1, <3>1, OffOrders DEF ShopEntry
  <2>2. ASSUME NEW q \in Payments, Reverse(q) PROVE LedgerInv'
    <3>1. RowsFormed(row') /\ \A x \in Orders : OnHands(row', x) \subseteq OnHands(row, x)
      BY <2>2, ReversalStep DEF LedgerInv, RowStep
    <3> QED
      BY <2>2, <3>1, OffOrders DEF Reverse
  <2>3. ASSUME NEW o, NEW a, CompleteReturn(o, a) PROVE LedgerInv'
    BY <2>3, OffOrders DEF CompleteReturn, LedgerInv
  <2> QED
    BY <1>3, <2>1, <2>2, <2>3, Zenon DEF NextShop
<1> QED
  BY <1>1, <1>2, <1>3 DEF Next

LEMMA InitLedgerInv == Init => LedgerInv
<1>1. Init => OrdersFormed(order) /\ \A o \in Orders : ~order[o].closed /\ order[o].status = "none"
  BY DEF Init, NoOrder, OrdersFormed
<1> QED
  BY <1>1, InitRows DEF LedgerInv, ClosedCounted

\* Where the office takes no payments on orders, LedgerInv always holds.
THEOREM SpecLedgerInv ==
    ASSUME "office" \notin Ops
    PROVE  Spec => []LedgerInv
<1>1. LedgerInv /\ [Next]_vars => LedgerInv'
  BY LedgerInvInductive
<1> QED
  BY InitLedgerInv, <1>1, PTL DEF Spec

\* A settled order leaves no cash in the field (order-close.ts): neither couriers
\* nor agents nor reversals can make it so, whatever they do in whatever order.
THEOREM SpecClosedMeansCounted ==
    ASSUME "office" \notin Ops
    PROVE  Spec => []ClosedMeansCounted
<1>1. LedgerInv => ClosedMeansCounted
  BY DEF LedgerInv, ClosedCounted, ClosedMeansCounted
<1> QED
  BY SpecLedgerInv, <1>1, PTL

---------------------------------------------------------------------------
(* Sums of the ledger *)

LEMMA Sum0 ==
    ASSUME NEW f, IsFiniteSet(DOMAIN f)
    PROVE  /\ (\A x \in DOMAIN f : f[x] \in Int) => SumFunction(f) \in Int
           /\ (\A x \in DOMAIN f : f[x] \in Nat) => SumFunction(f) \in Nat
           /\ (\A x \in DOMAIN f : f[x] = 0) => SumFunction(f) = 0
BY SumTypes DEF SumFunction

LEMMA EnteredNat ==
    ASSUME NEW rs \in [Payments -> PaymentRow], NEW kind, NEW o
    PROVE  Entered(rs, kind, o) \in Nat
<1> DEFINE f == [p \in Payments |->
                   IF rs[p].kind = kind /\ rs[p].of = o THEN Worth(rs[p]) ELSE 0]
<1>1. ASSUME NEW p \in Payments PROVE Worth(rs[p]) \in Nat
  BY DEF PaymentRow, Worth
<1>2. \A p \in DOMAIN f : f[p] \in Nat
  BY <1>1
<1>3. IsFiniteSet(DOMAIN f)
  BY LedgerConstants
<1> HIDE DEF f
<1>4. SumFunction(f) \in Nat
  BY <1>2, <1>3, Sum0
<1> QED
  BY <1>4 DEF Entered, f

LEMMA ClaimedNat ==
    ASSUME NEW rs \in [Payments -> PaymentRow], NEW o
    PROVE  Claimed(rs, o) \in Nat
<1> DEFINE f == [p \in Payments |-> rs[p].amount]
<1>1. OnHands(rs, o) \subseteq Payments
  BY DEF OnHands
<1>2. IsFiniteSet(OnHands(rs, o))
  BY <1>1, LedgerConstants, FS_Subset
<1>3. \A p \in OnHands(rs, o) : f[p] \in Nat
  BY <1>1 DEF PaymentRow
<1> HIDE DEF f
<1>4. SumFunctionOnSet(f, OnHands(rs, o)) \in Nat
  BY <1>2, <1>3, SumTypes
<1> QED
  BY <1>4 DEF Claimed, f

\* The derived balance is a natural number.
LEMMA RecalcNat ==
    ASSUME NEW os \in [Orders -> OrderRow], NEW rs \in [Payments -> PaymentRow],
           NEW bk \in [Orders \cup {Loose} -> Nat]
    PROVE  RecalcShopDebt(os, rs, bk) \in Nat
<1> DEFINE due  == [o \in Orders |-> IF Owing(os[o]) THEN Max0(os[o].total - Paid(rs, o)) ELSE 0]
           idle == [o \in Orders |-> IF ~os[o].deleted /\ ~Owing(os[o]) THEN Paid(rs, o) ELSE 0]
           gone == [o \in Orders |-> IF Owing(os[o]) THEN bk[o] ELSE 0]
<1>1. ASSUME NEW o PROVE Paid(rs, o) \in Nat
  BY EnteredNat DEF Paid
<1>2. ASSUME NEW o \in Orders
      PROVE  due[o] \in Int /\ idle[o] \in Int /\ gone[o] \in Int
  BY <1>1 DEF OrderRow, Max0
<1>3. DOMAIN due = Orders /\ DOMAIN idle = Orders /\ DOMAIN gone = Orders
  OBVIOUS
<1>4. Entered(rs, "debt", Loose) \in Nat
  BY EnteredNat
<1>5. bk[Loose] \in Nat
  OBVIOUS
<1>6. RecalcShopDebt(os, rs, bk)
        = Max0(SumFunction(due) + Entered(rs, "debt", Loose) - Paid(rs, Loose)
               - SumFunction(idle) - SumFunction(gone) - bk[Loose])
  BY DEF RecalcShopDebt
<1> HIDE DEF due, idle, gone
<1>7. SumFunction(due) \in Int /\ SumFunction(idle) \in Int /\ SumFunction(gone) \in Int
  BY <1>2, <1>3, Sum0, LedgerConstants
<1> QED
  BY <1>1, <1>4, <1>5, <1>6, <1>7 DEF Max0

---------------------------------------------------------------------------
(* Types *)

Table == [Payments -> PaymentRow]

LEMMA InsertType ==
    ASSUME NEW rs \in Table, NEW kind \in {"payment", "debt"}, NEW o \in Orders \cup {Loose},
           NEW amount \in Nat, NEW method \in Methods, NEW received \in BOOLEAN
    PROVE  Insert(rs, NewRow(kind, o, amount, method, received)) \subseteq Table
<1>1. NewRow(kind, o, amount, method, received) \in PaymentRow
  BY DEF NewRow, PaymentRow, Methods
<1> QED
  BY <1>1 DEF Insert, Table

LEMMA TakenType ==
    ASSUME row \in Table, NEW o \in Orders, NEW total \in Nat, NEW amount \in Nat,
           NEW method \in Methods, NEW t \in Taken(o, total, amount, method)
    PROVE  t \in Table
<1> DEFINE onOrder == Least(amount, Max0(total - Paid(row, o)))
<1>1. PICK table \in Insert(row, NewRow("payment", o, onOrder, method, FALSE)) :
        t \in Insert(table, NewRow("payment", Loose, amount - onOrder, "cash", FALSE))
  BY DEF Taken
<1>2. onOrder \in Nat /\ amount - onOrder \in Nat
  BY EnteredNat DEF Table, Paid, Least, Max0
<1> HIDE DEF onOrder
<1>3. table \in Table
  BY <1>1, <1>2, InsertType
<1>4. FALSE \in BOOLEAN /\ "cash" \in Methods /\ "payment" \in {"payment", "debt"}
  BY DEF Methods
<1> QED
  BY <1>1, <1>2, <1>3, <1>4, InsertType

\* A closing: what it counts, adds and finds missing.
LEMMA CloseType ==
    ASSUME LedgerTypeOK, NEW o \in Orders, NEW cash \in Nat, NEW extra \in Nat,
           Close(o, cash, extra)
    PROVE  /\ row' \in Table
           /\ Max0(Claimed(row, o) - cash) \in Nat
           /\ Max0(cash - Claimed(row, o)) \in Nat
<1> DEFINE counted == [p \in Payments |->
                        IF p \in OnHands(row, o) THEN [row[p] EXCEPT !.received = TRUE]
                                                 ELSE row[p]]
           surplus == Max0(cash - Claimed(row, o))
<1>1. row \in Table
  BY DEF LedgerTypeOK, Table
<1>2. Claimed(row, o) \in Nat
  BY <1>1, ClaimedNat DEF Table
<1>3. Max0(Claimed(row, o) - cash) \in Nat /\ surplus \in Nat
  BY <1>2 DEF Max0
<1>4. PICK table \in Insert(counted, NewRow("payment", o, surplus, "cash", TRUE)) :
        row' \in Insert(table, NewRow("payment", o, extra, "bank", FALSE))
  BY Zenon DEF Close
<1>5. counted \in Table
  BY <1>1 DEF Table, PaymentRow
<1>6. "cash" \in Methods /\ "bank" \in Methods
  BY DEF Methods
<1> HIDE DEF counted, surplus
<1>7. table \in Table
  BY <1>3, <1>4, <1>5, <1>6, InsertType
<1>8. row' \in Table
  BY <1>4, <1>6, <1>7, InsertType
<1> QED
  BY <1>3, <1>8 DEF surplus

\* A step that keeps orders, rows and returns typed and derives the balance.
LEMMA SettleType ==
    ASSUME order' \in [Orders -> OrderRow], row' \in Table,
           back' \in [Orders \cup {Loose} -> Nat], Settle,
           seen' \in [Orders -> Nat \cup {Unread}], shortfall' \in [Orders -> Nat]
    PROVE  LedgerTypeOK'
BY RecalcNat DEF Settle, LedgerTypeOK, Table

LEMMA OrdersType ==
    ASSUME LedgerTypeOK, NEW o \in Orders, NextOrder(o)
    PROVE  LedgerTypeOK'
<1> USE DEF Totals, Amounts
<1>1. /\ row \in Table /\ order \in [Orders -> OrderRow]
      /\ back \in [Orders \cup {Loose} -> Nat] /\ debt \in Nat
      /\ seen \in [Orders -> Nat \cup {Unread}] /\ shortfall \in [Orders -> Nat]
  BY DEF LedgerTypeOK, Table
<1>2. \A n \in Totals \cup Amounts : n \in Nat
  BY LedgerConstants
<1>3. NoOrder \in OrderRow
  BY DEF NoOrder, OrderRow
<1>4. ASSUME NEW t \in Totals, NEW c \in BOOLEAN, Create(o, t, c) PROVE LedgerTypeOK'
  <2>1. order' \in [Orders -> OrderRow]
    BY <1>1, <1>2, <1>3, <1>4 DEF Create, OrderRow
  <2> QED
    BY <1>1, <1>4, <2>1, SettleType DEF Create
<1>5. ASSUME NEW s \in {"open", "delivered", "dropped"}, SetStatus(o, s) PROVE LedgerTypeOK'
  <2> DEFINE q == order[o]
             closed == q.closed /\ s # "open"
             out == s = "open" \/ (s = "dropped" /\ q.out)
  <2>1. closed \in BOOLEAN /\ out \in BOOLEAN /\ q \in OrderRow
    BY <1>1 DEF OrderRow
  <2>2. order' = [order EXCEPT ![o] = [q EXCEPT !.status = s, !.closed = closed, !.out = out]]
    BY <1>1, <1>5 DEF SetStatus
  <2> HIDE DEF q, closed, out
  <2>3. order' \in [Orders -> OrderRow]
    BY <1>1, <2>1, <2>2 DEF OrderRow
  <2> QED
    BY <1>1, <1>5, <2>3, SettleType DEF SetStatus
<1>6. ASSUME Delete(o) \/ Restore(o) PROVE LedgerTypeOK'
  <2>1. PICK d \in BOOLEAN : order' = [order EXCEPT ![o] = [order[o] EXCEPT !.deleted = d]]
    <3>1. Delete(o) => order' = [order EXCEPT ![o] = [order[o] EXCEPT !.deleted = TRUE]]
      BY <1>1 DEF Delete
    <3>2. Restore(o) => order' = [order EXCEPT ![o] = [order[o] EXCEPT !.deleted = FALSE]]
      BY <1>1 DEF Restore
    <3> QED
      BY <1>6, <3>1, <3>2
  <2>2. order' \in [Orders -> OrderRow]
    BY <1>1, <2>1 DEF OrderRow
  <2> QED
    BY <1>1, <1>6, <2>2, SettleType DEF Delete, Restore
<1>7. ASSUME NEW t \in Totals, NEW c \in BOOLEAN, Update(o, t, c) PROVE LedgerTypeOK'
  <2> DEFINE q == order[o]
  <2>1. q \in OrderRow /\ t \in Nat
    BY <1>1, <1>2
  <2>2. order' = [order EXCEPT ![o] = [q EXCEPT !.total = t, !.credit = c]]
    BY <1>1, <1>7 DEF Update
  <2> HIDE DEF q
  <2>3. order' \in [Orders -> OrderRow]
    BY <1>1, <2>1, <2>2 DEF OrderRow
  <2> QED
    BY <1>1, <1>7, <2>3, SettleType DEF Update
<1>8. ASSUME NEW t \in Totals, PartialDelivery(o, t) PROVE LedgerTypeOK'
  <2> DEFINE q == order[o]
             cut == q.cut \/ t < q.total
  <2>1. cut \in BOOLEAN /\ q \in OrderRow
    BY <1>1 DEF OrderRow
  <2>2. order' = [order EXCEPT ![o] = [q EXCEPT !.status = "delivered", !.total = t,
                                                !.out = FALSE, !.cut = cut]]
    BY <1>1, <1>8 DEF PartialDelivery
  <2> HIDE DEF q, cut
  <2>3. order' \in [Orders -> OrderRow]
    BY <1>1, <1>2, <2>1, <2>2 DEF OrderRow
  <2> QED
    BY <1>1, <1>8, <2>3, SettleType DEF PartialDelivery
<1>9. ASSUME NEW a \in Amounts, NEW m \in Methods, NEW f \in Offices, Pay(o, a, m, f)
      PROVE  LedgerTypeOK'
  <2> DEFINE received == f /\ m = "cash"
  <2>1. f \in BOOLEAN /\ received \in BOOLEAN
    BY DEF Offices
  <2>2. row' \in Insert(row, NewRow("payment", o, a, m, received))
    BY <1>9 DEF Pay
  <2> HIDE DEF received
  <2>3. row' \in Table
    BY <1>1, <1>2, <2>1, <2>2, InsertType
  <2>4. order' \in [Orders -> OrderRow]
    BY <1>1, <1>9, <2>1 DEF Pay, OrderRow
  <2> QED
    BY <1>1, <1>9, <2>3, <2>4, SettleType DEF Pay
<1>10. ASSUME NEW c \in Amounts, NEW e \in Amounts, Close(o, c, e) PROVE LedgerTypeOK'
  <2> DEFINE missing == Max0(Claimed(row, o) - c)
             surplus == Max0(c - Claimed(row, o))
             h == IF missing > 0 THEN missing ELSE order[o].shortage
  <2>1. row' \in Table /\ missing \in Nat /\ surplus \in Nat
    BY <1>2, <1>10, CloseType
  <2>2. /\ order' = [order EXCEPT ![o] = [order[o] EXCEPT !.closed = TRUE, !.shortage = h]]
        /\ shortfall' = [shortfall EXCEPT ![o] = @ + missing]
        /\ back' = back /\ seen' = seen
        /\ Settle \/ debt' = debt
    BY <1>1, <1>10 DEF Close
  <2>3. h \in Nat
    BY <1>1, <2>1 DEF OrderRow
  <2> HIDE DEF missing, surplus, h
  <2>4. order' \in [Orders -> OrderRow]
    BY <1>1, <2>2, <2>3 DEF OrderRow
  <2>5. shortfall' \in [Orders -> Nat]
    BY <1>1, <2>1, <2>2
  <2>6. CASE Settle
    BY <1>1, <2>1, <2>2, <2>4, <2>5, <2>6, SettleType
  <2>7. CASE debt' = debt
    BY <1>1, <2>1, <2>2, <2>4, <2>5, <2>7 DEF LedgerTypeOK, Table
  <2> QED
    BY <2>2, <2>6, <2>7
<1>11. CASE CourierCheck(o) \/ CourierDrop(o)
  <2>1. seen' \in [Orders -> Nat \cup {Unread}]
    BY <1>1, <1>11 DEF CourierCheck, CourierDrop, OrderRow
  <2> QED
    BY <1>1, <1>11, <2>1 DEF CourierCheck, CourierDrop, LedgerTypeOK, Table
<1>12. ASSUME NEW a \in Amounts, MarkDelivered(o, a) PROVE LedgerTypeOK'
  <2>1. seen[o] \in Nat /\ "cash" \in Methods
    BY <1>1, <1>12 DEF MarkDelivered, Methods
  <2>2. row' \in Table
    BY <1>1, <1>2, <1>12, <2>1, TakenType DEF MarkDelivered
  <2>3. order' \in [Orders -> OrderRow] /\ seen' \in [Orders -> Nat \cup {Unread}]
    BY <1>1, <1>12 DEF MarkDelivered, OrderRow
  <2> QED
    BY <1>1, <1>12, <2>2, <2>3, SettleType DEF MarkDelivered
<1>13. ASSUME NEW s \in {"delivered", "dropped"}, NEW t \in Totals, NEW a \in Amounts,
              NEW m \in Methods, CompleteDelivery(o, s, t, a, m)
       PROVE  LedgerTypeOK'
  <2> DEFINE q == order[o]
             cut == q.cut \/ t < q.total
  <2>1. cut \in BOOLEAN /\ q \in OrderRow
    BY <1>1 DEF OrderRow
  <2>2. order' = [order EXCEPT ![o] = [q EXCEPT !.status = s, !.total = t,
                                                !.out = FALSE, !.cut = cut]]
    BY <1>1, <1>13 DEF CompleteDelivery
  <2>3. row' \in Table
    BY <1>1, <1>2, <1>13, TakenType DEF CompleteDelivery
  <2> HIDE DEF q, cut
  <2>4. order' \in [Orders -> OrderRow]
    BY <1>1, <1>2, <2>1, <2>2 DEF OrderRow
  <2>5. seen' \in [Orders -> Nat \cup {Unread}]
    BY <1>1, <1>13 DEF CompleteDelivery
  <2> QED
    BY <1>1, <1>13, <2>3, <2>4, <2>5, SettleType DEF CompleteDelivery
<1> QED
  BY <1>4, <1>5, <1>6, <1>7, <1>8, <1>9, <1>10, <1>11, <1>12, <1>13, Zenon DEF NextOrder

LEMMA ShopTypes ==
    ASSUME LedgerTypeOK, NextShop
    PROVE  LedgerTypeOK'
<1>1. /\ row \in Table /\ order \in [Orders -> OrderRow]
      /\ back \in [Orders \cup {Loose} -> Nat] /\ debt \in Nat
      /\ seen \in [Orders -> Nat \cup {Unread}] /\ shortfall \in [Orders -> Nat]
  BY DEF LedgerTypeOK, Table
<1>2. \A n \in Totals \cup Amounts : n \in Nat
  BY LedgerConstants DEF Totals, Amounts
<1>3. ASSUME NEW kind \in {"payment", "debt"}, NEW a \in Amounts, NEW m \in Methods,
             NEW f \in BOOLEAN, ShopEntry(kind, a, m, f)
      PROVE  LedgerTypeOK'
  <2> DEFINE received == f /\ kind = "payment" /\ m = "cash"
  <2>1. received \in BOOLEAN /\ Loose \in Orders \cup {Loose}
    OBVIOUS
  <2>2. row' \in Insert(row, NewRow(kind, Loose, a, m, received))
    BY <1>3 DEF ShopEntry
  <2> HIDE DEF received
  <2>3. row' \in Table
    BY <1>1, <1>2, <2>1, <2>2, InsertType
  <2> QED
    BY <1>1, <1>3, <2>3, SettleType DEF ShopEntry
<1>4. ASSUME NEW p \in Payments, Reverse(p) PROVE LedgerTypeOK'
  <2>1. row' \in Table
    BY <1>1, <1>4 DEF Reverse, Table, PaymentRow
  <2> QED
    BY <1>1, <1>4, <2>1, SettleType DEF Reverse
<1>5. ASSUME NEW o \in Orders \cup {Loose}, NEW a \in Totals, CompleteReturn(o, a)
      PROVE  LedgerTypeOK'
  <2>1. back' \in [Orders \cup {Loose} -> Nat]
    BY <1>1, <1>2, <1>5 DEF CompleteReturn
  <2> QED
    BY <1>1, <1>5, <2>1, SettleType DEF CompleteReturn
<1> QED
  BY <1>3, <1>4, <1>5, Zenon DEF NextShop

LEMMA InitLedgerType == Init => LedgerTypeOK
BY DEF Init, LedgerTypeOK, NoOrder, NoRow, OrderRow, PaymentRow

\* Whatever the handlers do, money, totals and the balance stay natural numbers:
\* no reversal, return or overpayment takes shops.debt below zero.
THEOREM SpecLedgerTypeOK == Spec => []LedgerTypeOK
<1>1. LedgerTypeOK /\ [Next]_vars => LedgerTypeOK'
  <2> SUFFICES ASSUME LedgerTypeOK, [Next]_vars PROVE LedgerTypeOK'
    OBVIOUS
  <2>1. CASE Next
    BY <2>1, OrdersType, ShopTypes DEF Next
  <2>2. CASE UNCHANGED vars
    BY <2>2 DEF vars, LedgerTypeOK
  <2> QED
    BY <2>1, <2>2
<1> QED
  BY InitLedgerType, <1>1, PTL DEF Spec

---------------------------------------------------------------------------
(* The balance *)

\* The derivation looks at a row's kind, order and worth, and at nothing else.
LEMMA RecalcSame ==
    ASSUME NEW os, NEW bk, NEW rs, NEW t,
           \A p \in Payments : /\ t[p].kind = rs[p].kind /\ t[p].of = rs[p].of
                               /\ Worth(t[p]) = Worth(rs[p])
    PROVE  RecalcShopDebt(os, t, bk) = RecalcShopDebt(os, rs, bk)
<1>1. ASSUME NEW kind, NEW o PROVE Entered(t, kind, o) = Entered(rs, kind, o)
  BY DEF Entered
<1>2. ASSUME NEW o PROVE Paid(t, o) = Paid(rs, o)
  BY <1>1 DEF Paid
<1> DEFINE due(u)  == [o \in Orders |-> IF Owing(os[o]) THEN Max0(os[o].total - Paid(u, o)) ELSE 0]
           idle(u) == [o \in Orders |-> IF ~os[o].deleted /\ ~Owing(os[o]) THEN Paid(u, o) ELSE 0]
           gone    == [o \in Orders |-> IF Owing(os[o]) THEN bk[o] ELSE 0]
<1>3. due(t) = due(rs) /\ idle(t) = idle(rs)
  BY <1>2, Zenon
<1>4. \A u : RecalcShopDebt(os, u, bk)
        = Max0(SumFunction(due(u)) + Entered(u, "debt", Loose) - Paid(u, Loose)
               - SumFunction(idle(u)) - SumFunction(gone) - bk[Loose])
  BY DEF RecalcShopDebt
<1> HIDE DEF due, idle, gone
<1>5. Entered(t, "debt", Loose) = Entered(rs, "debt", Loose) /\ Paid(t, Loose) = Paid(rs, Loose)
  BY <1>1, <1>2
<1> QED
  BY <1>3, <1>4, <1>5

\* An untouched order whose closing changed owes the same.
LEMMA RecalcClosed ==
    ASSUME NEW os, NEW t, NEW bk, NEW rs,
           \A o \in Orders : /\ t[o].status = os[o].status /\ t[o].deleted = os[o].deleted
                             /\ t[o].credit = os[o].credit /\ t[o].total = os[o].total
    PROVE  RecalcShopDebt(t, rs, bk) = RecalcShopDebt(os, rs, bk)
<1>1. \A o \in Orders : Owing(t[o]) <=> Owing(os[o])
  BY DEF Owing
<1> DEFINE due(u)  == [o \in Orders |-> IF Owing(u[o]) THEN Max0(u[o].total - Paid(rs, o)) ELSE 0]
           idle(u) == [o \in Orders |-> IF ~u[o].deleted /\ ~Owing(u[o]) THEN Paid(rs, o) ELSE 0]
           gone(u) == [o \in Orders |-> IF Owing(u[o]) THEN bk[o] ELSE 0]
<1>2. due(t) = due(os)
  BY <1>1, Zenon
<1>3. idle(t) = idle(os)
  BY <1>1, Zenon
<1>4. gone(t) = gone(os)
  BY <1>1, Zenon
<1>5. \A u : RecalcShopDebt(u, rs, bk)
        = Max0(SumFunction(due(u)) + Entered(rs, "debt", Loose) - Paid(rs, Loose)
               - SumFunction(idle(u)) - SumFunction(gone(u)) - bk[Loose])
  BY DEF RecalcShopDebt
<1> QED
  BY <1>2, <1>3, <1>4, <1>5, Zenon

\* A closing that adds no row leaves the table's worth as it is.
LEMMA QuietClosing ==
    ASSUME LedgerTypeOK, NEW o \in Orders, NEW cash \in Nat, NEW extra \in Nat,
           Close(o, cash, extra), UNCHANGED debt,
           Max0(cash - Claimed(row, o)) + extra = 0
    PROVE  RecalcShopDebt(order', row', back') = RecalcShopDebt(order, row, back)
<1> DEFINE counted == [p \in Payments |->
                        IF p \in OnHands(row, o) THEN [row[p] EXCEPT !.received = TRUE]
                                                 ELSE row[p]]
           surplus == Max0(cash - Claimed(row, o))
           missing == Max0(Claimed(row, o) - cash)
<1>1. surplus \in Nat
  BY CloseType
<1>2. surplus = 0 /\ extra = 0
  BY <1>1
<1>3. PICK table \in Insert(counted, NewRow("payment", o, surplus, "cash", TRUE)) :
        row' \in Insert(table, NewRow("payment", o, extra, "bank", FALSE))
  BY Zenon DEF Close
<1>4. row' = counted
  <2> HIDE DEF counted, surplus
  <2> QED
    BY <1>2, <1>3 DEF Insert, NewRow
<1>5. \A p \in Payments : /\ counted[p].kind = row[p].kind /\ counted[p].of = row[p].of
                          /\ Worth(counted[p]) = Worth(row[p])
  BY DEF LedgerTypeOK, PaymentRow, Worth
<1>6. \A u \in Orders :
        /\ order'[u].status = order[u].status /\ order'[u].deleted = order[u].deleted
        /\ order'[u].credit = order[u].credit /\ order'[u].total = order[u].total
  BY DEF Close, LedgerTypeOK, OrderRow
<1>7. back' = back
  BY DEF Close
<1> HIDE DEF counted
<1>8. RecalcShopDebt(order', row', back') = RecalcShopDebt(order, row', back')
  BY <1>6, RecalcClosed
<1>9. RecalcShopDebt(order, row', back') = RecalcShopDebt(order, row, back)
  BY <1>4, <1>5, <1>7, RecalcSame
<1> QED
  BY <1>8, <1>9

\* A step that touches neither orders, rows, returns nor the balance.
LEMMA NothingMoved ==
    ASSUME DebtIsDerived, UNCHANGED <<order, row, back, debt>>
    PROVE  DebtIsDerived'
BY DEF DebtIsDerived

LEMMA CloseDerived ==
    ASSUME LedgerTypeOK, DebtIsDerived, NEW o \in Orders, NEW cash \in Nat, NEW extra \in Nat,
           Close(o, cash, extra)
    PROVE  DebtIsDerived'
<1>1. CASE Settle
  BY <1>1 DEF Settle, DebtIsDerived
<1>2. CASE ~Settle
  <2> DEFINE surplus == Max0(cash - Claimed(row, o))
  <2>1. surplus \in Nat
    BY CloseType
  <2>2. IF surplus + extra > 0 THEN Settle ELSE UNCHANGED debt
    BY Zenon DEF Close
  <2>3. surplus + extra = 0 /\ UNCHANGED debt
    <3> HIDE DEF surplus
    <3> QED
      BY <1>2, <2>1, <2>2
  <2>4. RecalcShopDebt(order', row', back') = RecalcShopDebt(order, row, back)
    BY <2>3, QuietClosing
  <2> QED
    BY <2>3, <2>4 DEF DebtIsDerived
<1> QED
  BY <1>1, <1>2

\* No handler forgets the balance (shop-debt.ts): whatever the calls and their
\* order, shops.debt is what recalcShopDebt would derive from the tables, also
\* after a closing that skips the derivation (order-close.ts).
THEOREM SpecDebtIsDerived == Spec => []DebtIsDerived
<1>1. Init => DebtIsDerived
  <2> SUFFICES ASSUME Init PROVE debt = RecalcShopDebt(order, row, back)
    BY DEF DebtIsDerived
  <2> DEFINE due  == [o \in Orders |-> IF Owing(order[o]) THEN Max0(order[o].total - Paid(row, o)) ELSE 0]
             idle == [o \in Orders |-> IF ~order[o].deleted /\ ~Owing(order[o]) THEN Paid(row, o) ELSE 0]
             gone == [o \in Orders |-> IF Owing(order[o]) THEN back[o] ELSE 0]
  <2>1. ASSUME NEW kind \in {"payment", "debt"}, NEW o PROVE Entered(row, kind, o) = 0
    <3> DEFINE f == [p \in Payments |->
                       IF row[p].kind = kind /\ row[p].of = o THEN Worth(row[p]) ELSE 0]
    <3>1. \A p \in DOMAIN f : f[p] = 0
      BY DEF Init, NoRow
    <3>2. IsFiniteSet(DOMAIN f)
      BY LedgerConstants
    <3> HIDE DEF f
    <3>3. SumFunction(f) = 0
      BY <3>1, <3>2, Sum0
    <3> QED
      BY <3>3 DEF Entered, f
  <2>2. \A o : Paid(row, o) = 0
    BY <2>1 DEF Paid
  <2>3. \A o \in Orders : ~Owing(order[o])
    BY DEF Init, NoOrder, Owing
  <2>4. \A o \in Orders : due[o] = 0 /\ idle[o] = 0 /\ gone[o] = 0
    BY <2>2, <2>3
  <2>5. RecalcShopDebt(order, row, back)
          = Max0(SumFunction(due) + Entered(row, "debt", Loose) - Paid(row, Loose)
                 - SumFunction(idle) - SumFunction(gone) - back[Loose])
    BY DEF RecalcShopDebt
  <2>6. DOMAIN due = Orders /\ DOMAIN idle = Orders /\ DOMAIN gone = Orders
    OBVIOUS
  <2> HIDE DEF due, idle, gone
  <2>7. SumFunction(due) = 0 /\ SumFunction(idle) = 0 /\ SumFunction(gone) = 0
    BY <2>4, <2>6, Sum0, LedgerConstants
  <2>8. back[Loose] = 0 /\ debt = 0
    BY DEF Init
  <2> QED
    BY <2>1, <2>2, <2>5, <2>7, <2>8 DEF Max0
<1>2. LedgerTypeOK /\ DebtIsDerived /\ [Next]_vars => DebtIsDerived'
  <2> SUFFICES ASSUME LedgerTypeOK, DebtIsDerived, [Next]_vars PROVE DebtIsDerived'
    OBVIOUS
  <2>1. ASSUME NEW o \in Orders, NextOrder(o) PROVE DebtIsDerived'
    <3>1. ASSUME NEW c \in Amounts, NEW e \in Amounts, Close(o, c, e) PROVE DebtIsDerived'
      BY <3>1, CloseDerived, LedgerConstants DEF Amounts
    <3>2. CASE CourierCheck(o) \/ CourierDrop(o)
      BY <3>2, NothingMoved DEF CourierCheck, CourierDrop
    <3>3. ASSUME Settle PROVE DebtIsDerived'
      BY <3>3 DEF Settle, DebtIsDerived
    <3>4. (\E c \in Amounts, e \in Amounts : Close(o, c, e))
            \/ CourierCheck(o) \/ CourierDrop(o) \/ Settle
      BY <2>1, Zenon DEF NextOrder, Create, SetStatus, Delete, Restore, Update,
         PartialDelivery, Pay, MarkDelivered, CompleteDelivery
    <3> QED
      BY <3>1, <3>2, <3>3, <3>4
  <2>2. CASE NextShop
    <3>1. Settle
      BY <2>2, Zenon DEF NextShop, ShopEntry, Reverse, CompleteReturn
    <3> QED
      BY <3>1 DEF Settle, DebtIsDerived
  <2>3. CASE UNCHANGED vars
    BY <2>3, NothingMoved DEF vars
  <2> QED
    BY <2>1, <2>2, <2>3 DEF Next
<1> QED
  BY <1>1, <1>2, SpecLedgerTypeOK, PTL DEF Spec

---------------------------------------------------------------------------
(* What the handlers do to the sum paid on an order, for every finite set of *)
(* orders and payments and every bound                                     *)

\* The term of row r in the sum paid on o.
PaidBy(r, o) == IF r.kind = "payment" /\ r.of = o THEN Worth(r) ELSE 0

LEMMA PaidIsSum ==
    ASSUME NEW rs, NEW o
    PROVE  Paid(rs, o) = SumFunctionOnSet([p \in Payments |-> PaidBy(rs[p], o)], Payments)
<1> DEFINE f == [p \in Payments |-> IF rs[p].kind = "payment" /\ rs[p].of = o
                                    THEN Worth(rs[p]) ELSE 0]
<1>1. Paid(rs, o) = SumFunction(f)
  BY DEF Paid, Entered
<1>2. f = [p \in Payments |-> PaidBy(rs[p], o)] /\ DOMAIN f = Payments
  BY DEF PaidBy
<1> HIDE DEF f
<1> QED
  BY <1>1, <1>2 DEF SumFunction

LEMMA PaidByNat ==
    ASSUME NEW rs \in Table, NEW p \in Payments, NEW o
    PROVE  PaidBy(rs[p], o) \in Nat
BY DEF Table, PaymentRow, PaidBy, Worth

\* One changed row changes the sum paid on an order by its own term.
LEMMA PaidChange ==
    ASSUME NEW rs \in Table, NEW t \in Table, NEW q \in Payments, NEW o,
           \A p \in Payments \ {q} : t[p] = rs[p]
    PROVE  Paid(t, o) = Paid(rs, o) + (PaidBy(t[q], o) - PaidBy(rs[q], o))
<1> DEFINE f == [p \in Payments |-> PaidBy(rs[p], o)]
           g == [p \in Payments |-> PaidBy(t[p], o)]
<1>1. \A p \in Payments : f[p] \in Int /\ g[p] \in Int
  BY PaidByNat
<1>2. \A p \in Payments \ {q} : f[p] = g[p]
  OBVIOUS
<1>3. f[q] = PaidBy(rs[q], o) /\ g[q] = PaidBy(t[q], o)
  OBVIOUS
<1>4. Paid(rs, o) = SumFunctionOnSet(f, Payments) /\ Paid(t, o) = SumFunctionOnSet(g, Payments)
  BY PaidIsSum
<1> HIDE DEF f, g
<1>5. SumFunctionOnSet(g, Payments) = SumFunctionOnSet(f, Payments) + (g[q] - f[q])
  BY <1>1, <1>2, LedgerConstants, SumChange
<1> QED
  BY <1>3, <1>4, <1>5

LEMMA PaidNat == ASSUME NEW rs \in Table, NEW o PROVE Paid(rs, o) \in Nat
BY EnteredNat DEF Paid, Table

\* Rows of equal kind, order and worth make equal sums.
LEMMA PaidSame ==
    ASSUME NEW rs, NEW t, NEW o,
           \A p \in Payments : /\ t[p].kind = rs[p].kind /\ t[p].of = rs[p].of
                               /\ Worth(t[p]) = Worth(rs[p])
    PROVE  Paid(t, o) = Paid(rs, o)
BY DEF Paid, Entered

\* An INSERT adds the term of its row, and nothing else.
LEMMA PaidInsert ==
    ASSUME NEW rs \in Table, NEW r \in PaymentRow, NEW t \in Insert(rs, r), NEW o
    PROVE  t \in Table /\ Paid(t, o) = Paid(rs, o) + PaidBy(r, o)
<1>1. t \in Table
  BY DEF Insert, Table
<1>2. Paid(rs, o) \in Nat
  BY PaidNat
<1>3. CASE r.amount = 0
  <2>1. t = rs /\ PaidBy(r, o) = 0
    BY <1>3 DEF Insert, PaidBy, Worth
  <2> QED
    BY <1>1, <1>2, <2>1
<1>4. CASE r.amount # 0
  <2>1. PICK q \in Payments : rs[q].kind = "none" /\ t = [rs EXCEPT ![q] = r]
    BY <1>4 DEF Insert
  <2>2. t[q] = r /\ \A p \in Payments \ {q} : t[p] = rs[p]
    BY <2>1 DEF Table
  <2>3. PaidBy(rs[q], o) = 0
    BY <2>1 DEF PaidBy
  <2>4. Paid(t, o) = Paid(rs, o) + (PaidBy(r, o) - 0)
    BY <1>1, <2>2, <2>3, PaidChange
  <2>5. PaidBy(r, o) \in Nat
    BY DEF PaymentRow, PaidBy, Worth
  <2> QED
    BY <1>1, <1>2, <2>4, <2>5
<1> QED
  BY <1>3, <1>4

\* The term of a payment just taken.
LEMMA NewRowPays ==
    ASSUME NEW of \in Orders \cup {Loose}, NEW amount \in Nat, NEW method \in Methods,
           NEW received \in BOOLEAN
    PROVE  /\ NewRow("payment", of, amount, method, received) \in PaymentRow
           /\ \A o : PaidBy(NewRow("payment", of, amount, method, received), o)
                      = IF of = o THEN amount ELSE 0
BY DEF NewRow, PaymentRow, Methods, PaidBy, Worth

---------------------------------------------------------------------------
(* No order is paid beyond its total *)

\* From table rs to table t and totals os: who is paid more is paid within the total.
Fits(rs, t, os) == \A o \in Orders : Paid(t, o) > Paid(rs, o) => Paid(t, o) <= os[o].total

LEMMA RowsStill ==
    ASSUME row \in Table, UNCHANGED row
    PROVE  Fits(row, row', order')
<1>1. \A o \in Orders : Paid(row, o) \in Nat
  BY PaidNat
<1> QED
  BY <1>1 DEF Fits

LEMMA PayFits ==
    ASSUME LedgerTypeOK, NEW o \in Orders, NEW a \in Nat, NEW m \in Methods,
           NEW f \in BOOLEAN, Pay(o, a, m, f)
    PROVE  Fits(row, row', order')
<1> DEFINE received == f /\ m = "cash"
<1>1. row \in Table /\ received \in BOOLEAN
  BY DEF LedgerTypeOK, Table
<1>2. row' \in Insert(row, NewRow("payment", o, a, m, received))
  BY DEF Pay
<1>3. order'[o].total = order[o].total
  BY DEF Pay, LedgerTypeOK, OrderRow
<1>4. Paid(row, o) + a <= order[o].total
  BY DEF Pay
<1> DEFINE r == NewRow("payment", o, a, m, received)
<1> HIDE DEF received
<1>5. r \in PaymentRow /\ \A u : PaidBy(r, u) = IF o = u THEN a ELSE 0
  BY <1>1, NewRowPays
<1>6. row' \in Insert(row, r)
  BY <1>2
<1> HIDE DEF r
<1>7. \A u \in Orders : Paid(row, u) \in Nat /\ Paid(row', u) = Paid(row, u) + PaidBy(r, u)
  BY <1>1, <1>5, <1>6, PaidInsert, PaidNat
<1> QED
  BY <1>3, <1>4, <1>5, <1>7 DEF Fits

LEMMA EntryFits ==
    ASSUME LedgerTypeOK, NEW kind \in {"payment", "debt"}, NEW a \in Nat, NEW m \in Methods,
           NEW f \in BOOLEAN, ShopEntry(kind, a, m, f)
    PROVE  Fits(row, row', order')
<1> DEFINE received == f /\ kind = "payment" /\ m = "cash"
<1>1. row \in Table /\ received \in BOOLEAN
  BY DEF LedgerTypeOK, Table
<1> DEFINE r == NewRow(kind, Loose, a, m, received)
<1>2. row' \in Insert(row, r)
  BY DEF ShopEntry
<1> HIDE DEF received
<1>3. r \in PaymentRow
  BY <1>1 DEF NewRow, PaymentRow, Methods
<1>4. \A u \in Orders : PaidBy(r, u) = 0
  BY LedgerConstants DEF NewRow, PaidBy
<1> HIDE DEF r
<1>5. \A u \in Orders : Paid(row, u) \in Nat /\ Paid(row', u) = Paid(row, u) + PaidBy(r, u)
  BY <1>1, <1>2, <1>3, PaidInsert, PaidNat
<1> QED
  BY <1>4, <1>5 DEF Fits

LEMMA ReverseFits ==
    ASSUME LedgerTypeOK, NEW p \in Payments, Reverse(p)
    PROVE  Fits(row, row', order')
<1>1. row \in Table /\ row' \in Table
  BY DEF LedgerTypeOK, Table, Reverse, PaymentRow
<1>2. row'[p].reversed /\ \A q \in Payments \ {p} : row'[q] = row[q]
  BY DEF Reverse, LedgerTypeOK, PaymentRow
<1>3. \A u \in Orders : PaidBy(row'[p], u) = 0
  BY <1>2 DEF PaidBy, Worth
<1>4. \A u \in Orders : /\ Paid(row, u) \in Nat /\ PaidBy(row[p], u) \in Nat
                        /\ Paid(row', u) = Paid(row, u) + (0 - PaidBy(row[p], u))
  <2> TAKE u \in Orders
  <2>1. Paid(row', u) = Paid(row, u) + (PaidBy(row'[p], u) - PaidBy(row[p], u))
    BY <1>1, <1>2, PaidChange
  <2> QED
    BY <1>1, <1>3, <2>1, PaidNat, PaidByNat
<1> QED
  BY <1>4 DEF Fits

LEMMA CloseFits ==
    ASSUME LedgerTypeOK, NEW o \in Orders, NEW cash \in Nat, NEW extra \in Nat,
           Close(o, cash, extra)
    PROVE  Fits(row, row', order')
<1> DEFINE counted == [p \in Payments |->
                        IF p \in OnHands(row, o) THEN [row[p] EXCEPT !.received = TRUE]
                                                 ELSE row[p]]
           surplus == Max0(cash - Claimed(row, o))
<1>1. row \in Table /\ counted \in Table
  BY DEF LedgerTypeOK, Table, PaymentRow
<1>2. \A p \in Payments : /\ counted[p].kind = row[p].kind /\ counted[p].of = row[p].of
                          /\ Worth(counted[p]) = Worth(row[p])
  BY DEF LedgerTypeOK, PaymentRow, Worth
<1>3. surplus \in Nat
  BY CloseType
<1>4. PICK table \in Insert(counted, NewRow("payment", o, surplus, "cash", TRUE)) :
        row' \in Insert(table, NewRow("payment", o, extra, "bank", FALSE))
  BY Zenon DEF Close
<1>5. Paid(row, o) + surplus + extra <= order[o].total
  BY Zenon DEF Close
<1>6. order'[o].total = order[o].total
  BY DEF Close, LedgerTypeOK, OrderRow
<1> DEFINE r == NewRow("payment", o, surplus, "cash", TRUE)
           x == NewRow("payment", o, extra, "bank", FALSE)
<1>7. /\ r \in PaymentRow /\ \A u : PaidBy(r, u) = IF o = u THEN surplus ELSE 0
      /\ x \in PaymentRow /\ \A u : PaidBy(x, u) = IF o = u THEN extra ELSE 0
  <2> HIDE DEF surplus
  <2> QED
    BY <1>3 DEF NewRow, PaymentRow, PaidBy, Worth
<1>8. table \in Insert(counted, r) /\ row' \in Insert(table, x)
  BY <1>4
<1> HIDE DEF counted, surplus, r, x
<1>9. \A u \in Orders : /\ Paid(row, u) \in Nat
                        /\ Paid(row', u) = Paid(row, u) + (IF o = u THEN surplus + extra ELSE 0)
  <2> TAKE u \in Orders
  <2>1. Paid(counted, u) = Paid(row, u)
    BY <1>2, PaidSame
  <2>2. table \in Table /\ Paid(table, u) = Paid(counted, u) + PaidBy(r, u)
    BY <1>1, <1>7, <1>8, PaidInsert
  <2>3. Paid(row', u) = Paid(table, u) + PaidBy(x, u)
    BY <1>7, <1>8, <2>2, PaidInsert
  <2>4. Paid(row, u) \in Nat
    BY <1>1, PaidNat
  <2> QED
    BY <1>3, <1>7, <2>1, <2>2, <2>3, <2>4
<1>10. ASSUME NEW u \in Orders, Paid(row', u) > Paid(row, u)
       PROVE  Paid(row', u) <= order'[u].total
  BY <1>3, <1>5, <1>6, <1>9, <1>10
<1> QED
  BY <1>10 DEF Fits

\* What a courier's cash adds to the order stays within the total it is measured by.
LEMMA TakenFits ==
    ASSUME row \in Table, NEW o \in Orders, NEW total \in Nat, NEW amount \in Nat,
           NEW method \in Methods, NEW t \in Taken(o, total, amount, method), NEW u \in Orders
    PROVE  Paid(t, u) > Paid(row, u) => u = o /\ Paid(t, u) <= total
<1> DEFINE onOrder == Least(amount, Max0(total - Paid(row, o)))
<1>1. PICK table \in Insert(row, NewRow("payment", o, onOrder, method, FALSE)) :
        t \in Insert(table, NewRow("payment", Loose, amount - onOrder, "cash", FALSE))
  BY DEF Taken
<1>2. Paid(row, o) \in Nat /\ Paid(row, u) \in Nat
  BY PaidNat
<1>3. /\ onOrder \in Nat /\ amount - onOrder \in Nat
      /\ onOrder > 0 => Paid(row, o) + onOrder <= total
  BY <1>2 DEF Least, Max0
<1> DEFINE r == NewRow("payment", o, onOrder, method, FALSE)
           x == NewRow("payment", Loose, amount - onOrder, "cash", FALSE)
<1>4. table \in Insert(row, r) /\ t \in Insert(table, x)
  BY <1>1
<1> HIDE DEF onOrder
<1>5. /\ r \in PaymentRow /\ PaidBy(r, u) = IF o = u THEN onOrder ELSE 0
      /\ x \in PaymentRow /\ PaidBy(x, u) = 0
  BY <1>3, LedgerConstants DEF NewRow, PaymentRow, PaidBy, Worth, Methods
<1> HIDE DEF r, x
<1>6. table \in Table /\ Paid(table, u) = Paid(row, u) + PaidBy(r, u)
  BY <1>4, <1>5, PaidInsert
<1>7. Paid(t, u) = Paid(table, u) + PaidBy(x, u)
  BY <1>4, <1>5, <1>6, PaidInsert
<1> QED
  BY <1>2, <1>3, <1>5, <1>6, <1>7

LEMMA CompleteFits ==
    ASSUME LedgerTypeOK, NEW o \in Orders, NEW s, NEW t \in Nat, NEW a \in Nat,
           NEW m \in Methods, CompleteDelivery(o, s, t, a, m)
    PROVE  Fits(row, row', order')
<1>1. row \in Table
  BY DEF LedgerTypeOK, Table
<1>2. row' \in Taken(o, t, a, m)
  BY DEF CompleteDelivery
<1>3. order'[o].total = t
  BY DEF CompleteDelivery, LedgerTypeOK, OrderRow
<1>4. \A u \in Orders : Paid(row', u) > Paid(row, u) => u = o /\ Paid(row', u) <= t
  BY <1>1, <1>2, TakenFits
<1> QED
  BY <1>3, <1>4 DEF Fits

\* Every step fits, if what markDelivered does fits.
LEMMA NextFits ==
    ASSUME LedgerTypeOK, [Next]_vars,
           "mark" \in Ops => \A o \in Orders, a \in Amounts :
                               MarkDelivered(o, a) => Fits(row, row', order')
    PROVE  Fits(row, row', order')
<1>1. row \in Table /\ \A n \in Totals \cup Amounts : n \in Nat
  BY LedgerConstants DEF LedgerTypeOK, Table, Totals, Amounts
<1>2. ASSUME NEW o \in Orders, NextOrder(o) PROVE Fits(row, row', order')
  <2>1. CASE UNCHANGED row
    BY <1>1, <2>1, RowsStill
  <2>2. ASSUME NEW a \in Amounts, NEW m \in Methods, NEW f \in Offices, Pay(o, a, m, f)
        PROVE  Fits(row, row', order')
    BY <1>1, <2>2, PayFits DEF Offices
  <2>3. ASSUME NEW c \in Amounts, NEW e \in Amounts, Close(o, c, e)
        PROVE  Fits(row, row', order')
    BY <1>1, <2>3, CloseFits
  <2>4. ASSUME NEW s \in {"delivered", "dropped"}, NEW t \in Totals, NEW a \in Amounts,
               NEW m \in Methods, CompleteDelivery(o, s, t, a, m)
        PROVE  Fits(row, row', order')
    BY <1>1, <2>4, CompleteFits
  <2> QED
    BY <1>2, <2>1, <2>2, <2>3, <2>4, Zenon DEF NextOrder, Create, SetStatus, Delete,
       Restore, Update, PartialDelivery, CourierCheck, CourierDrop
<1>3. CASE NextShop
  <2>1. ASSUME NEW k \in {"payment", "debt"}, NEW a \in Amounts, NEW m \in Methods,
               NEW f \in BOOLEAN, ShopEntry(k, a, m, f)
        PROVE  Fits(row, row', order')
    BY <1>1, <2>1, EntryFits
  <2>2. ASSUME NEW p \in Payments, Reverse(p) PROVE Fits(row, row', order')
    BY <2>2, ReverseFits
  <2>3. ASSUME NEW o, NEW a, CompleteReturn(o, a) PROVE Fits(row, row', order')
    BY <1>1, <2>3, RowsStill DEF CompleteReturn
  <2> QED
    BY <1>3, <2>1, <2>2, <2>3, Zenon DEF NextShop
<1>4. CASE UNCHANGED vars
  BY <1>1, <1>4, RowsStill DEF vars
<1> QED
  BY <1>2, <1>3, <1>4 DEF Next

\* No payment is recorded on an order beyond its total (payment.ts,
\* courier-delivery.ts, order-close.ts), whatever the edits, returns and
\* reversals between them; markDelivered, which measures the cash against a
\* total it read before, is the one handler left out.
THEOREM SpecPaymentFits ==
    ASSUME "mark" \notin Ops
    PROVE  Spec => PaymentFits
<1>1. LedgerTypeOK /\ [Next]_vars
        => [\A o \in Orders : Paid(row', o) > Paid(row, o) => Paid(row', o) <= order'[o].total]_vars
  BY NextFits DEF Fits
<1> QED
  BY SpecLedgerTypeOK, <1>1, PTL DEF Spec, PaymentFits

---------------------------------------------------------------------------
(* The shop's account *)

\* An order that was never created has nothing; no order is paid, or about to be
\* paid by a courier, beyond its total.
WithinTotal ==
    \A o \in Orders : /\ order[o].status = "none" => order[o].total = 0 /\ ~order[o].out
                                                     /\ ~order[o].deleted
                      /\ Paid(row, o) <= order[o].total
                      /\ seen[o] # Unread => seen[o] <= order[o].total

\* Order o changed, no other did; its total did not fall.
Grows(o) ==
    /\ \A u \in Orders \ {o} : order'[u] = order[u]
    /\ order'[o].total >= order[o].total
    /\ order'[o].status # "none"

\* Where no handler lowers a total, orders only grow.
LEMMA OrderGrows ==
    ASSUME LedgerTypeOK, WithinTotal, "cut" \notin Ops, NEW o \in Orders, NextOrder(o)
    PROVE  UNCHANGED order \/ Grows(o)
<1>1. order \in [Orders -> OrderRow] /\ order[o].total \in Nat
  BY DEF LedgerTypeOK, OrderRow
<1>2. order[o].status = "none" => order[o].total = 0 /\ ~order[o].out /\ ~order[o].deleted
  BY DEF WithinTotal
<1>3. \A n \in Totals : n \in Nat
  BY LedgerConstants DEF Totals
<1>4. ASSUME NEW t \in Totals, NEW c \in BOOLEAN, Create(o, t, c) PROVE Grows(o)
  BY <1>1, <1>2, <1>3, <1>4 DEF Create, OrderRow, NoOrder, Grows
<1>5. ASSUME NEW s \in {"open", "delivered", "dropped"}, SetStatus(o, s) PROVE Grows(o)
  BY <1>1, <1>5 DEF SetStatus, OrderRow, Grows
<1>6. ASSUME Delete(o) PROVE Grows(o)
  BY <1>1, <1>6 DEF Delete, Live, OrderRow, Grows
<1>7. ASSUME Restore(o) PROVE Grows(o)
  BY <1>1, <1>2, <1>7 DEF Restore, OrderRow, Grows
<1>8. ASSUME NEW t \in Totals, NEW c \in BOOLEAN, Update(o, t, c) PROVE Grows(o)
  BY <1>1, <1>3, <1>8 DEF Update, Live, OrderRow, Grows
<1>9. ASSUME NEW t \in Totals, PartialDelivery(o, t) PROVE Grows(o)
  BY <1>1, <1>3, <1>9 DEF PartialDelivery, OrderRow, Grows
<1>10. ASSUME NEW a, NEW m, NEW f \in BOOLEAN, Pay(o, a, m, f) PROVE UNCHANGED order \/ Grows(o)
  <2>1. order' = order \/ order' = [order EXCEPT ![o].closed = f]
    BY <1>10 DEF Pay
  <2>2. order[o].status # "none"
    BY <1>10 DEF Pay, Live
  <2> QED
    BY <1>1, <2>1, <2>2 DEF OrderRow, Grows
<1>11. ASSUME NEW c, NEW e, Close(o, c, e) PROVE Grows(o)
  <2>1. PICK h : order' = [order EXCEPT ![o].closed = TRUE, ![o].shortage = h]
    BY <1>1, <1>11 DEF Close
  <2>2. order[o].status = "delivered"
    BY <1>11 DEF Close
  <2> QED
    BY <1>1, <2>1, <2>2 DEF OrderRow, Grows
<1>12. ASSUME NEW a, MarkDelivered(o, a) PROVE Grows(o)
  BY <1>1, <1>12 DEF MarkDelivered, OrderRow, Grows
<1>13. ASSUME NEW s \in {"delivered", "dropped"}, NEW t \in Totals, NEW a, NEW m,
              CompleteDelivery(o, s, t, a, m)
       PROVE  Grows(o)
  BY <1>1, <1>3, <1>13 DEF CompleteDelivery, OrderRow, Grows
<1>14. ASSUME CourierCheck(o) \/ CourierDrop(o) PROVE UNCHANGED order
  BY <1>14 DEF CourierCheck, CourierDrop
<1>15. \A f \in Offices : f \in BOOLEAN
  BY DEF Offices
<1> QED
  BY <1>4, <1>5, <1>6, <1>7, <1>8, <1>9, <1>10, <1>11, <1>12, <1>13, <1>14, <1>15, Zenon
     DEF NextOrder

\* What a courier's call has read is the total of this state or of an earlier one.
LEMMA SeenStep ==
    ASSUME LedgerTypeOK, [Next]_vars, NEW u \in Orders
    PROVE  seen'[u] \in {Unread, seen[u], order[u].total}
<1>1. seen \in [Orders -> Nat \cup {Unread}]
  BY DEF LedgerTypeOK
<1>2. CASE UNCHANGED seen
  BY <1>1, <1>2
<1>3. ASSUME NEW o \in Orders, CourierCheck(o)
      PROVE  seen'[u] \in {Unread, seen[u], order[u].total}
  BY <1>1, <1>3 DEF CourierCheck
<1>4. ASSUME NEW o \in Orders, seen' = [seen EXCEPT ![o] = Unread]
      PROVE  seen'[u] \in {Unread, seen[u], order[u].total}
  BY <1>1, <1>4
<1>5. UNCHANGED seen \/ (\E o \in Orders : CourierCheck(o) \/ seen' = [seen EXCEPT ![o] = Unread])
  <2>1. ASSUME NEW o \in Orders, NextOrder(o)
        PROVE  UNCHANGED seen \/ CourierCheck(o) \/ seen' = [seen EXCEPT ![o] = Unread]
    BY <2>1, Zenon DEF NextOrder, Create, SetStatus, Delete, Restore, Update, PartialDelivery,
       Pay, Close, CourierDrop, MarkDelivered, CompleteDelivery
  <2>2. CASE NextShop
    BY <2>2, Zenon DEF NextShop, ShopEntry, Reverse, CompleteReturn
  <2>3. CASE UNCHANGED vars
    BY <2>3 DEF vars
  <2> QED
    BY <2>1, <2>2, <2>3, Zenon DEF Next
<1> QED
  BY <1>2, <1>3, <1>4, <1>5

\* A delivery measured by an older total fits, since that total has only grown.
LEMMA MarkFits ==
    ASSUME LedgerTypeOK, WithinTotal, NEW o \in Orders, NEW a \in Nat, MarkDelivered(o, a)
    PROVE  Fits(row, row', order')
<1>1. row \in Table /\ order[o].total \in Nat
  BY DEF LedgerTypeOK, Table, OrderRow
<1>2. seen[o] \in Nat /\ seen[o] <= order[o].total
  BY DEF LedgerTypeOK, MarkDelivered, WithinTotal
<1>3. order'[o].total = order[o].total
  BY DEF MarkDelivered, LedgerTypeOK, OrderRow
<1>4. row' \in Taken(o, seen[o], a, "cash") /\ "cash" \in Methods
  BY DEF MarkDelivered, Methods
<1>5. \A u \in Orders : Paid(row', u) > Paid(row, u) => u = o /\ Paid(row', u) <= seen[o]
  BY <1>1, <1>2, <1>4, TakenFits
<1>6. \A u \in Orders : Paid(row', u) \in Nat
  <2>1. row' \in Table
    BY <1>2, <1>4, <1>1, TakenType
  <2> QED
    BY <2>1, PaidNat
<1> QED
  BY <1>1, <1>2, <1>3, <1>5, <1>6 DEF Fits

LEMMA WithinTotalInductive ==
    ASSUME LedgerTypeOK, LedgerTypeOK', WithinTotal, [Next]_vars, "cut" \notin Ops
    PROVE  WithinTotal'
<1>1. Fits(row, row', order')
  <2>1. \A a \in Amounts : a \in Nat
    BY LedgerConstants DEF Amounts
  <2> QED
    BY <2>1, MarkFits, NextFits
<1>2. ASSUME NEW u \in Orders
      PROVE  \/ order'[u] = order[u]
             \/ order'[u].total >= order[u].total /\ order'[u].status # "none"
  <2>1. CASE UNCHANGED order
    BY <2>1
  <2>2. ASSUME NEW o \in Orders, NextOrder(o), Grows(o)
        PROVE  \/ order'[u] = order[u]
               \/ order'[u].total >= order[u].total /\ order'[u].status # "none"
    BY <2>2 DEF Grows
  <2>3. UNCHANGED order \/ \E o \in Orders : NextOrder(o) /\ Grows(o)
    <3>1. NextShop => UNCHANGED order
      BY Zenon DEF NextShop, ShopEntry, Reverse, CompleteReturn
    <3> QED
      BY <3>1, OrderGrows DEF Next, vars
  <2> QED
    BY <2>1, <2>2, <2>3
<1>3. ASSUME NEW u \in Orders
      PROVE  /\ order'[u].status = "none" => order'[u].total = 0 /\ ~order'[u].out
                                             /\ ~order'[u].deleted
             /\ Paid(row', u) <= order'[u].total
             /\ seen'[u] # Unread => seen'[u] <= order'[u].total
  <2>1. /\ order[u].status = "none" => order[u].total = 0 /\ ~order[u].out /\ ~order[u].deleted
        /\ Paid(row, u) <= order[u].total
        /\ seen[u] # Unread => seen[u] <= order[u].total
    BY DEF WithinTotal
  <2>2. order[u].total \in Nat /\ order'[u].total \in Nat /\ seen[u] \in Nat \cup {Unread}
    BY DEF LedgerTypeOK, OrderRow
  <2>3. Paid(row, u) \in Nat /\ Paid(row', u) \in Nat
    BY PaidNat DEF LedgerTypeOK, Table
  <2>4. order'[u].total >= order[u].total
    BY <1>2, <2>2
  <2>5. order'[u].status = "none" => order'[u] = order[u]
    BY <1>2
  <2>6. Paid(row', u) <= order'[u].total
    BY <1>1, <2>1, <2>2, <2>3, <2>4 DEF Fits
  <2>7. seen'[u] # Unread => seen'[u] <= order'[u].total
    BY <2>1, <2>2, <2>4, SeenStep
  <2> QED
    BY <2>1, <2>5, <2>6, <2>7
<1> QED
  BY <1>3 DEF WithinTotal

\* Where no order is paid beyond its total, the balance recalcShopDebt derives is
\* the shop's account, order by order.
LEMMA AccountFollows ==
    ASSUME LedgerTypeOK, WithinTotal, DebtIsDerived
    PROVE  AccountBalanced
<1> DEFINE due  == [o \in Orders |-> IF Owing(order[o]) THEN Max0(order[o].total - Paid(row, o)) ELSE 0]
           idle == [o \in Orders |-> IF ~order[o].deleted /\ ~Owing(order[o]) THEN Paid(row, o) ELSE 0]
           gone == [o \in Orders |-> IF Owing(order[o]) THEN back[o] ELSE 0]
           bought == [o \in Orders |-> IF Owing(order[o]) THEN order[o].total - back[o] ELSE 0]
           brought == [o \in Orders |-> IF order[o].deleted THEN 0 ELSE Paid(row, o)]
           given == [o \in Orders |-> due[o] + brought[o]]
           kept  == [o \in Orders |-> idle[o] + gone[o]]
<1>1. ASSUME NEW o \in Orders
      PROVE  /\ due[o] \in Int /\ idle[o] \in Int /\ gone[o] \in Int
             /\ bought[o] \in Int /\ brought[o] \in Int
             /\ given[o] \in Int /\ kept[o] \in Int
             /\ given[o] = due[o] + brought[o] /\ kept[o] = idle[o] + gone[o]
             /\ given[o] = bought[o] + kept[o]
  <2>1. /\ order[o].total \in Nat /\ Paid(row, o) \in Nat /\ back[o] \in Nat
        /\ Paid(row, o) <= order[o].total
    BY PaidNat DEF LedgerTypeOK, OrderRow, Table, WithinTotal
  <2>2. Owing(order[o]) => ~order[o].deleted
    BY DEF Owing
  <2>3. Max0(order[o].total - Paid(row, o)) = order[o].total - Paid(row, o)
    BY <2>1 DEF Max0
  <2>4. CASE Owing(order[o])
    BY <2>1, <2>2, <2>3, <2>4
  <2>5. CASE ~Owing(order[o]) /\ order[o].deleted
    BY <2>1, <2>5
  <2>6. CASE ~Owing(order[o]) /\ ~order[o].deleted
    BY <2>1, <2>6
  <2> QED
    BY <2>2, <2>4, <2>5, <2>6
<1>2. /\ DOMAIN due = Orders /\ DOMAIN idle = Orders /\ DOMAIN gone = Orders
      /\ DOMAIN bought = Orders /\ DOMAIN brought = Orders
  OBVIOUS
<1>3. debt = Max0(SumFunction(due) + Entered(row, "debt", Loose) - Paid(row, Loose)
                  - SumFunction(idle) - SumFunction(gone) - back[Loose])
  BY DEF DebtIsDerived, RecalcShopDebt
<1>4. Account = SumFunction(bought) + Entered(row, "debt", Loose)
                  - SumFunction(brought) - Paid(row, Loose) - back[Loose]
  BY DEF Account
<1>5. Entered(row, "debt", Loose) \in Int /\ Paid(row, Loose) \in Int /\ back[Loose] \in Int
  BY EnteredNat, PaidNat DEF LedgerTypeOK, Table
<1> DEFINE sum(f) == SumFunctionOnSet(f, Orders)
<1> HIDE DEF due, idle, gone, bought, brought, given, kept
<1>6. IsFiniteSet(Orders)
  BY LedgerConstants
<1>7. /\ sum(due) \in Int /\ sum(idle) \in Int /\ sum(gone) \in Int
      /\ sum(bought) \in Int /\ sum(brought) \in Int
  BY <1>1, <1>6, SumTypes
<1>8. sum(given) = sum(due) + sum(brought)
  BY <1>1, <1>6, SumPlus
<1>9. sum(kept) = sum(idle) + sum(gone)
  BY <1>1, <1>6, SumPlus
<1>10. sum(given) = sum(bought) + sum(kept)
  BY <1>1, <1>6, SumPlus
<1>11. /\ SumFunction(due) = sum(due) /\ SumFunction(idle) = sum(idle)
       /\ SumFunction(gone) = sum(gone) /\ SumFunction(bought) = sum(bought)
       /\ SumFunction(brought) = sum(brought)
  BY <1>2 DEF SumFunction
<1> HIDE DEF sum
<1>12. SumFunction(due) - SumFunction(idle) - SumFunction(gone)
         = SumFunction(bought) - SumFunction(brought)
  BY <1>7, <1>8, <1>9, <1>10, <1>11
<1>13. SumFunction(due) + Entered(row, "debt", Loose) - Paid(row, Loose)
         - SumFunction(idle) - SumFunction(gone) - back[Loose] = Account
  BY <1>4, <1>5, <1>7, <1>11, <1>12
<1> QED
  BY <1>3, <1>13 DEF AccountBalanced

\* "Having paid, the shop has a right to this money" (shop-debt.ts:100): where no
\* handler lowers the total of an order, no payment ever leaves the shop's account,
\* whatever becomes of the orders it was made for.
THEOREM SpecAccountBalanced ==
    ASSUME "cut" \notin Ops
    PROVE  Spec => []AccountBalanced
<1>1. Init => WithinTotal
  <2> SUFFICES ASSUME Init, NEW o \in Orders PROVE Paid(row, o) = 0
    BY DEF Init, NoOrder, WithinTotal
  <2> DEFINE f == [p \in Payments |-> PaidBy(row[p], o)]
  <2>1. Paid(row, o) = SumFunctionOnSet(f, Payments)
    BY PaidIsSum
  <2>2. \A p \in Payments : f[p] = 0
    BY DEF Init, NoRow, PaidBy
  <2> HIDE DEF f
  <2> QED
    BY <2>1, <2>2, SumTypes, LedgerConstants
<1>2. LedgerTypeOK /\ LedgerTypeOK' /\ WithinTotal /\ [Next]_vars => WithinTotal'
  BY WithinTotalInductive
<1>3. LedgerTypeOK /\ WithinTotal /\ DebtIsDerived => AccountBalanced
  BY AccountFollows
<1> QED
  BY <1>1, <1>2, <1>3, SpecLedgerTypeOK, SpecDebtIsDerived, PTL DEF Spec
=============================================================================
