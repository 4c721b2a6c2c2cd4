---------------------------- MODULE OrderCreate ----------------------------
(***************************************************************************)
(* order.create on the server (services/order-create.ts), for the calls of *)
(* one shop: the lookup by idempotency key, the snapshot of the            *)
(* transaction, the credit limit under the shop's lock, the order number   *)
(* and the two unique indices.  Goods are in OrderLifecycle: here a        *)
(* refusal for want of goods, prices or a product is Refuse.               *)
(*                                                                         *)
(* The transaction reads from the snapshot fixed by its first plain SELECT *)
(* (the prices); the shop's row is read under FOR UPDATE and is the latest *)
(* one.  From that lock to the end another create of the shop waits, so    *)
(* the rest of the transaction is one action, Insert.                      *)
(***************************************************************************)
EXTENDS Naturals, FiniteSets

CONSTANTS
    Keys,        \* idempotency keys: one for each order a person finishes
    Other,       \* stands for the key of an order somebody else places
    Calls,       \* calls of order.create that the server may handle at a time
    OnCredit,    \* the keys of orders with paymentMethod = "debt"
    Total,       \* Total[k]: what the order is worth
    CreditLimit, \* shops.credit_limit
    Attempts,    \* how often an INSERT is tried with another number
    Legacy,      \* orders with numbers of the old form
    MaxDebt,     \* bound on what other dealings make the shop owe
    MaxOthers    \* bound on orders placed by others

ASSUME CreateConstants ==
    /\ Keys \subseteq Nat /\ IsFiniteSet(Keys) /\ Other \notin Keys
    /\ OnCredit \subseteq Keys
    /\ Total \in [Keys -> Nat]
    /\ {CreditLimit, Legacy, MaxDebt, MaxOthers} \subseteq Nat
    /\ Attempts \in Nat \ {0}

VARIABLES
    call,     \* what the server does for each call
    book,     \* rows of orders
    debt,     \* shops.debt
    overdue   \* part of it is past its term

createVars == <<call, book, debt, overdue>>

OrderRow == [key: Keys \cup {Other}, number: Nat, held: BOOLEAN]

\* What a plain SELECT of the transaction returns, however late it runs.
Snapshot == [next: Nat, debt: Nat, overdue: BOOLEAN]

NoSnapshot == [next |-> 0, debt |-> 0, overdue |-> FALSE]

CallState == [stage: {"idle", "sent", "open", "done"},
              key: Keys \cup {Other}, snap: Snapshot,
              answer: {"none", "ok", "refused", "lost"}]

Idle == [stage |-> "idle", key |-> Other, snap |-> NoSnapshot, answer |-> "none"]

CreateTypeOK ==
    /\ call \in [Calls -> CallState]
    /\ book \subseteq OrderRow
    /\ debt \in Nat
    /\ overdue \in BOOLEAN

CreateInit ==
    /\ call = [c \in Calls |-> Idle]
    /\ book = {}
    /\ debt = 0
    /\ overdue = FALSE

---------------------------------------------------------------------------

Exists(k) == \E b \in book : b.key = k

Taken(n) == \E b \in book : b.number = n

Highest(numbers) == CHOOSE m \in numbers : \A n \in numbers : m >= n

\* Mutant of NextOrderNumber: the highest number alone, without the count.
AfterHighest == 1 + Highest({0} \cup {b.number : b \in book})

\* The greater of the count of orders and the highest number, plus one.
NextOrderNumber ==
    1 + Highest({Legacy + Cardinality(book)} \cup {b.number : b \in book})

\* The numbers one call tries: its snapshot's next one and those after it.
Tried(s) == s.next .. (s.next + Attempts - 1)

\* The first tried number that no committed order has.
Won(s) == CHOOSE n \in Tried(s) : ~Taken(n) /\ \A m \in Tried(s) : Taken(m) \/ n <= m

\* Mutant of WithinLimit: the debt as the snapshot shows it.
WithinLimitSeen(k, s) == k \in OnCredit => s.debt + Total[k] <= CreditLimit

\* Only an order on credit is checked; the debt is read under the lock.
WithinLimit(k, s) == k \in OnCredit => debt + Total[k] <= CreditLimit

\* Mutant of KeyClash: the unique index on the key is missing.
NoKeyIndex(k) == FALSE

\* The INSERT, or the lookup after it failed, finds an order with this key.
KeyClash(k) == Exists(k)

---------------------------------------------------------------------------
(* The handler *)

Reply(c, a) == call' = [call EXCEPT ![c] =
    [stage |-> "done", key |-> call[c].key, snap |-> NoSnapshot, answer |-> a]]

\* A request reaches the server.
Arrive(c, k) ==
    /\ call[c] = Idle
    /\ call' = [call EXCEPT ![c].stage = "sent", ![c].key = k]

\* Outside the transaction: an order with this key is the answer.  If there is
\* none, the transaction's first plain SELECT fixes its snapshot; what commits
\* between the two is seen by the INSERT as a clash all the same.
Begin(c) ==
    /\ call[c].stage = "sent"
    /\ IF Exists(call[c].key)
       THEN Reply(c, "ok")
       ELSE call' = [call EXCEPT ![c].stage = "open",
              ![c].snap = [next |-> NextOrderNumber, debt |-> debt, overdue |-> overdue]]
    /\ UNCHANGED <<book, debt, overdue>>

\* The shop does not exist, a product is inactive, there is not enough of it.
Refuse(c) ==
    /\ call[c].stage \in {"sent", "open"}
    /\ Reply(c, "refused")
    /\ UNCHANGED <<book, debt, overdue>>

\* Under the shop's lock: the limit, the hold, the INSERT with its retries, the
\* debt; an order on credit is owed from the moment it exists.
Insert(c) ==
    LET k == call[c].key
        s == call[c].snap
    IN
    /\ call[c].stage = "open"
    /\ \/ /\ ~WithinLimit(k, s)
          /\ Reply(c, "refused")
          /\ UNCHANGED <<book, debt>>
       \/ /\ WithinLimit(k, s)
          /\ KeyClash(k)
          /\ Reply(c, "ok")
          /\ UNCHANGED <<book, debt>>
       \/ /\ WithinLimit(k, s)
          /\ ~KeyClash(k)
          /\ \A n \in Tried(s) : Taken(n)
          /\ Reply(c, "refused")
          /\ UNCHANGED <<book, debt>>
       \/ /\ WithinLimit(k, s)
          /\ ~KeyClash(k)
          /\ \E n \in Tried(s) : ~Taken(n)
          /\ book' = book \cup {[key |-> k, number |-> Won(s), held |-> s.overdue]}
          /\ debt' = IF k \in OnCredit THEN debt + Total[k] ELSE debt
          /\ Reply(c, "ok")
    /\ UNCHANGED overdue

\* The process dies in the middle, or the answer does not get through.
LoseCall(c) ==
    /\ call[c].stage # "idle"
    /\ call[c].answer # "lost"
    /\ Reply(c, "lost")
    /\ UNCHANGED <<book, debt, overdue>>

\* The caller has the answer, or has gone.
EndCall(c) == call[c].stage = "done" /\ call' = [call EXCEPT ![c] = Idle]

\* Somebody else's order takes the next number.
OthersOrder ==
    /\ Cardinality({b \in book : b.key = Other}) < MaxOthers
    /\ book' = book \cup {[key |-> Other, number |-> NextOrderNumber, held |-> FALSE]}
    /\ UNCHANGED <<call, debt, overdue>>

\* Mutant of OtherDealings: a payment is subtracted from the debt instead of the
\* debt being derived from what is owed.
DebtLowered ==
    /\ debt' = debt - 1
    /\ UNCHANGED <<call, book, overdue>>

\* Deliveries, payments and the calendar (ShopLedger) change what is owed.
OtherDealings ==
    /\ debt' \in 0 .. MaxDebt
    /\ overdue' \in BOOLEAN
    /\ overdue' => debt' > 0
    /\ UNCHANGED <<call, book>>

ServerStep(c) == Begin(c) \/ Refuse(c) \/ Insert(c)

\* The server alone, called by anybody with any key, again and again.
CreateNext ==
    \/ \E c \in Calls, k \in Keys : Arrive(c, k) /\ UNCHANGED <<book, debt, overdue>>
    \/ \E c \in Calls : ServerStep(c) \/ LoseCall(c)
    \/ \E c \in Calls : EndCall(c) /\ UNCHANGED <<book, debt, overdue>>
    \/ OthersOrder
    \/ OtherDealings

CreateSpec == CreateInit /\ [][CreateNext]_createVars

---------------------------------------------------------------------------
(* Properties *)

\* Orders are numbered one after another, without gaps and without repetition,
\* although every number comes from a snapshot that may be out of date.
NumbersDense ==
    /\ \A a, b \in book : a.number = b.number => a = b
    /\ {b.number : b \in book} = (Legacy + 1) .. (Legacy + Cardinality(book))

\* However often a request is repeated and however the repetitions cross, a key
\* has one order.
OnePerKey == \A a, b \in book : a.key = b.key /\ a.key # Other => a = b

\* Two orders on credit placed at the same moment do not exceed the limit
\* together: whenever an order adds to the debt, the debt is within the limit.
CreditWithinLimit == [][book' # book /\ debt' # debt => debt' <= CreditLimit]_createVars

\* A shop that has paid before its order is written is not held for its debt
\* (order-create.ts:196-201).
PaidShopNotHeld == [][\A b \in book' \ book : b.held => overdue]_createVars
=============================================================================
