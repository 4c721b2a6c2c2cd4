SPECIFICATION Spec
CONSTANTS
    Orders = {o1}
    Payments = {p1,p2}
    Loose = Loose
    Unread = Unread
    MaxTotal = 2
    MaxPaid = 2
    Tolerance = 1
    Ops = {"raise","cut","office","delete","update","partial","close","courier","reverse","entry"}
SYMMETRY Permuted
INVARIANTS
    LedgerTypeOK
    DebtIsDerived
PROPERTIES
    ReversedIsFinal
    PaymentFits
