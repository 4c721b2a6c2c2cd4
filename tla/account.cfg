SPECIFICATION Spec
CONSTANTS
    Orders = {o1,o2}
    Payments = {p1,p2}
    Loose = Loose
    Unread = Unread
    MaxTotal = 1
    MaxPaid = 1
    Tolerance = 1
    Ops = {"close","courier","mark","return","reverse"}
SYMMETRY Permuted
INVARIANTS
    AccountBalanced
    ClosedMeansCounted
    LedgerInv
