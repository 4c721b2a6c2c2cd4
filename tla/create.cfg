SPECIFICATION CreateSpec
CONSTANTS
    Keys = {1, 2}
    Other = Other
    Calls = {c1, c2, c3}
    OnCredit = {1, 2}
    Total <- OneEach
    CreditLimit = 1
    Attempts = 2
    Legacy = 1
    MaxDebt = 1
    MaxOthers = 2
SYMMETRY AnyCall
INVARIANTS
    CreateTypeOK
    NumbersDense
    OnePerKey
PROPERTIES
    CreditWithinLimit
