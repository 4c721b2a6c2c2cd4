SPECIFICATION Spec
CONSTANTS
    Keys = {1}
    Other = Other
    Calls = {c1, c2}
    OnCredit = {}
    Total <- OneEach
    CreditLimit = 0
    Attempts = 2
    Legacy = 0
    MaxDebt = 0
    MaxOthers = 0
    Hooks = {shell, page}
    Shell = shell
    MaxTries = 2
    NoCall = NoCall
    Deeds = {"send","delete","sync","retry","browse"}
CHECK_DEADLOCK FALSE
INVARIANTS
    QueueTypeOK
    SentIsCreated

    
    
