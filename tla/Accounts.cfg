CONSTANTS
    Call = {c1, c2, c3}
    Name = {n1, n2}
    Address = {a1}
    Ops = {"register", "login", "renew", "check", "delete", "logout", "supplier"}
    Single = {"register", "login", "supplier"}
    Faults = 1
    MaxTime = 1
    None = None
SPECIFICATION FairSpec
CHECK_DEADLOCK FALSE
INVARIANTS
    TypeOK
    UniqueAccount
    RegisteredWhole
    UniqueSupplier
    TokenLives
    LoginGetsOwn
    OthersAreAnswered
PROPERTIES
    CallsEnd
