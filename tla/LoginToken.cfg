CONSTANTS
    Call = {c1, c2, c3}
    Name = {n1, n2}
    Address = {a1}
    Ops = {"register", "login"}
    Single = {}
    Faults = 0
    MaxTime = 1
    None = None
SPECIFICATION Spec
SYMMETRY Symmetry
CHECK_DEADLOCK FALSE
INVARIANT
    LoginGetsOwn
