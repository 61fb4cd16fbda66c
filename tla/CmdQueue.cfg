CONSTANTS
    Cmd = {c1, c2, c3}
    Free = Free
    None = None
    FirstMax = 1
    MaxLen = 2
    Machine = {m1, m2, m3}
    Replication = 2
    MaxPn = 2
SPECIFICATION ProvSpec
SYMMETRY Symmetry
CHECK_DEADLOCK FALSE
INVARIANTS
    TypeOK
    PoolIsList
    IDLeadsToCommand
    Balanced
    DistinctCopies
