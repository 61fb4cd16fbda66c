CONSTANTS
    c1 = c1  c2 = c2  c3 = c3  c4 = c4
    Call = {c1, c2, c3, c4}
    doc = doc  pic = pic  box = box
    Name = {doc, box}
    Dir = {box}
    Parent <- MCParent
    NoName = NoName
    m1 = m1  m2 = m2
    Machine = {m1, m2}
    x = x  y = y
    Md5 = {x, y}
    NoMd5 = NoMd5
    Given = {x, y, NoMd5}
    Ops <- AllButFileDelete
    Rename = FALSE
    Replication = 2
    MaxActive = 1
    Faults = FALSE
    MaxRestarts = 1
SPECIFICATION HealthSpec
INVARIANTS TypeOK UniqueName ReadyIsCurrent DeleteCascades FolderExists OneCopyPerMachine NoCopyMissed CountedOnce
PROPERTY DeletedForGood
SYMMETRY Symmetric
CHECK_DEADLOCK FALSE
