CONSTANTS
    c1 = c1  c2 = c2  c3 = c3
    Call = {c1, c2, c3}
    doc = doc  pic = pic  box = box
    Name = {doc, box}
    Dir = {box}
    Parent <- MCParent
    NoName = NoName
    m1 = m1  m2 = m2
    Machine = {m1}
    x = x  y = y
    Md5 = {x, y}
    NoMd5 = NoMd5
    Given = {x, y}
    Ops <- Putters
    Rename = FALSE
    Replication = 2
    MaxActive = 2
    Faults = FALSE
SPECIFICATION Spec
INVARIANT ReadyIsCurrent
SYMMETRY Symmetric
CHECK_DEADLOCK FALSE
