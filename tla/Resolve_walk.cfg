SPECIFICATION Spec
CONSTANTS
    a = a
    aa = aa
    sub = sub
    spare = spare
    elsewhere = elsewhere
    notes = notes
    secret = secret
    Name = {a, aa}
    Empty = Empty
    Up = Up
    Begins <- OneStartsOther
    Root = Root
    Dir = {Root, sub, spare, elsewhere}
    Outside = {elsewhere}
    FileId = {notes, secret}
    None = None
    Tree <- SmallTree
    Path <- Paths
    Prefix <- MCPrefixes
    MaxForeign = 3
INVARIANT
    StaysInside
    EndsBelowGrant
    AbsentWasAbsent
