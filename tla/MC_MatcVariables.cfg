SPECIFICATION Spec
CONSTANTS
    Nodes = {n1, n2, n3}
    Matrices = {m1, m2, m3}
    Null = Null
    scalar = scalar
    vector = vector
    other = other
    Names <- AllNames
    Ans <- AnsName
    Param <- A
    Import <- B
    Export <- B
    Result <- Underscore
    Contents <- TwoSizes
    Size <- MCSize
    IndexShared = FALSE
    LateErrors = FALSE
    MaxDepth = 1
    MaxTemps = 2
    MaxLost = 1
SYMMETRY Addresses
CHECK_DEADLOCK FALSE
INVARIANTS
    TypeOK
    RefCounts
    NoDangling
    UniqueNames
