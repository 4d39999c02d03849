SPECIFICATION Spec
CONSTANTS
    Nodes = {n1, n2, n3}
    Matrices = {m1, m2, m3, m4}
    Null = Null
    scalar = scalar
    vector = vector
    other = other
    Names <- AllNames
    Ans <- AnsName
    Param <- A
    Import <- B
    Export <- B
    Result <- Underscore
    Contents <- TwoValues
    Size <- MCSize
    IndexShared = TRUE
    LateErrors = FALSE
    MaxDepth = 1
    MaxTemps = 2
    MaxLost = 1
CHECK_DEADLOCK FALSE
PROPERTY AssignmentIsCopy
