SPECIFICATION FairSpec
CONSTANTS
    a = a
    newline = newline
    ball = ball
    none = none
    Geometries <- Files
    NoGeometry = none
    Letters <- OneLetter
    Newline = newline
    Generators <- AllGenerators
    AutoMesh = TRUE
    MaxChunk = 3
    MaxPartial = 2
INVARIANTS
    TypeOK
    ViewerAsked
    Killable
    WholeLines
PROPERTIES
    JobStays
    MeshingEnds
