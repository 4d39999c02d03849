\* Colouring with one round or several, and one thread after them.
SPECIFICATION FairSpec
CONSTANTS
  GraphSize = 8
  Adjacent <- Holes
  Threads = 3
  VertexPerThread = 1
INVARIANTS
  TypeOK
  SettledDiffer
  ColoursInRange
  FreeAfterOneRound
PROPERTIES
  NoNewClashes
  Termination
