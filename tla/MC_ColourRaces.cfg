\* Colouring with several rounds, and a clash that stays.
SPECIFICATION FairSpec
CONSTANTS
  GraphSize = 7
  Adjacent <- Strip
  Threads = 3
  VertexPerThread = 1
INVARIANTS
  FreeOfRaces
