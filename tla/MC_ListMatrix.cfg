\* The assembly of a strip of elements by threads.
SPECIFICATION FairSpec
CONSTANTS
  Threads = 2
  LocalNodes = 6
  Element = {1, 2, 3, 4}
  Indexes <- Strip
  Colourings <- StripColours
  Connections <- Extra
INVARIANTS
  TypeOK
  RowExclusive
  ListsAscend
  DegreeCounts
PROPERTIES
  AssemblesPattern
  Termination
