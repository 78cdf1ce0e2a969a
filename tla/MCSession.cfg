CONSTANTS
  Sizes = {1, 2}
  MaxBlocks = 2
  Span = 6
  Formats = {0, 1}
SPECIFICATION FairSpec
INVARIANTS
  TypeOK
  NoFault
  StreamKnown
  ChunkOnTime
PROPERTIES
  Gapless
  Resumes
