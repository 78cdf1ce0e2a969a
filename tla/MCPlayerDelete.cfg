CONSTANTS
  Tasks = {t1, t2}
  Queues = {q1, q2}
  Chunks = {c1, c2, c3}
  NoTask = NoTask
  NoQueue = NoQueue
  NoChunk = NoChunk
  Formats = {1}
  Buffers = {1}
  ChunkSizes = {1}
  AllocFails = FALSE
  SetupFails = FALSE
  PmEnabled = FALSE
  LogBlocks = FALSE
SYMMETRY Symmetry
SPECIFICATION Spec
INVARIANTS
  QueueOutlivesSender
