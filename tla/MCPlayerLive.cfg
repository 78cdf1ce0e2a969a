CONSTANTS
  Tasks = {t1}
  Queues = {q1}
  Chunks = {c1, c2}
  NoTask = NoTask
  NoQueue = NoQueue
  NoChunk = NoChunk
  Formats = {1}
  Buffers = {1}
  ChunkSizes = {1}
  AllocFails = TRUE
  SetupFails = FALSE
  PmEnabled = TRUE
  LogBlocks = FALSE
SPECIFICATION FairSpec
PROPERTIES
  NotificationTaken
  PlayerRestarts
