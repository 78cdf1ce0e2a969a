CONSTANTS
  Tasks = {t1, t2}
  Queues = {q1, q2}
  Chunks = {c1, c2, c3}
  NoTask = NoTask
  NoQueue = NoQueue
  NoChunk = NoChunk
  Formats = {1, 2}
  Buffers = {1, 2}
  ChunkSizes = {1}
  AllocFails = FALSE
  SetupFails = TRUE
  PmEnabled = FALSE
  LogBlocks = FALSE
SYMMETRY Symmetry
SPECIFICATION Spec
INVARIANTS
  TypeOK
  SingleConsumer
  ChannelDiscipline
  AlarmPairing
  ChunkOwnership
  SettingsNotLost
  MuteFollowsServer
  ReleasedAfterStop
