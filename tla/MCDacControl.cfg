CONSTANTS
  Writers = {http, player}
  Volumes = {40}
  NoWriter = NoWriter
  NoData = NoData
SPECIFICATION FairSpec
INVARIANTS
  NothingLost
  CodecFollows
PROPERTIES
  DeliversLatest
