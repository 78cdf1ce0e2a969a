CONSTANTS
  MaxBytes = 3
  MaxLen = 2
  EthBuild = TRUE
  UseMdns = TRUE
  MdnsServers = {"eth", "sta"}
  MayAbort = TRUE
  ParserFails = TRUE
  NoBuf = NoBuf
SPECIFICATION FairSpec
INVARIANTS
  NetbufValid
PROPERTIES
  NetbufsDeleted
  InOrder
  BytesArrive
  Reconnects
