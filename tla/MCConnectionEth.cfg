CONSTANTS
  MaxBytes = 1
  MaxLen = 1
  EthBuild = TRUE
  UseMdns = TRUE
  MdnsServers = {"eth", "sta"}
  MayAbort = FALSE
  ParserFails = FALSE
  NoBuf = NoBuf
SPECIFICATION FairSpec
PROPERTIES
  ReachesEthernet
