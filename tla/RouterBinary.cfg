SPECIFICATION BinarySpec
CONSTANTS
  t1 = t1
  t2 = t2
  NoPeer = NoPeer
  Peer = {1, 2}
  Pinned = {}
  Tracker <- MCTracker
  max_discovered_peers = 1
  peer_retention = 1
  MaxGeneration = 2
  StaticMode = FALSE
  Offers <- MCOffers
  MAX_CONNECT_ATTEMPTS = 1
  max_sessions = 2
  MaxTries = 2
  a4 = a4
  a6 = a6
  Ipv4 <- MCIpv4
  Ipv6 <- MCIpv6
  Port = {854, 900}
  DEFAULT_PORT = 854
  MaxItems = 3
  NoPort = NoPort
INVARIANTS
  
  HistoryIsConsistent
  OffersAreUsed
PROPERTIES
  BackoffNeverRewinds
