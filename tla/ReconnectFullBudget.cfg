SPECIFICATION DriverFairSpec
CONSTANTS
  t1 = t1
  t2 = t2
  NoPeer = NoPeer
  Peer = {1}
  Pinned = {1}
  Tracker <- MCOneTracker
  max_discovered_peers = 1
  peer_retention = 1
  MaxGeneration = 2
  StaticMode = TRUE
  Offers = {}
  MAX_CONNECT_ATTEMPTS = 1
  max_sessions = 1
  MaxTries = 2
PROPERTIES
  StaticPeersAreRetried
CHECK_DEADLOCK FALSE
