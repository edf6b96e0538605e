SPECIFICATION TransportFairSpec
CONSTANTS
  BITS = 3
  V4_OCTETS = 1
  V6_OCTETS = 2
  MIN_HEARTBEAT_INTERVAL_MS = 9
  MAX_PERCENT = 5
  FINER = 2
  SIGNAL_PREFIX <- MCSignalPrefix
  NoPort = NoPort
  Failed = Failed
  Frames <- MCFrames
  Capacity = 4
  a1 = a1
  a2 = a2
  d1 = d1
  p1 = p1
  Accepted <- MCAccepted
  Dialed <- MCDialed
  Endpoint <- MCEndpoint
  Form <- MCForm
  Acceptor = Acceptor
  None = None
  NoConnection = NoConnection
  MaxFrames <- MCMaxFrames
INVARIANTS
  CodecLosesNothing
  LowTtlSegmentsAreSeen
  EverySessionIsMonitored
PROPERTIES
  ImplementsChannel
  MessagesArrive
  LowTtlEndsConnections
CHECK_DEADLOCK FALSE
