SPECIFICATION MCSpec
CONSTANTS
  r1 = r1
  m1 = m1
  c1 = c1
  c2 = c2
  c3 = c3
  a1 = a1
  a2 = a2
  cert = cert
  key = key
  bundle = bundle
  program = program
  text = text
  eth = eth
  wlan = wlan
  peer = peer
  Absent = Absent
  Failed = Failed
  NoConn = NoConn
  Router <- MCRouter
  Modem <- MCModemTask
  Capacity = 2
  Conn <- MCConn
  Address <- MCAddress
  router_address <- MCrouter_address
  MaxSessions = 2
  MaxPermits = 2
  Setup <- MCSetup
  Host <- MCHost
INVARIANTS
  PlacesAreAccounted
  ShutdownLeavesNothing
  CheckAgreesWithStart
  ExitsLeaveNothing
PROPERTIES
  
  ModemsAreFound
  DiscoveryStops
  ShutdownReturns
  AskedToStopItStops
CHECK_DEADLOCK FALSE
