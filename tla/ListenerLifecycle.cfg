SPECIFICATION FairSpec
CONSTANTS
  c1 = c1
  c2 = c2
  s1 = s1
  s2 = s2
  d1 = d1
  h1 = h1
  Nothing = Nothing
  Callers = {c1, c2}
  Servers = {s1, s2}
  Deliveries = {d1}
  Handlers = {h1}
  StopHandlers = {h1}
  Registrations <- AlertAndError
  Ports = {4000}
  ConfigPort = 0
  PortCleared = FALSE
INVARIANTS
  TypeOK
  NoServerIsLost
PROPERTIES
  ImplementsServerSlot
  EveryStopReturns
  EveryDeliveryIsAnswered
  StoppedSocketsClose
