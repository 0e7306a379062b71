SPECIFICATION Spec
CONSTANTS
  c1 = c1
  c2 = c2
  s1 = s1
  s2 = s2
  h1 = h1
  Nothing = Nothing
  Callers = {c1, c2}
  Servers = {s1, s2}
  Deliveries = {}
  Handlers = {h1}
  StopHandlers = {}
  Registrations <- NoRegistrations
  Ports = {4000, 5001, 5002}
  ConfigPort = 0
  PortCleared = TRUE
INVARIANT NoServerIsLost
