SPECIFICATION Spec
CONSTANTS
  c1 = c1
  s1 = s1
  s2 = s2
  h1 = h1
  Nothing = Nothing
  Callers = {c1}
  Servers = {s1, s2}
  Deliveries = {}
  Handlers = {h1}
  StopHandlers = {}
  Registrations <- NoRegistrations
  Ports = {4000}
  ConfigPort = 0
  PortCleared = FALSE
INVARIANT StopClosesSocket
