SPECIFICATION DeliverySpec
CONSTANTS
  c1 = c1
  s1 = s1
  h1 = h1
  h2 = h2
  h3 = h3
  Nothing = Nothing
  Callers = {c1}
  Servers = {s1}
  Deliveries = {1, 2}
  MaxAttempts = 2
  Handlers = {h1, h2, h3}
  StopHandlers = {}
  Registrations <- TwoTests
  Ports = {4000}
  ConfigPort = 0
  PortCleared = FALSE
INVARIANTS
  StoppedMeansIdle
  AnswersAreTruthful
  DeliveredMeansHandled
  RefusedMeansUntouched
CHECK_DEADLOCK FALSE
