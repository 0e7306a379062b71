SPECIFICATION FairSpec
CONSTANTS
  Nothing = Nothing
  MaxAttempts = 4
INVARIANTS
  TypeOK
  ResultMatchesAttempts
  ErrorIsOfLastAttempt
PROPERTIES
  ImplementsBoundedDelivery
  DeliveryEnds
CHECK_DEADLOCK FALSE
