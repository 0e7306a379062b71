SPECIFICATION FairSpec
CONSTANTS
  c1 = c1
  c2 = c2
  c3 = c3
  base = base
  solana = solana
  Nothing = Nothing
  Network = base
  Calls = {c1, c2, c3}
  Kind <- OneOfEach
  AuthMode <- Modes
  Offers <- TwoOffers
  Answers = {"ok", "garbled", "rpc_error", "402"}
INVARIANTS
  TypeOK
  OneRequestPerCall
  PaysWhatWasAsked
  OutcomesAreTruthful
PROPERTIES
  ImplementsPaidCalls
  EveryCallReturns
CHECK_DEADLOCK FALSE
