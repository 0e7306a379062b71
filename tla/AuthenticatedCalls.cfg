SPECIFICATION CallsSpec
CONSTANTS
  c1 = c1
  c2 = c2
  a1 = a1
  t1 = t1
  t2 = t2
  base = base
  Nothing = Nothing
  NoTokens = NoTokens
  Blank = Blank
  Network = base
  Answers = {"ok", "failed"}
  Calls = {c1, c2}
  Apps = {a1}
  Kind <- TwoRpcs
  AuthMode <- CognitoMode
  Offers <- OneOffer
  TokenIds = {t1, t2}
  Saved = {}
  Operations = {"GetIDToken", "GetTokens", "SignOut"}
  HasCredentials = TRUE
  PanicsRecovered = TRUE
INVARIANTS
  OneRequestPerCall
  OutcomesAreTruthful
  SignedOutTokensStayOut
SYMMETRY CallSymmetry
CHECK_DEADLOCK FALSE
