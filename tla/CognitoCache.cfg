SPECIFICATION FairSpec
CONSTANTS
  c1 = c1
  c2 = c2
  t1 = t1
  t2 = t2
  NoTokens = NoTokens
  Blank = Blank
  Callers = {c1, c2}
  TokenIds = {t1, t2}
  Saved = {}
  Operations = {"GetIDToken", "RespondToMFA", "SignOut", "SetTokens"}
  HasCredentials = TRUE
  PanicsRecovered = TRUE
INVARIANTS
  TypeOK
  PanicOnlyIfCleared
  SignsInAtMostOnce
PROPERTIES
  ImplementsTokenStore
  EveryCallReturns
CHECK_DEADLOCK FALSE
