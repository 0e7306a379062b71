SPECIFICATION Spec
CONSTANTS
  c1 = c1
  c2 = c2
  t1 = t1
  NoTokens = NoTokens
  Blank = Blank
  Callers = {c1, c2}
  TokenIds = {t1}
  Saved = {}
  Operations = {"GetIDToken", "SignOut"}
  HasCredentials = TRUE
  PanicsRecovered = FALSE
INVARIANT GetIDTokenNeverPanics
