SPECIFICATION Spec
CONSTANTS
  u1 = u1
  u2 = u2
  get = get
  cr = cr
  del = del
  Nothing = Nothing
  MaxInt = 7
  AuthModes = {"apikey", "x402", "cognito", "none"}
  AuthMode = "cognito"
  Statuses = {200, 204, 402, 404, 429, 500}
  Answers <- SomeAnswers
  Seconds <- SmallInts
  Calls = {u1, u2, get, cr, del}
  MethodOf <- OneOfEachEffect
  Input <- Inputs
INVARIANTS
  TypeOK
  OutcomesMatchEffects
  UpdatesSurvive
  TwinsAgree
  ClassifiedByStatus
CHECK_DEADLOCK FALSE
