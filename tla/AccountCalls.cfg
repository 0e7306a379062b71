SPECIFICATION Spec
CONSTANTS
  up = up
  cu = cu
  fp = fp
  cf = cf
  si = si
  east = east
  west = west
  old = old
  new = new
  Nil = Nil
  Empty = Empty
  DefaultClient = DefaultClient
  DefaultCognitoRegion = east
  Options <- SomeOptions
  MaxOptions = 2
  Calls = {up, cu, fp, cf, si}
  Helper <- OneOfEach
  Inputs <- SomeInputs
  Texts <- SomeTexts
  Regions = {east, west}
  AppClient <- TwoClients
  Emails = {"email", "other"}
INVARIANTS
  TypeOK
  ManagerHasLastOptions
  OneModePerClient
  OutcomesMatchAccount
  RefusedForAReason
CHECK_DEADLOCK FALSE
