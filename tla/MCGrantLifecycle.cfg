CONSTANTS
  a = a
  b = b
  s = s
  t = t
  Grantees <- MCGrantees
  Things <- MCThings
  GrantKinds <- MCKinds
  Starts <- MCStarts
  NoState = NoState
  NoConfig = NoConfig
  NoPair = NoPair
  NoRename = NoRename
  FailingSteps <- MCFailing
  UnclearSteps <- MCUnclear
  MaxFaults = 1
  MaxEdits = 2
  MaxRenames = 1
  MaxOutside = 1
SPECIFICATION Spec
INVARIANTS TypeOK SuccessMeansGranted NoLeftover AccessKept
PROPERTY Converges
