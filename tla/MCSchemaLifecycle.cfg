CONSTANTS
  Names <- MCNames
  Owners <- MCOwners
  Comments <- MCComments
  Missing <- MCMissing
  Creator = sys
  Rights = {TRUE, FALSE}
  NoComment = NoComment
  Unset = Unset
  NoSchema = NoSchema
  NoState = NoState
  NoConfig = NoConfig
  FailingSteps <- ConfiguringSteps
  UnclearSteps <- MCUnclear
  MaxFaults = 2
  MaxEdits = 3
  MaxOutside = 1
  sys = sys
  app = app
  ghost = ghost
  a = a
  b = b
  text = text
SPECIFICATION Spec

INVARIANT TypeOK
INVARIANT OrphansReported
INVARIANT SuccessMeansConfigured
PROPERTIES FilledKept Converges
