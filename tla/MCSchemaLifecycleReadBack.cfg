CONSTANTS
  Names <- MCNames
  Owners <- MCOwners
  Comments <- MCComments
  Missing <- MCMissing
  Creator = sys
  Rights = {TRUE}
  NoComment = NoComment
  Unset = Unset
  NoSchema = NoSchema
  NoState = NoState
  NoConfig = NoConfig
  FailingSteps <- ReadBackStep
  UnclearSteps <- MCUnclear
  MaxFaults = 1
  MaxEdits = 0
  MaxOutside = 0
  sys = sys
  app = app
  ghost = ghost
  a = a
  b = b
  text = text
SPECIFICATION Spec

INVARIANT OrphansReported
