CONSTANTS
  Names <- MCNames
  Owners <- MCOwners
  Comments <- MCComments
  Missing <- MCMissing
  Creator = sys
  Rights = {TRUE}
  NoComment = NoComment
  Unset = Unset
  NoSchema = NoSchema
  NoState = NoState
  NoConfig = NoConfig
  FailingSteps <- NoSteps
  UnclearSteps <- MCUnclear
  MaxFaults = 0
  MaxEdits = 2
  MaxOutside = 0
  sys = sys
  app = app
  ghost = ghost
  a = a
  b = b
  text = text
SPECIFICATION Spec

INVARIANT RemovedCommentCleared
