CONSTANTS
  Resources <- MCResources
  KindChoices <- MCKindChoices
  Names <- MCNames
  Choices <- MCChoices
  ByPassword = "PASSWORD"
  Nothing = "none"
  Elsewhere = "elsewhere"
  NoObject = NoObject
  NoState = NoState
  NoConfig = NoConfig
  NoResource = NoResource
  MaxEvents = 1
  MaxEdits = 2
SPECIFICATION Spec
INVARIANTS TypeOK NothingOrphaned
PROPERTIES OnlyOwn SuccessMeansConfigured Settles
