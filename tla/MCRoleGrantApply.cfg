CONSTANTS
  Kinds = {"PRINCIPAL", "SCHEMA"}
  SchemaKind = "SCHEMA"
  Names <- MCNames
  Upper <- MCUpper
  NoEntry = NoEntry
  PrincipalKind = "PRINCIPAL"
  Principals <- MCPrincipals
  Roles <- MCRoles
  Resources <- MCResources
  Scenarios <- MCScenarios
  Rank <- MCRank
  MaxFaults = 1
  Absent = Absent
  NoGrant = NoGrant
  NoOp = NoOp
SPECIFICATION Spec
INVARIANTS GranteeStatementsExclusive MoveTargetsExist NoLeftover HoldsWanted
PROPERTIES RevokesOwnOnly EveryOperationEnds
