CONSTANTS
  Kinds = {"PRINCIPAL", "SCHEMA"}
  SchemaKind = "SCHEMA"
  Names <- MCNames
  Upper <- MCUpper
  NoEntry = NoEntry
  PrincipalKind = "PRINCIPAL"
  Principals <- MCPrincipals
  Roles <- MCRoles
  Resources <- MCResources
  Scenarios <- ReuseScenarios
  Rank <- MCRank
  MaxFaults = 0
  Absent = Absent
  NoGrant = NoGrant
  NoOp = NoOp
SPECIFICATION Spec

PROPERTY RevokesOwnOnly
