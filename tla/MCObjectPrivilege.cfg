CONSTANTS
  u = u
  v = v
  s = s
  t = t
  Kinds <- MCKinds
  SchemaKind = "schema"
  Names <- MCNames
  Upper <- MCUpper
  NoEntry = NoEntry
  Principals <- MCPrincipals
  Schemas <- MCSchemas
  Grantees <- MCGrantees
  Spellings <- MCSpellings
  Starts <- MCStarts
  Privileges <- MCPrivileges
  All = "ALL"
  Configs <- MCConfigs
  PrincipalKind = "principal"
  Absent = "Absent"
  Unknown = Unknown
  NoState = NoState
  NoConfig = NoConfig
  NoSubject = NoSubject
  NoWork = NoWork
  MaxEvents = 2
  MaxEdits = 1
SPECIFICATION Spec
INVARIANTS TypeOK NoLeftover AccessKept
PROPERTIES SuccessMeansGranted StaysOnTarget Converges
