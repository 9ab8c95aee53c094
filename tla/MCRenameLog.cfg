CONSTANTS
  Kinds = {"PRINCIPAL", "SCHEMA"}
  SchemaKind = "SCHEMA"
  Names <- MCNames
  Upper <- MCUpper
  NoEntry = "no-entry"
  Objects <- MCObjects
  KindOf <- MCKindOf
  StartName <- MCStartName
  Absent = "none"
  NoObject = "nobody"
SPECIFICATION Spec
INVARIANTS LastLeaverTracked StateNameResolves
CHECK_DEADLOCK FALSE
