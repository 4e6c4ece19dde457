SPECIFICATION Spec
CONSTANTS
  a = a
  b = b
  c = c
  one = one
  two = two
  str = str
  NULL = NULL
  Names <- MCNames
  Types <- MCTypes
  Values <- MCValues
  Audits <- MCAudits
INVARIANTS
  MergeIsExact
  PassKeepsWire
  SelfAuditIsSilent
CHECK_DEADLOCK FALSE
