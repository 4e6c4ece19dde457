SPECIFICATION Spec
CONSTANTS
  Klass = {k1, k2, k3}
  Address = {a1, a2, a3}
  Constants = {U, S, Sub}
  U = U  S = S  Sub = Sub  f = f  g = g
  Versions <- MCVersions
  Names = {f, g}
  MaxLoads = 2
  MaxObjects = 1
  NULL = NULL
SYMMETRY Sym
CHECK_DEADLOCK FALSE
INVARIANTS
  EntriesAreTheirs
  UnionsAreKnown
  OnlyDefinitionsRaise
  DefaultsKeepTheirTop
