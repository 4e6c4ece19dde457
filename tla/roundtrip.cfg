CONSTANTS
  S = S
  P = P
  U = U
  Older = Older
  Empty = Empty
  Newer = Newer
  P2 = P2
  OldU = OldU
  V = V
  X = X
  Y = Y
  one = one
  two = two
  s1 = s1
  p1 = p1
  u1 = u1
  u2 = u2
  arr = arr
  hsh = hsh
  set = set
  nil = nil
  NULL = NULL
  SetClass = SetClass
  Klasses <- MCKlasses
  Unions <- MCUnions
  Names <- MCNames
  Infos <- MCInfos
  FieldInfo <- MCFieldInfo
  FieldInfoMap <- MCFieldInfoMap
  VALUE <- MCVALUE
  Heaps <- MCHeaps
  Calls <- MCCalls
  MaxDepth <- MCMaxDepth
  Defaults <- MCDefaults
  Readers <- AllReaders
  Compatible <- MCReaders
  Protocols <- BothProtocols
  Cuttable <- FewHeaps
SPECIFICATION RTFairSpec
INVARIANTS
  ReadsWhatWasWritten
  IntactIsReadWhole
  UnionsHoldTheirSetField
  TruncatedIsRefused
  StructFieldsHaveTheirType
PROPERTIES
  DeserializeTerminates
CHECK_DEADLOCK FALSE
