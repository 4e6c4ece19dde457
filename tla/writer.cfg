CONSTANTS
  S = S
  U = U
  int8 = int8
  int32 = int32
  int64 = int64
  big = big
  txt = txt
  flt = flt
  yes = yes
  s1 = s1
  s2 = s2
  u1 = u1
  arr = arr
  hsh = hsh
  set = set
  nil = nil
  NULL = NULL
  SetClass = SetClass
  Klasses <- MCKlasses
  Unions <- MCUnions
  Names <- MCNames
  Infos <- MCInfos
  FieldInfo <- MCFieldInfo
  FieldInfoMap <- MCFieldInfoMap
  VALUE <- MCVALUE
  Heaps <- MCHeaps
  Calls <- AllCalls
  MaxDepth <- MCMaxDepth
SPECIFICATION FairSpec
INVARIANTS
  TypeOK
  AcceptedIsValid
  RejectedHasCulprit
  BlameNamesTheField
  OverflowIsCyclic
PROPERTIES
  Terminates
CHECK_DEADLOCK FALSE
