SPECIFICATION FairSpec
CONSTANTS
  Files <- FiveFiles
  Projects <- AllProjects
  MaxDepth = 6
  NULL = NULL
INVARIANTS
  NamesDenoteIncludes
  CopiesAgree
  GeneratesAll
  FailureHasCause
  DoneIsSound
  OnlyCyclesOverflow
  AuditSearchesNew
PROPERTIES
  Terminates
CHECK_DEADLOCK FALSE
