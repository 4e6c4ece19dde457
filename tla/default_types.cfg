CONSTANTS
  Documents <- MCDocuments
  Decls <- MCDecls
  Junks <- MCJunks
  Int32 <- MCInt32
  Int16 <- MCInt16
  Capital <- MCCapital
  Escaped <- MCEscaped
  Digits <- MCDigits
  NULL = NULL
SPECIFICATION Spec
INVARIANT DefaultsCanBeWritten
