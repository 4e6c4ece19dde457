CONSTANTS
  Fields = {f, g, h, i}
  Values = {Nil}
  Threads = {t1, t2, t3}
  Nil = Nil
  Undefined = Undefined
  NULL = NULL
SPECIFICATION Spec
SYMMETRY Symmetry
INVARIANTS
  BackedAtRest
  BornSetStaysSingle
  AtMostOnePerThread
