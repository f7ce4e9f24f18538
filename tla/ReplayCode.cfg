\* The code's ratio TTL = 2 * authWindow.
CONSTANTS
  t1 = t1  t2 = t2  f1 = f1  h1 = h1  h2 = h2
  Token = {t1, t2}
  Forged = {f1}
  Handler = {h1, h2}
  NoRequest = NoRequest
  AuthWindow = 1
  TTL = 2
  MaxStall = 1
  MaxSkew = 1
  Start = 3
  MaxNow = 7
SPECIFICATION Spec
SYMMETRY Symmetry
CHECK_DEADLOCK FALSE
INVARIANTS NoFalsePositive
PROPERTIES ReacceptedOnlyAtEdge MemoryBounded
