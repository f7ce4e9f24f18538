\* Two session objects compete for one address.
CONSTANTS
  d1 = d1  d2 = d2  i1 = i1  i2 = i2
  Sid = {d1, d2}
  Index = {i1, i2}
  Request <- MCRequest
  Session = {1, 2}
  None = None
  Size = 4
  Gateway = 1
SPECIFICATION FairSpec
INVARIANTS AddressExclusive MapExact RouteHasHandler
PROPERTIES LifeSpec UnusedIsReleased HandlerEnds
CHECK_DEADLOCK FALSE
