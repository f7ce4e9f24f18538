\* One client with two channels; two session objects and two addresses.
CONSTANTS
  d1 = d1  i1 = i1  i2 = i2
  Sid = {d1}
  Index = {i1, i2}
  Request <- MCRequest
  First = i1
  Session = {1, 2}
  None = None
  Size = 4
  Gateway = 0
SPECIFICATION BondFairSpec
INVARIANTS BondTypeOK OneLink KeysPaired
PROPERTIES DialReturns GoneIsReleased
CHECK_DEADLOCK FALSE
