\* One address, registered late by its former handleConn.
CONSTANTS
  d1 = d1  d2 = d2  i1 = i1  i2 = i2
  Sid = {d1, d2}
  Index = {i1, i2}
  Request <- MCRequest
  Session = {1, 2}
  None = None
  Size = 4
  Gateway = 1
SPECIFICATION Spec
INVARIANT LiveIsRouted
CHECK_DEADLOCK FALSE
