\* One client instance, two failures, two deaths that leave rules behind.
CONSTANTS
  n1 = n1
  Name = {n1}
  MaxFaults = 2
  MaxLeaks = 2
SPECIFICATION FairSpec
INVARIANTS NATExact UninstalledIsClean
PROPERTIES ComesUp
