\* Two addresses, every mode.
CONSTANTS
  a1 = a1  a2 = a2
  Addr = {a1, a2}
  NoAddr = NoAddr
SPECIFICATION FairSpec
INVARIANTS NoLoop Reverted OriginalSurvives
PROPERTY ChainedRestarts
CHECK_DEADLOCK FALSE
