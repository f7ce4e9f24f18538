\* Three channels and a writer with two tries; expected: a violation.
CONSTANTS
  c1 = c1  c2 = c2  c3 = c3
  Writer = Writer  Beat = Beat  Closer = Closer
  Chan = {c1, c2, c3}
  Cast = {{Writer}}
  MaxTries = 2
  HashRange = 3
  Capacity = 1
SPECIFICATION Spec
INVARIANTS GivesUpOnlyWhenAllBroken
CHECK_DEADLOCK FALSE
