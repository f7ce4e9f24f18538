\* Two channels with the writer, the keepalive ticker or an outside Close, under
\* fair scheduling; as many tries as channels.
CONSTANTS
  c1 = c1  c2 = c2
  Writer = Writer  Beat = Beat  Closer = Closer
  Chan = {c1, c2}
  Cast = {{Writer}, {Beat}, {Closer}}
  MaxTries = 2
  HashRange = 2
  Capacity = 1
SPECIFICATION FairSpec
INVARIANTS TypeOK OrderMatches GivesUpAfterTries OnEmptyOnce AttachedIsRead
PROPERTIES LifeSpec LossIsFinal RemovedReaderEnds ConsumerEnds
CHECK_DEADLOCK FALSE
