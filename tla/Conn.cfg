\* Two writers, a packet of full size, an oversized one and padding; a 2-bit
\* counter; the read limit leaves no byte to spare.
CONSTANTS
  w1 = w1  w2 = w2
  Writer = {w1, w2}
  Packet = {4, 5}
  NoWriter = NoWriter
  MaxCounter = 3
  HeaderLen = 1  TagSize = 1  MaxPayload = 4  Slack = 3
  BurstRecords = 2  BurstMin = 3  BurstMax = 5  SteadyMax = 2
SPECIFICATION FairSpec
INVARIANTS NoDesync NonceUsedOnce
PROPERTIES LinkSpec WriterReturns SentIsRead
