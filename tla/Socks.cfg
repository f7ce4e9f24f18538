SPECIFICATION FairSpec
CONSTANT MaxChunks = 2
CHECK_DEADLOCK FALSE
INVARIANTS OneReply NothingCut
PROPERTIES HandshakeBounded EndIsPassedOn RelayEnds
