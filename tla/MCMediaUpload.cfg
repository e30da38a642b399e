SPECIFICATION FairSpec
CONSTANTS
  h1 = h1
  h2 = h2
  Handlers <- MCHandlers
  Expected <- MCExpected
  Chunks <- MCChunks
  MaxActive = 2
INVARIANT StagingConsistent
INVARIANT CancelIsFinal
INVARIANT SerialUseKeepsBytes
PROPERTY CursorMonotone
PROPERTY StagingReclaimed
