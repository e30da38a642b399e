SPECIFICATION Spec
CONSTANTS
  h1 = h1
  h2 = h2
  Handlers <- MCHandlers
  Expected <- MCExpected
  Chunks <- MCChunks
  MaxActive = 2
INVARIANT CursorWithinFile
