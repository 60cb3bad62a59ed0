CONSTANTS
  Depth = 3
  Words = {0, 1}
SPECIFICATION ReaderSpec
INVARIANT ReaderTypeOK
PROPERTY ItemsInOrder
