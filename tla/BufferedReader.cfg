CONSTANTS
  CR = CR
  LF = LF
  X = X
  Byte <- MCByte
  Streams <- MCStreams
  ReadLengths = {0, 1, 2, 4}
  RbufSize = 3
  MaxChunk = 3
  HeaderSize = 4
  MaxHeader = 8
SPECIFICATION FairSpec
INVARIANTS TypeOK ExactSegment FirstBlankLine TerminatingNulFits
PROPERTIES SentBytesAreReturned ImplementsByteStream
