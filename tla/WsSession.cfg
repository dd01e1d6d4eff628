SPECIFICATION FairSpec
CONSTANTS
  File <- MCFile
  ChunkSize = 2
  MaxMessages = 4
  Size <- MCSize
  maxQueuedMessages = 2
  maxQueuedBytes = 3
  SizeT = 8
  Configs <- MCConfigs
  MaxPosted = 2
INVARIANTS SendOrder CountersCover NoTornBlob
PROPERTY ClosingIsReported
