\* Two disks, two writers, policy overwrite: the chunk rings
\* and the index rings wrap.
SPECIFICATION PacedSpec
CONSTANTS
  c1 = c1
  c2 = c2
  NoSeg = NoSeg
  NDisk = 2
  Chn <- TwoChannels
  RecType <- OneType
  NChunks = 3
  ChunkUnits = 2
  FrameUnits <- SmallFrames
  NSlots = 4
  ScanMax = 4
  TieChunks = 0
  RRMod = 2
  HddFull = "overwrite"
  MaxSegSeq = 2
INVARIANTS TypeOK SegmentIntact SearchExact EvenFill
PROPERTIES RecordingsKept
SYMMETRY Symm
\* The bound MaxSegSeq stops the model, not the code.
CHECK_DEADLOCK FALSE
