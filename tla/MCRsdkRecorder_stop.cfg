\* One disk, two writers, policy stop: the disk fills up and stays as it is.
SPECIFICATION Spec
CONSTANTS
  c1 = c1
  c2 = c2
  NoSeg = NoSeg
  NDisk = 1
  Chn <- TwoChannels
  RecType <- OneType
  NChunks = 3
  ChunkUnits = 3
  FrameUnits <- SmallFrames
  NSlots = 4
  ScanMax = 4
  TieChunks = 0
  RRMod = 1
  HddFull = "stop"
  MaxSegSeq = 3
INVARIANTS SearchExact
PROPERTIES StopNeverOverwrites
SYMMETRY Symm
\* The bound MaxSegSeq stops the model, not the code.
CHECK_DEADLOCK FALSE
