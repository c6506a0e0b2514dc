\* A kill while a segment is recorded.
SPECIFICATION Spec
CONSTANTS
  c1 = c1
  NoSeg = NoSeg
  Chn <- OneChannel
  RecType <- OneType
  NChunks = 2
  ChunkUnits = 2
  FrameUnits <- UnitFrames
  NSlots = 3
  ScanMax = 2
  MaxSegSeq = 2
  Faults <- Kills
  MaxCrashes = 1
INVARIANT NoneLeftOpen
\* The bounds MaxSegSeq and MaxCrashes stop the model, not the code.
CHECK_DEADLOCK FALSE
