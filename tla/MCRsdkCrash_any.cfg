\* Two kills or power cuts, an index ring longer than the scan of the upsert.
SPECIFICATION Spec
CONSTANTS
  c1 = c1
  NoSeg = NoSeg
  Chn <- OneChannel
  RecType <- OneType
  NChunks = 3
  ChunkUnits = 2
  FrameUnits <- SmallFrames
  NSlots = 6
  ScanMax = 3
  MaxSegSeq = 4
  Faults <- AnyCrash
  MaxCrashes = 2
INVARIANTS CrashSafe NonceUnique
PROPERTIES OldestFirst
\* The bounds MaxSegSeq and MaxCrashes stop the model, not the code.
CHECK_DEADLOCK FALSE
