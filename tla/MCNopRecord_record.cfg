SPECIFICATION Spec
CONSTANTS
  Types = {"motion", "ring"}
  SegmentLen = 2
  PostLen = 2
  EventMax = 3
  MaxSegments = 1
  PreCap = 2
  Ticks <- BackAndForth
  MaxFrames = 6
  MaxRestarts = 1
INVARIANTS Decodable FilesKept ClipWindow
CHECK_DEADLOCK FALSE
