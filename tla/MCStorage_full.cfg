SPECIFICATION StorageFairSpec
CONSTANTS
  NDisks = 2
  NChunks = 2
  MaxFormats = 1
  MaxFaults = 1
  Backlog = 1
PROPERTIES FullStops
