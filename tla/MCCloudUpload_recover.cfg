\* A restart while an event is uploaded.
CONSTANTS
  NEvents = 1
  Cap = 2
  MaxCrashes = 1
SPECIFICATION FairSpec
PROPERTY Recovers
