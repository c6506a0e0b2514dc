SPECIFICATION BoxSpec
CONSTANTS
  Client = {c1}
  Knows = {c1}
  Publisher = {p1, p2}
  None = None
  MaxEvents = 2
  Pictures = {2}
  Room = 1
  Chan = {ch}
  RtspClient = {k1, k2}
  NoClient = NoClient
  BackoffMax = 2
  MaxFaults = 3
  RegSlot = {r1, r2}
  WifiHost = {h1, h2}
  CoaxHost = {x1, x2}
  x1 = x1
  x2 = x2
  InputOf <- MCInput
  Finder = {f1}
  MaxWindows = 2
  Channel = {d1, d2, d3}
  Engine = {g1, g2, g3, g4}
  NSlots = 3
  NSinks = 2
  NDisks = 2
  Frees <- NotReadyOrFree
  CapacityAware = FALSE
  Camera = {m1}
  Position = {q1, q2}
  PresetSlot = {0, 1}
  PatrolSlot = {0, 1}
  Word = {a, long}
  CutWord = {long}
  Beginning = lo
  Nowhere = Nowhere
  SeqMax = 1
  Caller = {u1, u2, u3}
  Worker = {w1, w2}
  t1 = t1
  t2 = t2
  Patrol <- TwoPatrols
  SpotCount <- TwoAndThreeSpots
  ChimeId = {b1, b2, b3}
  Capacity = 2
  Backlog = 1
  NChunks = 2
  MaxFormats = 1
INVARIANTS LinkSafe   EnginesSafe   OneMover MovesOnItsPatrol
PROPERTIES   LossesAreNoticed PatrolGoes
CHECK_DEADLOCK FALSE
