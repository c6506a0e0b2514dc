SPECIFICATION BoxSpec
CONSTANTS
  Lamp = {0}
  Publisher = {p1, p2}
  Hold = 1
  Silent = 2
  Gap = 2
  Delay = 1
  Caller = {t1, t2}
  Job = {j1, j2}
  Delivery = {e1}
  NEvents = 3
  Cap = 2
  MaxCrashes = 1
  Peer = {a1, a2}
  Requests <- MCRequests
  Asks = 2
  Owner = {o1}
  Unbound = Unbound
  Phone = {u1, u2}
  Lengths = {0, 4, 7, 11}
  FirstCap = 1
  ContCap = 2
  MaxMsg = 6
  Modulus = 8
INVARIANTS  UpgradeSafe ServerSafe  BleSafe UploadingIsHeld RefusalStops
PROPERTIES StopsReturn JobsEnd DoneStays
CHECK_DEADLOCK FALSE
