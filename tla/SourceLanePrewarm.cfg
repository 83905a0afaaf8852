SPECIFICATION LaneSafety
CONSTANTS
  f1 = f1
  f2 = f2
  f3 = f3
  b1 = b1
  d1 = d1
  d2 = d2
  d3 = d3
  k1 = k1
  k2 = k2
  a2 = a2
  Endpoint = {b1}
  Foreground = {}
  Key = {k1, k2}
  Generation = {g1}
  Actor = {a1, a2}
  NoActor = NoActor
  GroupCap = 1
  ForegroundCap = 1
  BackgroundCap = 1
  MaxRequest = 3
  MaxClient = 2
  Decoder = {d1}
  DecoderOf <- OneBackground
  ClientCap = 2
SYMMETRY LaneSymmetry
CHECK_DEADLOCK FALSE
INVARIANTS
  SilentPrewarm
  ActorKeepsToItsSource
