SPECIFICATION SharedSpec
CONSTANTS
  f1 = f1
  f2 = f2
  f3 = f3
  b1 = b1
  d1 = d1
  d2 = d2
  d3 = d3
  k1 = k1
  k2 = k2
  a2 = a2
  Endpoint = {f1, f2, f3}
  Foreground = {f1, f2, f3}
  Key = {k1, k2}
  Generation = {g1}
  Actor = {a1, a2}
  NoActor = NoActor
  GroupCap = 2
  ForegroundCap = 1
  BackgroundCap = 1
  MaxRequest = 4
  MaxClient = 3
  Decoder = {d1, d2, d3}
  DecoderOf <- ThreeDecoders
  ClientCap = 3
CHECK_DEADLOCK FALSE
PROPERTIES QueuedClientServed
INVARIANTS
  NoLostWakeup
