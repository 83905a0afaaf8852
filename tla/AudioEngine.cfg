SPECIFICATION AudioSpec
CONSTANTS
  Key = {"a", "b"}
  Path = {"good", "bad"}
  Damaged = {"bad"}
  Lineup <- MCLineup
  Cue = {0, 3}
  PacketFrames = 2
  Packets = 3
  Reuse = 2
  Budget = 4
  Allowance = 2
  NoJob = NoJob
  NoTick = NoTick
  MaxGeneration = 3
  MaxClock = 2
  MaxMissed = 1
CHECK_DEADLOCK FALSE
INVARIANTS
  FrameFits
  HeardOnTime
PROPERTIES
  LanesFed
  DropReturns
