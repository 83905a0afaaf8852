SPECIFICATION WorkSpec
CONSTANTS
  Path = {p1, p2}
  MaxSave = 2
  Thumbnails = TRUE
  ProjectCount = 2
  Project <- Projects
  MaxEdit = 3
  MaxQueue = 2
  Job = {j1}
  Document <- Contents
  NoDocument = 0
  Original = {o1, o2}
  MaxVersion = 1
  MaxItems = 1
  Media = {m1, m2}
  Capacity = 1
  Budget = 3
CHECK_DEADLOCK FALSE
INVARIANTS
  NewestKept
  ClosedIsSaved
  StatusTrue
  LastWordKept
  CacheTidy
PROPERTIES
  FlushIsDurable
  LostByOpeningOnly
  ImplementsService
  OwnerServed
  EditIsQueued
  RouteIsChecked
  MediaSettles
