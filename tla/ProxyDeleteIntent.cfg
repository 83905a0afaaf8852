SPECIFICATION WorkSafety
CONSTANTS
  Path = {p1, p2}
  MaxSave = 2
  ProjectCount = 1
  Project <- Projects
  MaxEdit = 1
  MaxQueue = 0
  Job = {j1}
  Document <- Contents
  NoDocument = 0
  Thumbnails = TRUE
  Original = {o1, o2}
  MaxVersion = 1
  MaxItems = 1
  Media = {m1, m2}
  Capacity = 1
  Budget = 3
CHECK_DEADLOCK FALSE
PROPERTIES
  DeleteClearsIntent
