SPECIFICATION SessionSafety
CONSTANTS
  ProjectCount = 1
  Project <- Projects
  MaxEdit = 3
  MaxQueue = 4
  Job = {j1}
  Document <- Contents
  NoDocument = 0

CHECK_DEADLOCK FALSE
PROPERTIES
  OpenShowsNewest
