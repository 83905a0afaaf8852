SPECIFICATION ControlSpec
CONSTANTS
  Endpoint = {f1, f2, b1}
  Foreground = {f1, f2}
  Key = {k1, k2}
  Generation = {g1}
  Actor = {a1, a2}
  NoActor = NoActor
  GroupCap = 1
  ForegroundCap = 1
  BackgroundCap = 1
  MaxRequest = 2
  Caller = {t1, t2}
  ActorThread = actor
  Nobody = Nobody
  MaxClient = 3
  ClientCap = 2
INVARIANTS
  BudgetsKept
  LeasesAgree
  PermitsExact
  LatestRetained
  RetryNeverRegresses
  EntriesCounted
  NoCircularWait
PROPERTIES
  RetiredActorsJoined
