CONSTANTS
  c1 = c1
  c2 = c2
  e1 = e1
  e2 = e2
  Clients = {c1, c2}
  Engines = {e1, e2}
  AnyEngine = AnyEngine
  Filters = {AnyEngine, e1}
  Unreadable = Unreadable
  queue_maxsize = 2
  MaxAlerts = 2
SPECIFICATION Spec
INVARIANTS
  TypeOK
  RelayOrderKept
  QuickClientMissesNothing
PROPERTIES
  FilterRespected
  RelayNeverBlocked
