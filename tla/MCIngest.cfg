CONSTANTS
  e1 = e1
  e2 = e2
  r1 = r1
  r2 = r2
  Engines = {e1, e2}
  Requests = {r1, r2}
  Values = {"lo", "hi", "nan", "huge", "bad"}
  Unscalable = {"bad"}
  ReconError <- MCReconError
  Batches <- MCBatches
  max_batch_size = 3
  MaxRestarts = 1
  NoOne = NoOne
  window_size = 2
  Doubles <- MCDoubles
  Singles <- MCSingles
  Real32 <- MCReal32
  Inf = Inf
  NaN = NaN
  threshold_warning = 4
  threshold_critical = 7
SPECIFICATION Spec
INVARIANTS
  TypeOK
  AlertsBacked
  AlertedOnce
  UnalertedRowIsLast
  BufferIsRecentHistory
  ScoredOnOwnWindow
  WindowsAccounted
  CountersTrailAlerts
  ResponseTruthful
  SettledBooksAgree
  StoredThresholdsExplain
PROPERTIES
  LogSpec
  RequestsTerminate
