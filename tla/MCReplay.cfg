CONSTANTS
  engine = engine
  degraded = degraded
  Engines = {engine, degraded}
  Requests <- MCRequests
  Values = {"lo", "hi"}
  Unscalable = {}
  ReconError <- MCReconError
  Batches <- MCBatches
  Bodies <- MCBodies
  max_attempts = 2
  max_batch_size = 2
  MaxRestarts = 1
  NoOne = NoOne
  window_size = 2
  Doubles <- MCDoubles
  Singles <- MCSingles
  Real32 <- MCReal32
  Inf = Inf
  NaN = NaN
  threshold_warning = 4
  threshold_critical = 7
SPECIFICATION ReplaySpec
INVARIANTS
  ReplayTypeOK
  SentIsStored
  FedInReplayOrder

