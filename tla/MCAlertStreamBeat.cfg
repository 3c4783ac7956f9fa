CONSTANTS
  Heartbeat = 6
  MinWait = 2
  MaxAlerts = 4
SPECIFICATION Spec
INVARIANT
  HeartbeatOnTime
