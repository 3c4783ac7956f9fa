CONSTANTS
  Heartbeat = 6
  MinWait = 2
  MaxAlerts = 4
SPECIFICATION Spec
INVARIANTS
  TypeOK
  StreamIsTaken
  NeverSilent
PROPERTIES
  FeedSpec
  AlertsArrive
