CONSTANTS
  engine = engine
  max_size = 1
  MaxKills = 1
  MaxOutages = 1
  Rows <- MCRows
  Filters <- MCFilters
  Ranges <- MCRanges
  limit = 1
SPECIFICATION AppSpec
INVARIANTS
  AppTypeOK
  ServesOnSchema
  OkWasUp
  NoneSkipped
  RepeatExplained
  PageFitsTotal
PROPERTIES
  StartsAgain
  RequestsAnswered
