SPECIFICATION SchedulerSpec
CONSTANTS
  Ids = {1, 2, 3, 4}
  Limit = 2
PROPERTIES
  EveryOverdueIsVisited
