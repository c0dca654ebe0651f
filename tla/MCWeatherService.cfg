SPECIFICATION FairSpec
CONSTANTS
  Locations = {here, there}
  First = here
  UiTasks = {"ui"}
  QueueLen = 1
  Guard = 1
  Interval = 2
INVARIANTS
  TypeOK
  RefreshingIsReal
  DataIsKept
PROPERTIES
  LocationIsFetched
