SPECIFICATION FairSpec
CONSTANTS
  UiTask = ui
  NetTasks = {wifi, retry}
  FgApps = {home, trading, settings}
  Home = home
  Trading = trading
  Free = Free
  RuntimeQueueLen = 2
INVARIANTS
  TypeOK
  PolicyAgrees
  ModeAgreesUnlessRaced
  BacklightOwed
PROPERTIES
  BacklightSettles
