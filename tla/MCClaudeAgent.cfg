CONSTANTS
  Hooks = {h1, h2}
  Timers = {timer}
  Reconciler = reconciler
  LastSession = 2
  Tools = {bash}
  Prompts = {form}
  Pids = {claude}
  claude = claude
  bash = bash
  form = form
  None = None
  Events <- MCEvents
  MaxSessions = 1
  MaxEvents = 2
  MaxFaults = 1
  MaxUnsaved = 1
SPECIFICATION FairSpec
INVARIANTS
  TypeOK
  LevelShown
  NewestCarried
  HandedInOrder
  SavedBeforeSent
  OneSessionPerProcess
  PendingHasSession
PROPERTY
  Settles
CHECK_DEADLOCK FALSE
