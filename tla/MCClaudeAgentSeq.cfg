CONSTANTS
  Hooks = {h1, h2}
  Timers = {timer}
  Reconciler = reconciler
  LastSession = 2
  Tools = {bash}
  Prompts = {form}
  Pids = {claude}
  claude = claude
  bash = bash
  form = form
  None = None
  Events <- MCEvents
  MaxSessions = 2
  MaxEvents = 2
  MaxFaults = 0
  MaxUnsaved = 0
SPECIFICATION FairSpec
PROPERTY
  SeqGrows
CHECK_DEADLOCK FALSE
