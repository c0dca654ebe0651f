CONSTANTS
  Requesters = {reader}
  CtlQueueLen = 2
  MaxId = 3
  MaxCalls = 2
  NoTask = NoTask
  NoRequest = NoRequest
  NoNote = NoNote
  NoResult = NoResult
  Running = Running
  EvQueueLen = 2
  MaxInputs = 2
  NoApp = NoApp
  NoSwitch = NoSwitch
SPECIFICATION Spec
INVARIANT InitBeforeCreateRoot
