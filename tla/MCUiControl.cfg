CONSTANTS
  Requesters = {reader, other}
  Ops = {switch}
  Results <- MCResults
  CtlQueueLen = 2
  MaxId = 3
  MaxCalls = 4
  NoTask = NoTask
  NoRequest = NoRequest
  NoNote = NoNote
  NoResult = NoResult
  Running = Running
SPECIFICATION FairSpec
INVARIANTS
  TypeOK
  ReplyIsOwn
  ReplyNotLost
PROPERTIES
  ImplementsRpc
  WaitingReturns
