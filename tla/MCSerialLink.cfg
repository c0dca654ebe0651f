CONSTANTS
  Showers = {show}
  Askers = {ask}
  Agent = agent
  None = None
  MaxSnaps = 2
  MaxCommands = 1
  MaxFaults = 2
  LineLen = 2
SPECIFICATION FairSpec
INVARIANTS
  TypeOK
  OkMeansHandled
  LastIsOwed
  CallsAreOwed
PROPERTIES
  ImplementsRegister
  CommandsEnd
  LastIsShown
