CONSTANTS
  Showers = {show}
  Askers = {ask}
  Agent = agent
  None = None
  MaxSnaps = 1
  MaxCommands = 0
  MaxFaults = 1
  LineLen = 2
SPECIFICATION FairSpec
PROPERTY
  HelloIsAnswered
