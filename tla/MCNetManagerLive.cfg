CONSTANTS
  Networks = {home, cafe}
  Users = {"link"}
  MaxProfiles = 2
  FastRetries = 1
  MaxEvents = 1
  MaxOps = 0
SPECIFICATION FairSpec
PROPERTIES
  Connects
