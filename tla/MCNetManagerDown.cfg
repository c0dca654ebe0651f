CONSTANTS
  Networks = {home, cafe}
  Users = {"link"}
  MaxProfiles = 2
  FastRetries = 1
  MaxEvents = 2
  MaxOps = 1
SYMMETRY Alike
SPECIFICATION Spec
INVARIANTS
  NoProfileMeansDown
