SPECIFICATION Spec
CHECK_DEADLOCK FALSE
CONSTANTS
  People = {"boss", "ana"}
  Founder = "boss"
  Roles = {"manager", "waiter"}
  Locs = {"here", "there"}
  Meaning <- MCMeaning
  Managing = {"user.manage"}
  Taken = {}
  Rows = {"r1", "r2"}
  Asks <- MCAsks
  MaxInvites = 2
  MaxReplays = 1
  MaxDeaths = 1
  Clients = {"c1", "c2"}
  MaxSessions = 3
  MaxPasswords = 2
  Orgs = {"o1", "o2"}
  Sites = {"s1", "s2", "s3"}
  Operations = {"k1", "k2"}
  Manifests = {"m1", "m2"}
  MaxHqChanges = 5
INVARIANTS AccessIsEarned SessionsServeTheirOwner HeadquartersAreKnown
PROPERTIES DelegationAddsNothing
