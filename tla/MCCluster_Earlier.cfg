CONSTANTS
  S1 = S1
  S2 = S2
  S3 = S3
  NoJoin = NoJoin
  Servers <- MCServers
  JoinOf <- FounderJoins
  RevisionOf <- FounderUpgraded
  MaxCrashes = 2

SPECIFICATION Spec
CHECK_DEADLOCK FALSE
PROPERTY Recovers
