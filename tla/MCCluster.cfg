CONSTANTS
  S1 = S1
  S2 = S2
  S3 = S3
  NoJoin = NoJoin
  Servers <- MCServers
  JoinOf <- FounderJoins
  RevisionOf <- MixedRevisions
  MaxCrashes = 2

SPECIFICATION Spec
\* Once every server has completed its startup no bootstrap step remains.
CHECK_DEADLOCK FALSE

PROPERTY Recovers
