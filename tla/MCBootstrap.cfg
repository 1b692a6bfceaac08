CONSTANTS
  D1 = D1
  D2 = D2
  T1 = T1
  T2 = T2
  T3 = T3
  Genuine = Genuine
  Attacker = Attacker
  GenuineCA = GenuineCA
  AttackerCA = AttackerCA
  NoToken = NoToken
  NoHash = NoHash
  NoCA = NoCA
  Registered <- MCRegistered
  DefaultDriver = D1
  Tokens <- MCTokens
  Malformed = {T3}
  PinOf <- MCPinOf
  Responders = {Genuine, Attacker}
  CertCA <- MCCertCA
  PublicCert = {Genuine}
  Bundles = {GenuineCA, AttackerCA}
  BodyOf <- MCBodyOf
  DiskFaults = TRUE
  StatFaults = TRUE

SPECIFICATION Spec
INVARIANT TypeOK
INVARIANT PinnedCredentials
INVARIANT SingleManagedDriver
INVARIANT StampMeansLoaded
INVARIANT FetchHasCA
