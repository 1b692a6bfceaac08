CONSTANTS
  NoCA = NoCA
  CA1 = CA1
  TokenPrefix <- MCPrefix
  Chars = {"K", "1", ":", "a"}
  MaxLen = 7
  CABundles = {NoCA, CA1}
  HashCA <- MCHashCA
  Users <- MCUsers
  Passwords <- MCPasswords

SPECIFICATION Spec
CONSTANTS
  InvalidFormat = InvalidFormat
  NoInfo = NoInfo
  NotParsed = NotParsed
INVARIANT RoundTrip
