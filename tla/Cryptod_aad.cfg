SPECIFICATION Spec
CONSTANTS
  c1 = c1
  c2 = c2
  NoKey = NoKey
  NoConn = NoConn
  Conn = {c1, c2}
  Sends <- OneAdmin
  Secret <- Contents
  RotateParams <- GoodKeys
  EncryptParams <- TwoAads
  PeerKeys = {}
  MadeUp <- Nothing
  MaxRequests = 3
  MaxRestarts = 0
INVARIANTS AadIncludedInTag
