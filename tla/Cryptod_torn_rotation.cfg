SPECIFICATION Spec
CONSTANTS
  c1 = c1
  c2 = c2
  NoKey = NoKey
  NoConn = NoConn
  Conn = {c1, c2}
  Sends <- Admins
  Secret <- Contents
  RotateParams <- GoodKeys
  EncryptParams <- OneNonce
  PeerKeys = {}
  MadeUp <- Nothing
  MaxRequests = 2
  MaxRestarts = 0
INVARIANTS QuiescentAgreement
