SPECIFICATION TestSpec
CONSTANTS
  Cli = Cli
  Tester = Tester
  other = other
  NoKey = NoKey
  NoConn = NoConn
  Conn <- MCConn
  Sends <- MCSends
  Secret <- Contents
  RotateParams <- Keys
  EncryptParams <- MCEncryptParams
  PeerKeys = {}
  MadeUp <- TamperedBody
  Texts <- MCTexts
  Nonce <- MCNonce
  MaxRequests = 13
  MaxRestarts = 0
INVARIANTS TestNeverFails
PROPERTIES TestEnds
