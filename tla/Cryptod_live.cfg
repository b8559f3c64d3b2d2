SPECIFICATION FairSpec
CONSTANTS
  c1 = c1
  c2 = c2
  NoKey = NoKey
  NoConn = NoConn
  Conn = {c1, c2}
  Sends <- Mixed
  Secret <- Contents
  RotateParams <- GoodKeys
  EncryptParams <- OneNonce
  PeerKeys <- Peers
  MadeUp <- Tampered
  MaxRequests = 3
  MaxRestarts = 0
INVARIANTS PlaintextsAreAuthentic
PROPERTIES RequestAnswered
