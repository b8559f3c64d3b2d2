SPECIFICATION Spec
CONSTANTS
  c1 = c1
  c2 = c2
  NoKey = NoKey
  NoConn = NoConn
  Conn = {c1, c2}
  Sends <- OneAdmin
  Secret <- Contents
  RotateParams <- AllKeys
  EncryptParams <- Encrypts
  PeerKeys = {}
  MadeUp <- Touched
  MaxRequests = 5
  MaxRestarts = 1
INVARIANTS TypeOK FramesNameTheirKey PlaintextsAreAuthentic StatusCoversAnswers QuiescentAgreement RotationAllOrNothing
PROPERTIES ImplementsKeyService
