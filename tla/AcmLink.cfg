SPECIFICATION Spec
CONSTANTS
  Handles <- MCHandles
  Nonces <- MCNonces
  Flags <- MCFlags
  Bytes <- MCBytes
  Cuts <- MCCuts
  NoFrame = NoFrame
  Batches <- MCBatches
INVARIANTS TypeOK HeaderTellsTheTruth RoundTrip ProvidersAgree Authentic
