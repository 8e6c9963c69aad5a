\* One baker that is restarted, with a signer that fails or is late.
SPECIFICATION Spec
CONSTANTS
  None = None
  b1 = b1  b2 = b2  p1 = p1  z1 = z1
  Bakers = {b1}
  Peers = {p1}
  Byzantine = {}
  Quorums <- PeersAlone
  RoundProposer <- BakerThenPeer
  Ops = {1, 2}
  MaxLevel = 1
  MaxRound <- TwoRounds
  TimelySigning = FALSE
  SignerMayFail = TRUE
  Announced = {"valid", "head"}
  RecordState = TRUE
  MaxRestarts = 1
INVARIANTS
  CertificatesAreReal
  NoDoubleSigning
CHECK_DEADLOCK FALSE
