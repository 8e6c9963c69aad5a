\* One baker that proposes and changes level, between two branches of level 2.
SPECIFICATION Spec
CONSTANTS
  None = None
  b1 = b1  b2 = b2  p1 = p1  z1 = z1
  Bakers = {b1}
  Peers = {p1}
  Byzantine = {}
  Quorums <- PeersAlone
  RoundProposer <- BakerSecond
  Ops = {1}
  MaxLevel = 2
  MaxRound <- TwoRoundsTwice
  TimelySigning = TRUE
  SignerMayFail = FALSE
  Announced = {"valid"}
  RecordState = FALSE
  MaxRestarts = 0
INVARIANTS
  LockIsCertified
  CertificatesAreReal
  OwnBlocksAreValid
PROPERTIES
  LockMovesForward
CHECK_DEADLOCK FALSE
