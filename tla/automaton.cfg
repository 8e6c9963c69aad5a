\* One baker against every order of announcements, votes and timeouts of a level.
SPECIFICATION Spec
CONSTANTS
  None = None
  b1 = b1  b2 = b2  p1 = p1  z1 = z1
  Bakers = {b1}
  Peers = {p1}
  Byzantine = {}
  Quorums <- PeersAlone
  RoundProposer <- OnlyPeers
  Ops = {1}
  MaxLevel = 1
  MaxRound <- ThreeRounds
  TimelySigning = TRUE
  SignerMayFail = FALSE
  Announced = {"valid", "head"}
  RecordState = FALSE
  MaxRestarts = 0
INVARIANTS
  TypeOK
  LockIsCertified
  CertificatesAreReal
  DelayedQuorumIsForLatest
  AttestedHasPrequorum
  AttestedIsLocked
  PreattestsAreReleased
PROPERTIES
  LockMovesForward
  ElectedBlockStays
CHECK_DEADLOCK FALSE
