\* A baker killed between the injection of its attestation and the recording of its lock.
SPECIFICATION Spec
CONSTANTS
  None = None
  b1 = b1  b2 = b2  p1 = p1  z1 = z1
  Bakers = {b1}
  Peers = {p1}
  Byzantine = {}
  Quorums <- PeersAlone
  RoundProposer <- OnlyPeers
  Ops = {1}
  MaxLevel = 1
  MaxRound <- TwoRounds
  TimelySigning = TRUE
  SignerMayFail = FALSE
  Announced = {"valid", "head"}
  RecordState = TRUE
  MaxRestarts = 1
INVARIANTS
  AttestedIsLocked
CHECK_DEADLOCK FALSE
