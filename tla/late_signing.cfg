\* Two bakers whose votes may be signed after their round.
SPECIFICATION Spec
CONSTANTS
  None = None
  b1 = b1  b2 = b2  p1 = p1  z1 = z1
  Bakers = {b1, b2}
  Peers = {}
  Byzantine = {}
  Quorums <- BothBakers
  RoundProposer <- FirstBaker
  Ops = {1}
  MaxLevel = 1
  MaxRound <- ThreeRounds
  TimelySigning = FALSE
  SignerMayFail = FALSE
  Announced = {"valid"}
  RecordState = FALSE
  MaxRestarts = 0
INVARIANTS
  AttestedHasPrequorum
CHECK_DEADLOCK FALSE
