\* Two bakers and a peer through two levels, each in one round.
SPECIFICATION FairSpec
CONSTANTS
  None = None
  b1 = b1  b2 = b2  p1 = p1  z1 = z1
  Bakers = {b1, b2}
  Peers = {p1}
  Byzantine = {}
  Quorums <- TwoOfThree
  RoundProposer <- Alternating
  Ops = {1}
  MaxLevel = 2
  MaxRound <- OneRoundTwice
  TimelySigning = TRUE
  SignerMayFail = FALSE
  Announced = {"valid", "head"}
  RecordState = FALSE
  MaxRestarts = 0
PROPERTIES
  EventuallyElected
CHECK_DEADLOCK FALSE
