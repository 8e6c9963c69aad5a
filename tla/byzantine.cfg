\* Two bakers and a proposer that equivocates.
SPECIFICATION Spec
CONSTANTS
  None = None
  b1 = b1  b2 = b2  p1 = p1  z1 = z1
  Bakers = {b1, b2}
  Peers = {}
  Byzantine = {z1}
  Quorums <- BothBakersAndByzantine
  RoundProposer <- ByzantineFirst
  Ops = {1, 2}
  MaxLevel = 1
  MaxRound <- TwoRounds
  TimelySigning = TRUE
  SignerMayFail = FALSE
  Announced = {"valid"}
  RecordState = FALSE
  MaxRestarts = 0
INVARIANTS
  FinalBlocksAgree
PROPERTIES
  ImplementsVoting
CHECK_DEADLOCK FALSE
