\* Three honest members and three rounds, so that a lock can be released.
SPECIFICATION Spec
CONSTANTS
  h1 = h1  h2 = h2  h3 = h3  z1 = z1  p = p  q = q
  Honest = {h1, h2, h3}
  Quorums <- ThreeOfFour
  Round = {0, 1, 2}
  Payload = {p, q}
SYMMETRY Interchangeable
INVARIANTS
  Agreement
  IInv
CHECK_DEADLOCK FALSE
