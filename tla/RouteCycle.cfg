CONSTANTS
  p1 = p1
  p2 = p2
  n1 = n1
  n2 = n2
  g1 = g1
  g2 = g2
  Sources <- TwoSources
  Nodes <- TwoNodes
  Listings <- TwoListings
  MaxLate = 1
SPECIFICATION Spec
INVARIANTS
  RecordIsTrue
  EveryNodeGetsItsTurn
  AtMostOneLateStart
CHECK_DEADLOCK FALSE
