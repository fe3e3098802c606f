SPECIFICATION Spec
CONSTANTS
  k1 = k1
  k2 = k2
  i1 = i1
  i2 = i2
  i3 = i3
  p1 = p1
  p2 = p2
  Nil = Nil
  Keys <- OneKey
  Ids <- TwoIds
  Procs <- TwoProcs
  Thresholds <- Two
  Backend = "postgres"
  Faults = FALSE
  MaxArrivals = 4
  MaxPosts = 2
  BatchLimit = 2
SYMMETRY Symmetry
INVARIANT FailureNotForgotten
