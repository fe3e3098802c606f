SPECIFICATION PipelineSpec
CONSTANTS
  s1 = s1
  i1 = i1
  i2 = i2
  p1 = p1
  p2 = p2
  Nil = Nil
  Subs <- OneSub
  Valid <- OneSub
  Keys <- Texts
  Ids <- TwoIds
  Procs <- TwoProcs
  Thresholds <- Two
  Backend = "postgres"
  Faults = FALSE
  MaxArrivals = 3
  MaxPosts = 2
  BatchLimit = 1
SYMMETRY Symmetry
INVARIANT NothingLost
