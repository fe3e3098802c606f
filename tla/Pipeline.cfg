SPECIFICATION PipelineSpec
CONSTANTS
  s1 = s1
  i1 = i1
  i2 = i2
  p1 = p1
  p2 = p2
  Nil = Nil
  Subs <- OneSub
  Valid <- OneSub
  Keys <- Texts
  Ids <- TwoIds
  Procs <- OneProc
  Thresholds <- Two
  Backend = "postgres"
  Faults = TRUE
  MaxArrivals = 3
  MaxPosts = 1
  BatchLimit = 2
SYMMETRY Symmetry
INVARIANTS FailureNotForgotten NothingLost TwoKeysAtMost
PROPERTIES FollowsLifecycle
