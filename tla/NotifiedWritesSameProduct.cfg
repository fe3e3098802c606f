SPECIFICATION SystemSpec
CONSTANTS
  k1 = k1
  k2 = k2
  i1 = i1
  i2 = i2
  p1 = p1
  p2 = p2
  s1 = s1
  x = x
  Nil = Nil
  Keys <- TwoKeys
  Ids <- TwoIds
  Procs <- TwoProcs
  Senders <- OneSender
  Products <- Product
  ProductOf <- OneProduct
  Backend = "postgres"
  Faults = FALSE
  Deletable = FALSE
  MaxDeliveries = 2
\* the sensor stops after MaxDeliveries
CHECK_DEADLOCK FALSE
INVARIANT EachWriteNotified
