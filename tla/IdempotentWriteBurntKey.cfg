SPECIFICATION Spec
CONSTANTS
  k1 = k1
  k2 = k2
  i1 = i1
  i2 = i2
  i3 = i3
  i4 = i4
  p1 = p1
  p2 = p2
  Nil = Nil
  Keys <- OneKey
  Ids <- FourIds
  Procs <- TwoProcs
  Backend = "postgres"
  Faults = TRUE
  Deletable = TRUE
  MaxDeliveries = 2
\* the sensor stops after MaxDeliveries
CHECK_DEADLOCK FALSE
SYMMETRY Symmetry
INVARIANT AckedMeansSaved
