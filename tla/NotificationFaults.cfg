SPECIFICATION Spec
CONSTANTS
  e1 = e1
  e2 = e2
  e3 = e3
  k1 = k1
  k2 = k2
  p1 = p1
  p2 = p2
  Nil = Nil
  Events <- ThreeEvents
  Keys <- TwoKeys
  KeyOf <- TwoShareAKey
  Valid <- TwoValid
  Procs <- TwoProcs
  Backend = "postgres"
  Faults = TRUE
SYMMETRY Symmetry
INVARIANTS TypeOK SentOnce StatusIsTrue
