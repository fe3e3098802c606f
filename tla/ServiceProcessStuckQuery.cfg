SPECIFICATION FairSpec
CONSTANTS
  p1 = p1
  p2 = p2
  Nil = Nil
  Pods <- TwoPods
  Boots <- Services
  Envs <- SomeEnvs
  Known <- RollingUpdate
  MaxOutages = 1
  MaxStops = 1
PROPERTY StopsAlways
