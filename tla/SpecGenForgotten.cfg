SPECIFICATION Spec
CONSTANTS
  None = None
  ServiceOrder <- Order
  Sources <- AllSources
  First <- Begin
  MaxEdits = 1
  Discardable = {}
  MaxMerges = 1
INVARIANT NothingForgotten
