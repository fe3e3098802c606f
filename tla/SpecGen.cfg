SPECIFICATION Spec
CONSTANTS
  None = None
  ServiceOrder <- Order
  Sources <- AllSources
  First <- Begin
  MaxEdits = 2
  Discardable = {"openapi", "asyncapi", "catalog", "values"}
  MaxMerges = 2
INVARIANTS MergedIsFresh OneContract
PROPERTIES NoSilentBreak
