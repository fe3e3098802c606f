SPECIFICATION FairSpec
CONSTANTS
  b1 = b1
  b2 = b2
  t1 = t1
  t2 = t2
  Poll = Poll
  Nil = Nil
  Books <- TwoBooks
  Triggers <- OneTrigger
  Defaults = 1
  MaxQueries = 2
INVARIANTS TypeOK StateIsTrue CountsAddUp
PROPERTIES ScrapeEnds TickScrapes SignalStops
