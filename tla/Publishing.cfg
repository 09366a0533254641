CONSTANTS
  Event = {1, 2}
  Publisher = {"p1", "p2"}
  Limit = 2
  MaxFaults = 2
SPECIFICATION FairSpec
INVARIANTS
  PublishedWasSent
  SoleHolder
  ResendsExplained
PROPERTIES
  EventuallyPublished
