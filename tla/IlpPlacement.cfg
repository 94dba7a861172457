\* The five tiers, requests of five regions and of three, groups of two.
SPECIFICATION Spec
CONSTANTS
  EnableNtier = TRUE
  GroupSize = 2
  RegionMB = 10
  IntWidth = 32
  HotCap = 14
  Requests <- SmallRequests
  Percents = {1, 30, 60}
INVARIANT TypeOK
INVARIANT HistogramDefined
INVARIANT CanBeMet
INVARIANT HotterNotSlower
INVARIANT NoDominatedTier
INVARIANT LimitKept
INVARIANT PacketInBounds
