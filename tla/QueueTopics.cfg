SPECIFICATION Spec
CONSTANTS
  Topic = {t1, t2}
  Group = {g1, g2}
  Key = {k1, k2, k3}
  NoKey = NoKey
  Priority = {0}
  Time = {1, 3}
  PollSize = {1}
  Visibility = {3}
  CommitPoint = {1}
  RateConfig = {0}
  RetentionCount = {0, 1, 2}
  RetentionAge = {0, 1}
  BatchSize = 2
  MaxOffset = 3
  MaxLease = 2
  MaxTopics = 1
  MaxGroups = 1
  DedupCapacity = 2
  ReservedDen = 2
  DefaultRetain = 3
  GcThreshold = 0
  IdleExpire = 1
  MaxVisibility = 2
SYMMETRY Symmetry
INVARIANTS WatermarksRetained DedupWindow WithinLimits GateAgreesWithPoll
