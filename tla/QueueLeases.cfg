SPECIFICATION Spec
CONSTANTS
  Topic = {t1}
  Group = {g1, g2}
  Key = {}
  NoKey = NoKey
  Priority = {0, 1}
  Time = {1, 3}
  PollSize = {1, 2}
  Visibility = {1}
  CommitPoint = {1}
  RateConfig = {}
  RetentionCount = {1}
  RetentionAge = {0}
  BatchSize = 0
  MaxOffset = 2
  MaxLease = 2
  MaxTopics = 1
  MaxGroups = 2
  DedupCapacity = 1
  ReservedDen = 2
  DefaultRetain = 3
  GcThreshold = 2
  IdleExpire = 1
  MaxVisibility = 2
SYMMETRY Symmetry
INVARIANTS SnapshotRoundTrip OldSnapshotLoads
PROPERTIES ReservedSlotServesOldest ImplementsContract
