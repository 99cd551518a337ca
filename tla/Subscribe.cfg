SPECIFICATION FairSubSpec
CONSTANTS
  Topic = {t1}
  Group = {g1}
  StreamTopic = t1
  StreamGroup = g1
  Key = {}
  NoKey = NoKey
  Priority = {0}
  Time = {1}
  PollSize = {1}
  Visibility = {1}
  CommitPoint = {}
  RateConfig = {}
  RetentionCount = {}
  RetentionAge = {}
  BatchSize = 1
  MaxOffset = 2
  MaxTopics = 1
  MaxGroups = 1
  DedupCapacity = 1
  ReservedDen = 1
  DefaultRetain = 9
  GcThreshold = 9
  IdleExpire = 99
  MaxVisibility = 9
  MaxRefreshes = 1
  MaxAliases = 3
  Messages = 2
  AckGrace = 2
  Setups <- AnySession
  MaxLease = 6
CHECK_DEADLOCK FALSE
INVARIANTS TrackingConsistent WindowRespected LeasesAccountedFor LateAckResolves AtMostOnce
  RepushedOnlyWhenStale
PROPERTIES AckCompletes ReleasedOnDisconnect
