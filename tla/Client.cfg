SPECIFICATION FairClient
CONSTANTS
  t1 = t1
  t2 = t2
  t3 = t3
  g1 = g1
  k1 = k1
  k2 = k2
  k3 = k3
  Topic = {t1, t2, t3}
  Group = {g1}
  Key = {k1, k2, k3}
  NoKey = NoKey
  Priority = {0}
  Time = {1}
  PollSize = {1}
  Visibility = {1}
  CommitPoint = {}
  RateConfig = {}
  RetentionCount = {}
  RetentionAge = {}
  BatchSize = 2
  MaxOffset = 9
  MaxLease = 30
  MaxTopics = 2
  MaxGroups = 1
  DedupCapacity = 3
  ReservedDen = 1
  DefaultRetain = 9
  GcThreshold = 9
  IdleExpire = 99
  MaxVisibility = 9
  QueueDepth = 1
  BatchMax = 2
  WritePipeline = 2
  NotifierGc = 0
  RefillRate = 1
  Setups <- AnyClients
CHECK_DEADLOCK FALSE
INVARIANTS AnsweredIsStored RetryStoredOnce NoLostWakeup TokensAccounted
PROPERTIES ProduceAnswered PollServed
