\* Two nodes, every entry, every kind of request, restarts at any time.
SPECIFICATION ApiSpec
CONSTANTS
  n1 = n1
  n2 = n2
  s1 = s1
  NodeIds <- MCNodeIds
  Ips = {ip1}
  Shards <- MCShards
  Generations <- MCGenerations
  Times <- MCTimes
  Infos = {info}
  Absent = Absent
  EmptyId = EmptyId
  Sent <- MCSent
  Idle = Idle
  Never = Never
INVARIANTS
  ApiTypeOK
  NewestHeard
  AnswersExact
  CleanedUpTo
PROPERTIES
  ChangesAuthorised
