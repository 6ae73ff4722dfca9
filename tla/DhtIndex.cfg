\* Three nodes, one of them named by the empty string, compete for two
\* addresses.
SPECIFICATION Spec
CONSTANTS
  n1 = n1
  n2 = n2
  NodeIds <- MCNodeIds
  Ips = {ip1, ip2}
  Shards = {s1}
  MaxGeneration = 2
  MaxTime = 2
  Generations <- MCGenerations
  Times <- MCTimes
  Infos = {info}
  Absent = Absent
  EmptyId = EmptyId
SYMMETRY Symmetry
INVARIANTS
  TypeOK
  IndexConsistent
  ShardIndexExact
  IpForward
  SweepExact
PROPERTIES
  ImplementsRegistry
