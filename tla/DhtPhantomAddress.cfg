\* An address stays in the address map after its nodes are gone.
SPECIFICATION Spec
CONSTANTS
  n1 = n1
  n2 = n2
  NodeIds = {n1, n2}
  Ips = {ip1, ip2}
  Shards = {s1}
  MaxGeneration = 2
  MaxTime = 2
  Generations <- MCGenerations
  Times <- MCTimes
  Infos = {info}
  Absent = Absent
  EmptyId = EmptyId
SYMMETRY Symmetry
INVARIANTS
  NoPhantomAddress
