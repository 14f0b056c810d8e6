CONSTANTS
  Keys = {k1, k2, k3, k4}
  Values = {v1, v2}
  Capacity = 3
  None = none
  Nodes = {n1, n2, n3, n4}
  HeadNode = head
  TailNode = tail
SPECIFICATION Spec
INVARIANTS TypeOK ListMirrorsRecency CacheNamesItsNode EvictedNodesReleased
PROPERTY RefinesLRU
