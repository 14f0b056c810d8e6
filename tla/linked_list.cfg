CONSTANTS
  Lists = {a, b}
  Values = {v1, v2}
  None = none
  Nodes = {n1, n2, n3, n4}
SYMMETRY NodeSymmetry
SPECIFICATION Spec
INVARIANTS TypeOK WellLinked NothingElseLives
PROPERTY RefinesValueLists
