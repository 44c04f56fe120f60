SPECIFICATION Spec
CONSTANTS
  Memories = {m1, m2}
  Root = m1
  Addresses = {1, 2}
  Bytes = {0, 1}
  Image <- MCImage
  Writes <- MCWrites
  Unused = Unused
  Absent = Absent
  FlattenDepth = 2
  MaxLayers = 6
INVARIANTS NoOmission AgreeElsewhere
PROPERTY PrivateCopies
CHECK_DEADLOCK FALSE
