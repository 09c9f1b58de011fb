SPECIFICATION Spec
CONSTANTS
  Descriptors <- SomeDescriptors
  Nodes = {n1, n2, n3, n4}
  NULL = NULL
INVARIANTS
  WellLinked
  NoLeakNoDangling
PROPERTIES
  KeepsTheList
SYMMETRY NodeSymmetry
