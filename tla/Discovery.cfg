SPECIFICATION Spec
CONSTANTS
  s1 = s1
  s2 = s2
  Names <- TwoNames
  Layouts <- SomeLayouts
  Kinds <- AllKinds
  MaxTime = 2
INVARIANTS
  ListedInOrder
  SteadyAreFound
  NoFallback
CHECK_DEADLOCK FALSE
