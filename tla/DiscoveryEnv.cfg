SPECIFICATION Spec
CONSTANTS
  s1 = s1
  s2 = s2
  Names <- TwoNames
  Layouts <- SomeLayouts
  Kinds <- OnlyConnect
  MaxTime = 2
INVARIANT
  DiscoversWhenAbsent
CHECK_DEADLOCK FALSE
