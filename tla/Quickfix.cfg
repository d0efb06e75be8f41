SPECIFICATION Spec
CONSTANTS
  Windows = {"v", "w"}
  Flags = {"none", "current", "w"}
  Titles = {":grep"}
  Inputs <- Given
  MaxLists = 2
  MaxLine = 3
  MaxU64 = 15
  MaxId = 3
  MaxItems = 8
INVARIANTS
  RepliesAreTrue
  PositionsComeBack
PROPERTIES
  UpdatesAreExact
