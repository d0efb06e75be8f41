SPECIFICATION Spec
CONSTANTS
  MaxI64 = 3
  MaxU64 = 7
  Versions = {"release", "rebuilt", "nightly", "broken"}
  Metadata <- VersionMetadata
  Order <- NamesInOrder
  Used <- Typed
  Servers <- TwoServers
  Methods <- Asked
  Literals <- Words
  Samples <- Answered
  Packed <- AllPacked
  Values <- AllValues
  Depth <- DepthOf
  Digits <- InDecimal
INVARIANTS
  CheckIsParity
  CheckedTableFits
  HandlesStayHome
  GivenBackUnchanged
CHECK_DEADLOCK FALSE
