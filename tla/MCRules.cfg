SPECIFICATION Spec
CONSTANTS
  MaxBytes = 4
  Folded <- FoldedNames
  Ends <- EndPairs
  Limit = 2
  Depth = 2
INVARIANTS
  PagesSound
  PoolsMerged
  GateSound
  RefsSound
  VersionsOrdered
  ViewsSound
  GuidesSound
CHECK_DEADLOCK FALSE
