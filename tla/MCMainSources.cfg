SPECIFICATION FairSpec
CONSTANTS
  Source = {s1, s2}
  Priority = {0, 1}
  None = None
  MaxDepth = 2
  Reprioritise = FALSE
INVARIANTS
  SourcesExact
  ListsExact
PROPERTIES
  ReadyIsDispatched
