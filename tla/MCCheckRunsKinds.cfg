\* The same, and what the documentation says of each verdict.
CONSTANTS
  dep = dep
  own = own
  c1 = c1
  c2 = c2
  newer = newer
  older = older
  None = None
  Commits = {c1}
  Series = {newer, older}
  SelfPins = {own}
  PinsOf <- MCPinsOf
  Truths <- AllFindings
  CommitLists <- OneCommit
  SeriesLists <- OneSeries
  RunOptions <- PlainOptions
  MaxRuns = 1
  MaxStoreChanges = 0
SPECIFICATION Spec
CHECK_DEADLOCK FALSE
INVARIANT VerdictsMatchReasons
