\* Everything that can be found about one patch, and rounds of two commits and
\* two series: what is shared, cached and asked.
CONSTANTS
  dep = dep
  own = own
  c1 = c1
  c2 = c2
  newer = newer
  older = older
  None = None
  Commits = {c1, c2}
  Series = {newer, older}
  SelfPins = {own}
  PinsOf <- MCPinsOf
  Truths <- MCTruths
  CommitLists <- MCCommitLists
  SeriesLists <- MCSeriesLists
  RunOptions <- Options
  MaxRuns = 2
  MaxStoreChanges = 1
SPECIFICATION MCSpec
CHECK_DEADLOCK FALSE
INVARIANTS
  TypeOK RowsFollowTheEvidence OneAnswerPerLeg RowsReflectTheStore
  SilenceIsEarned ClearanceAgrees
PROPERTY PromotionKeepsTheVerdict
