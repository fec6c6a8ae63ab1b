SPECIFICATION ReportSpec
CONSTANTS
  Paths = {"a", "b"}
  RuleIDs = {"r1", "r2", "r3"}
  Spans <- MCSpans
  NoLoc <- MCNoLoc
  Reports <- MCReports
INVARIANTS SummaryAddsUp LocationsArePositions
