SPECIFICATION FairSpec
CONSTANTS
  Segments <- MCSegments
  Lower <- MCLower
  Glob <- MCGlob
  Rules <- MCRules
  MustRules <- MCMustRules
  Alias <- MCAlias
  Descriptors = {"fileA", "fileB", "msg", "field"}
  NoDesc = "none"
  Parent <- MCParent
  Patterns <- MCPatterns
  Globs = {"a", "b"}
  ProblemIds = {"p1", "p2", "p3", "p4", "p5", "p6"}
  Requests <- MCRequests
INVARIANTS TypeOK MustProblemsReported FileVisitedInFull CommentsOnlyHide
PROPERTIES ImplementsContract Returns
