SPECIFICATION FairSpec
CONSTANTS
  Segments <- MCSegments
  Lower <- MCLower
  Glob <- MCGlob
  Rules <- MCRules
  MustRules <- MCMustRules
  Alias <- MCAlias
  Descriptors = {"fileA", "fileB"}
  NoDesc = "none"
  Parent <- MCParent
  Patterns <- MCPatterns
  Globs = {"a"}
  ProblemIds = {"p1", "p2", "p3"}
  Runs <- MCRuns
INVARIANTS TypeOK CleanExitReportsAll ExitStatusTells DisabledRulesAreSilent
PROPERTIES ImplementsCommandContract Ends
