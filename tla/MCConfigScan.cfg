SPECIFICATION Spec
CONSTANTS
  Segments <- MCSegments
  Lower <- MCLower
  Glob <- MCGlob
  RuleNameSet <- MCRules
  PathSet = {"p", "q"}
  Patterns <- MCPatterns
  Globs <- MCGlobs
  Commands <- MCCommands
INVARIANTS LastWordDecides DisableFlagWins CloudNeedsEnabling
