SPECIFICATION FairSpec
CONSTANTS
  Packages <- MCPackages
  ValidNames <- MCValidNames
  Padded <- MCPadded
  Spelled <- MCSpelled
  Segments <- MCSegments
  Lower <- MCLower
  Glob <- MCGlob
  Rules <- MCRules
  MustRules <- MCMustRules
  Alias <- MCAlias
  Descriptors = {"fileA", "fileB", "fileI", "msg"}
  NoDesc = "none"
  Parent <- MCParent
  Patterns <- MCPatterns
  Globs = {"b"}
  ProblemIds = {"p1", "p2", "p3", "p4", "p5", "p6"}
  Checks <- MCChecks
  ConfigChoices <- MCConfigChoices
INVARIANTS RulesAreTheirAeps ServesAllRules PluginSeesAll
PROPERTIES ImplementsPluginContract StartAndCheckEnd
