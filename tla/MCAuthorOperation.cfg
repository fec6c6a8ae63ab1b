SPECIFICATION Spec
CONSTANTS
  Snake <- MCSnake
  Lower <- MCLower
  IdField <- MCIdField
  Parts <- MCParts
  Singular <- MCSingular
  Collection <- MCCollection
  ParentType <- MCParentType
  WithoutPrepositions <- MCWithoutPrepositions
  Revision = {}
  Revisions = {}
  Trimmed <- MCTrimmed
  Counted <- MCCounted
  Imperative <- MCImperative
  Clocked <- MCClocked
  InTime <- MCInTime
  InTimes <- MCInTimes
  IPAddresses = {"ip_address"}
  ToKebabCase <- MCToKebabCase
  SnakeCase <- MCSnakeCase
  LowerCamelCase <- MCLowerCamelCase
  Upper <- MCUpper
  Capital <- MCCapital
  Underscored <- MCUnderscored
  Spaced = {"book editions"}
  Identifiers <- MCIdentifiers
  Service = "library.example.com"
  Plural <- MCPlural
  Pattern <- MCPattern
  Versions = {"v1"}
  ValidNames = {"v1", "library"}
  Slashed <- MCSlashed
  Unspecified <- MCUnspecified
  Stateful <- MCStateful
  Of <- MCOf
  Drafts <- MCDrafts
  Faults = 2
  Bases = {"get", "create", "update", "delete"}
  Mistakes = {"none", "unannotated", "HTTP verb", "unowned", "optional"}
  APIs = {}
  APIMistakes = {}
  FileMistakes = {"none"}
  EnumMistakes = {"none"}
INVARIANTS UnannotatedIsReported
CHECK_DEADLOCK FALSE
