SPECIFICATION Spec
CONSTANTS
  Snake <- MCSnake
  Lower <- MCLower
  IdField <- MCIdField
  Parts <- MCParts
  Singular <- MCSingular
  Collection <- MCCollection
  ParentType <- MCParentType
  WithoutPrepositions <- MCWithoutPrepositions
  Revision = {}
  Revisions = {}
  Trimmed <- MCTrimmed
  Counted <- MCCounted
  Imperative <- MCImperative
  Clocked <- MCClocked
  InTime <- MCInTime
  InTimes <- MCInTimes
  IPAddresses = {"ip_address"}
  ToKebabCase <- MCToKebabCase
  SnakeCase <- MCSnakeCase
  LowerCamelCase <- MCLowerCamelCase
  Upper <- MCUpper
  Capital <- MCCapital
  Underscored <- MCUnderscored
  Spaced = {"book editions"}
  Identifiers <- MCIdentifiers
  Service = "library.example.com"
  Plural <- MCPlural
  Pattern <- MCPattern
  Versions = {"v1"}
  ValidNames = {"v1", "library"}
  Slashed <- MCSlashed
  Unspecified <- MCUnspecified
  Stateful <- MCStateful
  Of <- MCOf
  Drafts <- MCDrafts
  Faults = 2
  Bases = {"get", "list", "list top", "create", "create top", "create operation", "create top operation", "update", "update operation",
           "delete", "delete parent", "undelete", "undelete book", "custom"}
  Mistakes = {"none", "HTTP verb", "body", "no body", "variable", "collection", "no collection", "no HTTP",
              "second HTTP", "no signature", "signature", "request", "response", "verb", "streaming",
              "no metadata", "unreachable", "unowned", "owner's name", "owner's type",
              "owner optional", "no reference", "reference", "type reference", "unknown", "known",
              "no resource", "resource's name", "optional", "etag", "id field", "results",
              "page token", "preposition", "no noun", "suffix"}
  APIs = {"publisher", "edition", "settings", "search"}
  APIMistakes = {"none", "no annotation", "blank annotation", "capital type", "unsplit type", "same type",
                 "singular", "plural", "no plural", "no patterns", "second pattern", "snake case",
                 "camel case", "space", "capital", "camel variable", "short variable",
                 "no collection", "variable first", "no path", "optional path", "integer path",
                 "uid", "id", "created_at", "created int", "modified", "opened", "read_times",
                 "milliseconds", "num_books", "first_name", "self_link", "book_path", "ip_address",
                 "request_id", "read_mask", "no Get", "no List", "no methods", "operation",
                 "stream", "two streams", "no HTTP", "slash", "any", "anything", "hyphen",
                 "snake URI", "camel URI", "capital URI", "URI variable", "short URI",
                 "second rule", "no reference", "other reference", "Create", "Delete", "Add"}
  FileMistakes = {"none", "directory", "here", "version", "characters", "proto2", "one line", "old file",
                  "service last", "enum first", "enum, message", "no service", "uncommented",
                  "internal", "internal below", "below", "apart", "deprecated",
                  "deprecated last", "service", "enum", "link", "HTML", "heading", "table"}
  EnumMistakes = {"none", "BookStatus", "Status", "BookState", "Genre", "no Book", "unknown",
                  "unspecified", "input", "CANCELED", "FAIL", "FAILURE", "READY",
                  "SUCCESS", "SUCCEEDED"}
INVARIANTS AdviceIsAnswered CleanIsCallable CleanKnowsItsResource CleanServiceIsComplete CleanIsAddressable CleanFileIsInOrder
PROPERTY Converges
CHECK_DEADLOCK FALSE
